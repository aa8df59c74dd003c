------------------------------- MODULE ApiProofs -------------------------------
(***************************************************************************)
(* Theorems on ApiClient: its state is well formed, results are sent in    *)
(* the order they were made, late answers do not get into the cache of     *)
(* another module, and the list a host is taken from is not empty.         *)
(***************************************************************************)
EXTENDS ApiClient, FiniteSetTheorems, SequenceTheorems, TLAPS

USE ApiClientAssumption

-----------------------------------------------------------------------------
(* The inductive invariant.                                                *)

\* Every new version takes a change.
Bounded ==
    /\ \A m \in Mods : version[m] <= changes
    /\ \A m \in Mods : changed[m] <= changes

\* Where nothing is held: in an item without successes, in one that is
\* overloaded, and in one that is being refreshed.
NothingHeld(item) == item.held = Zero

Results ==
    /\ \A m \in Mods :
          cache[m] # NoItem /\ (cache[m].succCnt = 0 \/ cache[m].overload)
             => NothingHeld(cache[m])
    /\ call.op = "refresh" => cache[call.mod] # NoItem /\ NothingHeld(cache[call.mod])
    /\ call.op = "fetch" => cache[call.mod] = NoItem

\* The agent's routes and answers have hosts of the module.
OwnAnswers ==
    /\ \A m \in Mods : route[m] \subseteq HostsOf(m)
    /\ \A i \in DOMAIN inbox :
          inbox[i].kind = "cache" => inbox[i].hosts \subseteq HostsOf(inbox[i].mod)

\* The places a version of m can be in.
Has(m, v)      == cache[m] # NoItem /\ cache[m].version = v
Answer(i, m)   == inbox[i].kind = "cache" /\ inbox[i].mod = m
Question(i, m) == requests[i].kind = "cache" /\ requests[i].mod = m

\* No version is ahead of the agent's.
NotAhead(m) ==
    /\ cache[m] # NoItem => cache[m].version <= version[m]
    /\ \A i \in DOMAIN inbox : Answer(i, m) => inbox[i].version <= version[m]
    /\ \A i \in DOMAIN requests : Question(i, m) => requests[i].version <= version[m]

\* A route that has got its version by being deleted in this second: nobody
\* has that version.
UnseenWhenDeleted(m) ==
    route[m] = {} /\ changed[m] = 1 =>
       /\ ~Has(m, version[m])
       /\ \A i \in DOMAIN inbox : Answer(i, m) => inbox[i].version # version[m]
       /\ \A i \in DOMAIN requests : Question(i, m) => requests[i].version # version[m]

\* While the agent has the route, whoever has its version keeps it: no answer
\* behind says anything else.
KeptWhilePresent(m) ==
    route[m] # {} =>
       /\ Has(m, version[m]) =>
             \A i \in DOMAIN inbox : Answer(i, m) => inbox[i].version = version[m]
       /\ \A i, j \in DOMAIN inbox :
             i < j /\ Answer(i, m) /\ Answer(j, m) /\ inbox[i].version = version[m]
                => inbox[j].version = version[m]
       /\ \A i \in DOMAIN requests :
             Question(i, m) /\ requests[i].version = version[m] => Has(m, version[m])

\* An answer without hosts finds the version it has in the cache, and so does
\* every answer before it.
EmptyMeetsItsVersion(m) ==
    \A j \in DOMAIN inbox :
       Answer(j, m) /\ inbox[j].version # Absent /\ inbox[j].hosts = {} =>
          /\ Has(m, inbox[j].version)
          /\ \A i \in DOMAIN inbox :
                i < j /\ Answer(i, m) => inbox[i].version = inbox[j].version

Stocked ==
    /\ ret # Garbage
    /\ \A m \in Mods : cache[m] # NoItem => cache[m].hosts # <<>>

Versions ==
    \A m \in Mods : /\ NotAhead(m) /\ UnseenWhenDeleted(m)
                    /\ KeptWhilePresent(m) /\ EmptyMeetsItsVersion(m)

IInv ==
    /\ TypeOK /\ Bounded /\ Results /\ OrderKept /\ OwnHosts /\ OwnAnswers
    /\ ~hasty => Versions /\ Stocked

-----------------------------------------------------------------------------
(* Sequences and sets.                                                     *)

LEMMA AppendFacts ==
  ASSUME NEW S, NEW q \in Seq(S), NEW e \in S
  PROVE  /\ Append(q, e) \in Seq(S) /\ Append(q, e) # <<>>
         /\ DOMAIN Append(q, e) = 1..(Len(q) + 1) /\ DOMAIN q = 1..Len(q)
         /\ \A i \in 1..Len(q) : Append(q, e)[i] = q[i]
         /\ Append(q, e)[Len(q) + 1] = e
         /\ Len(q) \in Nat
  BY AppendProperties, LenProperties

LEMMA TailFacts ==
  ASSUME NEW S, NEW q \in Seq(S), q # <<>>
  PROVE  /\ Head(q) \in S /\ Tail(q) \in Seq(S) /\ Head(q) = q[1]
         /\ DOMAIN q = 1..Len(q) /\ DOMAIN Tail(q) = 1..(Len(q) - 1)
         /\ Len(q) \in Nat \ {0}
         /\ \A i \in 1..(Len(q) - 1) : Tail(q)[i] = q[i + 1]
  <1>1. /\ Head(q) \in S /\ Tail(q) \in Seq(S)
        /\ Len(q) \in Nat \ {0} /\ Len(Tail(q)) = Len(q) - 1
        /\ \A i \in 1..Len(Tail(q)) : Tail(q)[i] = q[i + 1]
    BY HeadTailProperties, EmptySeq
  <1>2. DOMAIN q = 1..Len(q) /\ DOMAIN Tail(q) = 1..Len(Tail(q))
    BY <1>1, LenProperties
  <1>3. Head(q) = q[1]
    BY <1>1
  <1>4. QED
    BY <1>1, <1>2, <1>3

\* The hosts of an answer, in some order.
LEMMA SetToSeqFacts ==
  ASSUME NEW S \in SUBSET Hosts
  PROVE  /\ SetToSeq(S) \in Seq(Hosts) /\ ToSet(SetToSeq(S)) \subseteq S
         /\ S # {} => SetToSeq(S) # <<>>
  <1>1. IsFiniteSet(S)
    BY FS_Subset
  <1>2. ExistsBijection(1..Cardinality(S), S) /\ Cardinality(S) \in Nat
    BY <1>1, FS_CardinalityType
  <1>3. PICK f \in Bijection(1..Cardinality(S), S) : TRUE
    BY <1>2 DEF ExistsBijection
  <1>4. f \in [1..Cardinality(S) -> S] /\ IsInjective(f)
    BY <1>3 DEF Bijection, Injection
  <1>5. SetToSeq(S) \in [1..Cardinality(S) -> S]
    BY <1>4 DEF SetToSeq
  <1>6. SetToSeq(S) \in Seq(S) /\ Len(SetToSeq(S)) = Cardinality(S)
    BY <1>2, <1>5
  <1>7. SetToSeq(S) \in Seq(Hosts)
    BY <1>6, SeqMonotonic
  <1>8. ToSet(SetToSeq(S)) \subseteq S
    BY <1>5 DEF ToSet
  <1>9. S # {} => Cardinality(S) # 0
    BY <1>1, FS_EmptySet
  <1>10. S # {} => SetToSeq(S) # <<>>
    BY <1>6, <1>9, EmptySeq
  <1>11. QED
    BY <1>7, <1>8, <1>10

LEMMA RotateFacts ==
  ASSUME NEW q \in Seq(Hosts)
  PROVE  /\ Rotate(q) \in Seq(Hosts) /\ ToSet(Rotate(q)) \subseteq ToSet(q)
         /\ Rotate(q) = <<>> <=> q = <<>>
         /\ FrontOf(q) \in Hosts \cup {Garbage}
         /\ q # <<>> => FrontOf(q) \in Hosts
  <1>1. CASE q = <<>>
    BY <1>1, EmptySeq DEF Rotate, FrontOf
  <1>2. CASE q # <<>>
    <2>1. /\ Head(q) \in Hosts /\ Tail(q) \in Seq(Hosts) /\ Head(q) = q[1]
          /\ DOMAIN q = 1..Len(q) /\ DOMAIN Tail(q) = 1..(Len(q) - 1)
          /\ Len(q) \in Nat \ {0}
          /\ \A i \in 1..(Len(q) - 1) : Tail(q)[i] = q[i + 1]
      BY <1>2, TailFacts
    <2>2. /\ Rotate(q) = Append(Tail(q), Head(q)) /\ FrontOf(q) = Head(q)
      BY <1>2 DEF Rotate, FrontOf
    <2>3. Len(Tail(q)) = Len(q) - 1
      BY <2>1, LenProperties
    <2>4. /\ Rotate(q) \in Seq(Hosts) /\ Rotate(q) # <<>>
          /\ DOMAIN Rotate(q) = 1..Len(q)
          /\ \A i \in 1..(Len(q) - 1) : Rotate(q)[i] = q[i + 1]
          /\ Rotate(q)[Len(q)] = q[1]
      BY <2>1, <2>2, <2>3, AppendFacts
    <2>5. ASSUME NEW i \in 1..Len(q) PROVE Rotate(q)[i] \in ToSet(q)
      <3>1. CASE i = Len(q)
        BY <2>1, <2>4, <3>1 DEF ToSet
      <3>2. CASE i # Len(q)
        <4>1. i \in 1..(Len(q) - 1) /\ i + 1 \in 1..Len(q)
          <5>1. Len(q) \in Nat
            BY <2>1
          <5>2. QED
            BY <2>5, <3>2, <5>1
        <4>2. Rotate(q)[i] = q[i + 1]
          BY <2>4, <4>1
        <4>3. QED
          BY <2>1, <4>1, <4>2 DEF ToSet
      <3>3. QED
        BY <3>1, <3>2
    <2>6. ToSet(Rotate(q)) \subseteq ToSet(q)
      BY <2>4, <2>5 DEF ToSet
    <2>7. QED
      BY <1>2, <2>1, <2>2, <2>4, <2>6
  <1>3. QED
    BY <1>1, <1>2

-----------------------------------------------------------------------------
(* The items of the cache.                                                 *)

LEMMA ItemFields ==
  ASSUME NEW item \in Item
  PROVE  /\ item.hosts \in Seq(Hosts) /\ item.overload \in BOOLEAN
         /\ item.version \in 0..MaxChange /\ item.age \in 0..Fresh
         /\ item.held \in [Hosts -> Nat] /\ item.succCnt \in Nat
  BY DEF Item

LEMMA RotatedFacts ==
  ASSUME NEW item \in Item
  PROVE  /\ Rotated(item) \in Item
         /\ Rotated(item).hosts = Rotate(item.hosts)
         /\ Rotated(item).version = item.version
         /\ Rotated(item).overload = item.overload
         /\ Rotated(item).held = item.held
         /\ Rotated(item).succCnt = item.succCnt
  <1> DEFINE hs == Rotate(item.hosts)
  <1>1. hs \in Seq(Hosts)
    BY ItemFields, RotateFacts
  <1>2. Rotated(item) = [item EXCEPT !.hosts = hs]
    BY Zenon DEF Rotated
  <1> HIDE DEF hs
  <1>3. QED
    BY <1>1, <1>2 DEF Item, hs

LEMMA HoldingFacts ==
  ASSUME NEW item \in Item, NEW h \in Hosts
  PROVE  /\ Holding(item, h) \in Item
         /\ Holding(item, h).hosts = item.hosts
         /\ Holding(item, h).version = item.version
         /\ Holding(item, h).overload = item.overload
         /\ Holding(item, h).succCnt # 0
         /\ Holding(item, h).held = [item.held EXCEPT ![h] = item.held[h] + 1]
  <1> DEFINE hd == [item.held EXCEPT ![h] = item.held[h] + 1]
             n  == item.succCnt + 1
             r  == [item EXCEPT !.held = hd, !.succCnt = n]
  <1>1. hd \in [Hosts -> Nat] /\ n \in Nat /\ n # 0
    BY ItemFields
  <1>2. Holding(item, h) = r
    BY Zenon DEF Holding
  <1>3. Holding(item, h).held = hd /\ r \in Item /\ r.hosts = item.hosts
        /\ r.version = item.version /\ r.overload = item.overload /\ r.succCnt = n
    <2> HIDE DEF hd, n
    <2>1. QED
      BY <1>1, <1>2 DEF Item
  <1> HIDE DEF r
  <1>4. QED
    BY <1>1, <1>2, <1>3

LEMMA AgedFacts ==
  ASSUME NEW item \in Item
  PROVE  /\ Aged(item) \in Item
         /\ Aged(item).hosts = item.hosts
         /\ Aged(item).version = item.version
         /\ Aged(item).overload = item.overload
         /\ Aged(item).held = item.held
         /\ Aged(item).succCnt = item.succCnt
  <1> DEFINE n == Older(item.age)
  <1>1. n \in 0..Fresh
    BY ItemFields DEF Older, Fresh
  <1>2. item # NoItem
    BY ValuesDistinct
  <1>3. Aged(item) = [item EXCEPT !.age = n]
    BY <1>2, Zenon DEF Aged
  <1> HIDE DEF n
  <1>4. QED
    BY <1>1, <1>3 DEF Item

LEMMA FlushedFacts ==
  ASSUME NEW m \in Mods, cache[m] \in Item
  PROVE  /\ Flushed(m) \in Item
         /\ Flushed(m).hosts = cache[m].hosts
         /\ Flushed(m).version = cache[m].version
         /\ Flushed(m).overload = cache[m].overload
         /\ Holds(m) => Flushed(m).held = Zero
         /\ ~Holds(m) => Flushed(m) = cache[m]
  <1> DEFINE r == [cache[m] EXCEPT !.succCnt = 0, !.held = Zero]
  <1>1. Zero \in [Hosts -> Nat]
    BY DEF Zero
  <1>2. /\ r \in Item /\ r.hosts = cache[m].hosts /\ r.version = cache[m].version
        /\ r.overload = cache[m].overload /\ r.held = Zero
    BY <1>1 DEF Item
  <1>3. Flushed(m) = IF Holds(m) THEN r ELSE cache[m]
    BY Zenon DEF Flushed
  <1> HIDE DEF r
  <1>4. QED
    BY <1>2, <1>3

LEMMA NoItemFlushed ==
  ASSUME NEW m \in Mods, cache[m] = NoItem
  PROVE  ~Holds(m) /\ Flushed(m) = NoItem /\ Owed(m) = due[m]
  BY DEF Holds, Flushed, Owed

-----------------------------------------------------------------------------
(* Packets, calls, and the part of apiGetHost that serves a cached item.    *)

Items == Item \cup {NoItem}

LEMMA PacketFields ==
  ASSUME NEW p \in Packets
  PROVE  /\ p.kind \in {"cache", "host", "route"} /\ p.mod \in Mods
         /\ p.kind = "cache" => /\ p.version \in -1..MaxChange /\ p.hosts \in SUBSET Hosts
                                /\ p.overload \in BOOLEAN
         /\ p.kind = "host" => p.answer \in Hosts \cup {NoExist, Overload}
  BY DEF Packets

LEMMA CallFields ==
  ASSUME NEW c \in Calls
  PROVE  /\ c.op \in {"idle", "gone", "fetch", "refresh", "host", "route"}
         /\ c # Idle /\ c # Gone => c.mod \in Mods
         /\ c.op \in {"fetch", "refresh"} => c.mod \in Mods /\ c.age \in 0..1
         /\ c.op = "idle" => c = Idle
         /\ c.op = "gone" => c = Gone
  BY DEF Calls, Idle, Gone

LEMMA NewItemFacts ==
  ASSUME NEW p \in Packets, p.kind = "cache", p.version # Absent, call.age \in 0..1
  PROVE  /\ NewItem(p) \in Item
         /\ ToSet(NewItem(p).hosts) \subseteq p.hosts
         /\ p.hosts # {} => NewItem(p).hosts # <<>>
         /\ NewItem(p).version = p.version
         /\ NewItem(p).held = Zero
  <1> DEFINE hs == SetToSeq(p.hosts)
  <1>1. /\ p.version \in 0..MaxChange /\ p.hosts \in SUBSET Hosts
        /\ p.overload \in BOOLEAN /\ call.age \in 0..Fresh
    <2>1. MaxChange \in Nat
      OBVIOUS
    <2>2. QED
      BY <2>1, PacketFields DEF Absent, Fresh
  <1>2. /\ hs \in Seq(Hosts) /\ ToSet(hs) \subseteq p.hosts
        /\ p.hosts # {} => hs # <<>>
    BY <1>1, SetToSeqFacts
  <1>3. Zero \in [Hosts -> Nat]
    BY DEF Zero
  <1>4. NewItem(p) = [hosts |-> hs, overload |-> p.overload, version |-> p.version,
                      age |-> call.age, held |-> Zero, succCnt |-> 0]
    BY DEF NewItem
  <1> HIDE DEF hs
  <1>5. QED
    BY <1>1, <1>2, <1>3, <1>4 DEF Item

\* The cached item after an answer: none, a new one, or the same list.
LEMMA UpdatedFacts ==
  ASSUME NEW item \in Items, NEW p \in Packets, p.kind = "cache", call.age \in 0..1
  PROVE  /\ Updated(item, p) \in Items
         /\ p.version = Absent => Updated(item, p) = NoItem
         /\ p.version # Absent =>
               /\ Updated(item, p) # NoItem /\ Updated(item, p).version = p.version
               /\ \/ /\ item # NoItem /\ item.version = p.version
                     /\ Updated(item, p).hosts = item.hosts
                     /\ Updated(item, p).held = item.held
                  \/ /\ ~(item # NoItem /\ item.version = p.version)
                     /\ ToSet(Updated(item, p).hosts) \subseteq p.hosts
                     /\ p.hosts # {} => Updated(item, p).hosts # <<>>
                     /\ Updated(item, p).held = Zero
  <1>1. CASE p.version = Absent
    BY <1>1 DEF Updated, Items
  <1>2. CASE p.version # Absent /\ (item = NoItem \/ item.version # p.version)
    BY <1>2, NewItemFacts, ValuesDistinct DEF Updated, Items
  <1>3. CASE p.version # Absent /\ item # NoItem /\ item.version = p.version
    <2> DEFINE o == p.overload
               a == call.age
               r == [item EXCEPT !.overload = o, !.succCnt = 0, !.age = a]
    <2>1. o \in BOOLEAN /\ a \in 0..Fresh /\ item \in Item
      BY <1>3, PacketFields DEF Fresh, Items
    <2>2. Updated(item, p) = r
      BY <1>3, Zenon DEF Updated
    <2> HIDE DEF o, a
    <2>3. /\ r \in Item /\ r.hosts = item.hosts /\ r.version = item.version
          /\ r.held = item.held
      BY <2>1 DEF Item
    <2> HIDE DEF r
    <2>4. QED
      BY <1>3, <2>2, <2>3, ValuesDistinct DEF Items
  <1>4. QED
    BY <1>1, <1>2, <1>3

\* Asking appends one request for a host.
Asked ==
    \E r \in Requests : r.kind = "host" /\ requests' = Append(requests, r)

\* What serving item for m does: the item, with its list rotated, is cached.
Served(m, item) ==
    /\ cache' \in [Mods -> Items] /\ call' \in Calls
    /\ ret' \in Hosts \cup Codes /\ seq' \in 0..(SeqLim - 1)
    /\ \A n \in Mods : n # m => cache'[n] = cache[n]
    /\ item = NoItem => cache'[m] = NoItem
    /\ item # NoItem =>
          /\ cache'[m] # NoItem /\ cache'[m].version = item.version
          /\ cache'[m].overload = item.overload /\ cache'[m].held = item.held
          /\ cache'[m].succCnt = item.succCnt
          /\ ToSet(cache'[m].hosts) \subseteq ToSet(item.hosts)
          /\ item.hosts # <<>> => cache'[m].hosts # <<>>
    /\ call'.op \in {"idle", "host"}
    /\ ret' = Garbage => item # NoItem /\ item.hosts = <<>>
    /\ requests' = requests \/ Asked

LEMMA ServeFacts ==
  ASSUME TypeOK, NEW m \in Mods, NEW item \in Items, Serve(m, item)
  PROVE  Served(m, item)
  <1> USE DEF Items
  <1>1. /\ cache \in [Mods -> Items] /\ seq \in 0..(SeqLim - 1)
        /\ SeqLim \in Nat \ {0}
    BY DEF TypeOK
  <1>2. Idle \in Calls /\ Idle.op = "idle"
    BY DEF Calls, Idle
  <1>3. /\ NoExist \in Codes /\ Garbage \in Codes /\ Pending \in Codes
        /\ NoExist # Garbage /\ Pending # Garbage
    BY DEF Codes, NoExist, Garbage, Pending
  <1>4. CASE item = NoItem /\ cache' = [cache EXCEPT ![m] = NoItem] /\ Return(NoExist)
             /\ UNCHANGED <<requests, seq>>
    BY <1>1, <1>2, <1>3, <1>4 DEF Served, Return
  <1>5. CASE /\ item # NoItem /\ ~item.overload
             /\ cache' = [cache EXCEPT ![m] = Rotated(item)]
             /\ Return(FrontOf(item.hosts)) /\ UNCHANGED <<requests, seq>>
    <2>1. item \in Item /\ item.hosts \in Seq(Hosts)
      BY <1>5, ItemFields
    <2>2. /\ Rotated(item) \in Item /\ Rotated(item).version = item.version
          /\ Rotated(item).overload = item.overload /\ Rotated(item).held = item.held
          /\ Rotated(item).succCnt = item.succCnt
          /\ Rotated(item).hosts = Rotate(item.hosts)
      BY <2>1, RotatedFacts
    <2>3. /\ ToSet(Rotate(item.hosts)) \subseteq ToSet(item.hosts)
          /\ item.hosts # <<>> => Rotate(item.hosts) # <<>>
          /\ FrontOf(item.hosts) \in Hosts \cup {Garbage}
          /\ item.hosts # <<>> => FrontOf(item.hosts) \in Hosts
      BY <2>1, RotateFacts
    <2>4. /\ cache' \in [Mods -> Items] /\ cache'[m] = Rotated(item)
          /\ \A n \in Mods : n # m => cache'[n] = cache[n]
      BY <1>1, <1>5, <2>2
    <2>5. Rotated(item) # NoItem /\ Garbage \notin Hosts
      BY <1>3, <2>2, ValuesDistinct
    <2>6. /\ call' = Idle /\ ret' = FrontOf(item.hosts) /\ requests' = requests
          /\ seq' = seq
      BY <1>5 DEF Return
    <2>7. QED
      BY <1>1, <1>2, <1>3, <1>5, <2>2, <2>3, <2>4, <2>5, <2>6 DEF Served
  <1>6. CASE item # NoItem /\ cache' = [cache EXCEPT ![m] = item] /\ Ask(m)
    <2>1. HostReq(m, seq) \in Requests /\ HostReq(m, seq).kind = "host"
      BY <1>1 DEF HostReq, Requests
    <2>2. /\ call' = [op |-> "host", mod |-> m, seq |-> seq, again |-> FALSE]
          /\ requests' = Append(requests, HostReq(m, seq)) /\ ret' = Pending
          /\ seq' = (seq + 1) % SeqLim
      BY <1>6 DEF Ask
    <2>3. call' \in Calls /\ call'.op = "host"
      BY <1>1, <2>2 DEF Calls
    <2>4. seq' \in 0..(SeqLim - 1)
      BY <1>1, <2>2
    <2>5. Asked
      BY <2>1, <2>2 DEF Asked
    <2>6. cache' \in [Mods -> Items] /\ cache'[m] = item
          /\ \A n \in Mods : n # m => cache'[n] = cache[n]
      BY <1>1, <1>6
    <2>7. QED
      BY <1>3, <1>6, <2>2, <2>3, <2>4, <2>5, <2>6 DEF Served
  <1>7. QED
    BY <1>4, <1>5, <1>6 DEF Serve

-----------------------------------------------------------------------------
(* The state stays well formed.                                             *)

TInv == TypeOK /\ Bounded

LEMMA OwedType ==
  ASSUME TypeOK, NEW m \in Mods
  PROVE  Owed(m) \in [Hosts -> Seq({0, 1})]
  <1>1. due[m] \in [Hosts -> Seq({0, 1})]
    BY DEF TypeOK
  <1>2. ASSUME cache[m] \in Item
        PROVE  Sent(m, cache[m].held) \in [Hosts -> Seq({0, 1})]
    <2>1. ASSUME NEW h \in Hosts
          PROVE  SubSeq(due[m][h], cache[m].held[h] + 1, Len(due[m][h])) \in Seq({0, 1})
      <3>1. due[m][h] \in Seq({0, 1}) /\ cache[m].held[h] \in Nat
        BY <1>1, <1>2, ItemFields
      <3>2. Len(due[m][h]) \in Nat
            /\ \A i \in 1..Len(due[m][h]) : due[m][h][i] \in {0, 1}
        BY <3>1, LenProperties, ElementOfSeq
      <3>3. \A i \in (cache[m].held[h] + 1)..Len(due[m][h]) : due[m][h][i] \in {0, 1}
        BY <3>1, <3>2
      <3>4. QED
        BY <3>1, <3>2, <3>3, SubSeqProperties
    <2>2. QED
      BY <2>1 DEF Sent
  <1>3. cache[m] \in Item \/ cache[m] = NoItem
    BY DEF TypeOK
  <1>4. QED
    BY <1>1, <1>2, <1>3 DEF Owed, Holds

LEMMA FlushedType ==
  ASSUME TypeOK, NEW m \in Mods
  PROVE  Flushed(m) \in Items
  <1>1. cache[m] \in Item \/ cache[m] = NoItem
    BY DEF TypeOK
  <1>2. QED
    BY <1>1, FlushedFacts, NoItemFlushed DEF Items

LEMMA SendResultType ==
  ASSUME TypeOK, NEW m \in Mods, NEW h \in Hosts, NEW r \in {0, 1},
         NEW S \in [Hosts -> Seq({0, 1})], SendResult(m, h, r, S)
  PROVE  /\ due' \in [Mods -> [Hosts -> Seq({0, 1})]]
         /\ \A n \in Mods : n # m => due'[n] = due[n]
         /\ \A k \in Hosts : k # h => due'[m][k] = S[k]
         /\ due'[m][h] = Tail(Append(S[h], r))
  <1> DEFINE q == Tail(Append(S[h], r))
  <1>1. q \in Seq({0, 1})
    BY AppendFacts, TailFacts
  <1>2. due' = [due EXCEPT ![m] = [S EXCEPT ![h] = q]]
    BY DEF SendResult
  <1>3. due \in [Mods -> [Hosts -> Seq({0, 1})]]
    BY DEF TypeOK
  <1> HIDE DEF q
  <1>4. [S EXCEPT ![h] = q] \in [Hosts -> Seq({0, 1})]
    BY <1>1
  <1>5. /\ due' \in [Mods -> [Hosts -> Seq({0, 1})]]
        /\ \A n \in Mods : n # m => due'[n] = due[n]
        /\ \A k \in Hosts : k # h => due'[m][k] = S[k]
        /\ due'[m][h] = q
    BY <1>2, <1>3, <1>4
  <1>6. QED
    BY <1>5 DEF q

LEMMA HoldType ==
  ASSUME TypeOK, NEW m \in Mods, NEW h \in Hosts, cache[m] # NoItem, Hold(m, h)
  PROVE  cache' \in [Mods -> Items] /\ due' \in [Mods -> [Hosts -> Seq({0, 1})]]
  <1>1. cache[m] \in Item
    BY DEF TypeOK
  <1>2. Holding(cache[m], h) \in Items
    BY <1>1, HoldingFacts DEF Items
  <1>3. due \in [Mods -> [Hosts -> Seq({0, 1})]] /\ cache \in [Mods -> Items]
    BY DEF TypeOK, Items
  <1>4. Append(due[m][h], 0) \in Seq({0, 1})
    BY <1>3, AppendFacts
  <1>5. CASE /\ cache' = [cache EXCEPT ![m] = Holding(cache[m], h)]
             /\ due' = [due EXCEPT ![m][h] = Append(due[m][h], 0)]
    BY <1>2, <1>3, <1>4, <1>5
  <1>6. CASE UNCHANGED <<cache, due>>
    BY <1>3, <1>6
  <1>7. QED
    BY <1>5, <1>6 DEF Hold

LEMMA BatchType ==
  ASSUME TypeOK, NEW m \in Mods, BatchReportRes(m)
  PROVE  cache' \in [Mods -> Items] /\ due' \in [Mods -> [Hosts -> Seq({0, 1})]]
  <1>1. due \in [Mods -> [Hosts -> Seq({0, 1})]] /\ cache \in [Mods -> Items]
    BY DEF TypeOK, Items
  <1>2. QED
    BY <1>1, OwedType, FlushedType DEF BatchReportRes

\* A request, of any kind, joins the queue.
LEMMA AppendRequest ==
  ASSUME TypeOK, requests' = requests \/ Asked
  PROVE  requests' \in Seq(Requests)
  <1>1. requests \in Seq(Requests)
    BY DEF TypeOK
  <1>2. ASSUME NEW r \in Requests PROVE Append(requests, r) \in Seq(Requests)
    BY <1>1, AppendFacts
  <1>3. QED
    BY <1>1, <1>2 DEF Asked

LEMMA ReturnType ==
  ASSUME NEW r \in Hosts \cup Codes, Return(r)
  PROVE  call' \in Calls /\ ret' \in Hosts \cup Codes
  BY DEF Return, Calls

\* The agent's part of the state.
AgentTypeOK ==
    /\ route \in [Mods -> SUBSET Hosts] /\ overload \in [Mods -> BOOLEAN]
    /\ version \in [Mods -> 0..MaxChange]
    /\ changed \in [Mods -> 0..MaxChange] /\ hasty \in BOOLEAN
    /\ changes \in 0..MaxChange /\ Bounded

ClientTypeOK ==
    /\ language \in {"C++", "Python"}
    /\ cache \in [Mods -> Items]
    /\ call \in Calls /\ ret \in Hosts \cup Codes
    /\ seq \in 0..(SeqLim - 1) /\ agentOff \in BOOLEAN
    /\ due \in [Mods -> [Hosts -> Seq({0, 1})]]
    /\ reports \in 0..MaxReport

NetTypeOK ==
    /\ requests \in Seq(Requests) /\ inbox \in Seq(Packets) /\ faults \in 0..MaxFault

LEMMA TypeParts == TInv <=> AgentTypeOK /\ ClientTypeOK /\ NetTypeOK
  BY DEF TInv, TypeOK, AgentTypeOK, ClientTypeOK, NetTypeOK, Items

LEMMA TypePartsNext == TInv' <=> AgentTypeOK' /\ ClientTypeOK' /\ NetTypeOK'
  BY DEF TInv, TypeOK, AgentTypeOK, ClientTypeOK, NetTypeOK, Items

LEMMA AgentKept == AgentTypeOK /\ UNCHANGED agentVars => AgentTypeOK'
  BY DEF AgentTypeOK, agentVars, Bounded

LEMMA QueryType ==
  ASSUME TypeOK, NEW m \in Mods, NEW op \in {"fetch", "refresh"},
         NEW v \in -1..MaxChange, Query(m, op, v)
  PROVE  /\ call' \in Calls /\ ret' \in Hosts \cup Codes
         /\ CacheReq(m, v) \in Requests
         /\ requests' = Append(requests, CacheReq(m, v)) /\ requests' \in Seq(Requests)
         /\ call'.op = op /\ call'.mod = m /\ ret' = Pending /\ seq' = seq
  <1>1. CacheReq(m, v) \in Requests
    BY DEF CacheReq, Requests
  <1>2. requests \in Seq(Requests)
    BY DEF TypeOK
  <1>3. Append(requests, CacheReq(m, v)) \in Seq(Requests)
    BY <1>1, <1>2, AppendFacts
  <1>4. /\ call' = [op |-> op, mod |-> m, age |-> 0]
        /\ requests' = Append(requests, CacheReq(m, v))
        /\ ret' = Pending /\ seq' = seq
    BY DEF Query
  <1>5. call' \in Calls /\ call'.op = op /\ call'.mod = m
    BY <1>4 DEF Calls
  <1>6. QED
    BY <1>1, <1>3, <1>4, <1>5 DEF Codes

\* The three ways of apiGetHost with a living agent.
LEMMA GetHostCases ==
  ASSUME TypeOK, NEW m \in Mods, ApiGetHost(m)
  PROVE  /\ Ready /\ agentOff' = FALSE
         /\ UNCHANGED <<language, reports, inbox, faults, agentVars>>
         /\ \/ /\ cache[m] = NoItem /\ Query(m, "fetch", Absent)
               /\ UNCHANGED <<cache, due>>
            \/ /\ cache[m] \in Item /\ BatchReportRes(m)
               /\ Query(m, "refresh", cache[m].version)
            \/ Served(m, cache[m]) /\ UNCHANGED due
  <1>1. cache[m] \in Items
    BY DEF TypeOK, Items
  <1>2. QED
    BY <1>1, ServeFacts DEF ApiGetHost, Items

LEMMA GetHostType ==
  ASSUME TInv, NEW m \in Mods, ApiGetHost(m)
  PROVE  TInv'
  <1> USE TypeParts, TypePartsNext
  <1>1. TypeOK
    BY DEF TInv
  <1>2. AgentTypeOK'
    BY AgentKept DEF ApiGetHost
  <1>3. language' \in {"C++", "Python"} /\ reports' \in 0..MaxReport
        /\ inbox' \in Seq(Packets) /\ faults' \in 0..MaxFault /\ agentOff' \in BOOLEAN
    BY DEF ApiGetHost, ClientTypeOK, NetTypeOK
  <1>4. CASE /\ Query(m, "fetch", Absent) /\ UNCHANGED <<cache, due>>
    <2>1. Absent \in -1..MaxChange
      BY DEF Absent
    <2>2. QED
      BY <1>1, <1>2, <1>3, <1>4, <2>1, QueryType DEF ClientTypeOK, NetTypeOK
  <1>5. CASE /\ cache[m] \in Item /\ BatchReportRes(m)
             /\ Query(m, "refresh", cache[m].version)
    <2>1. cache[m].version \in -1..MaxChange
      BY <1>5, ItemFields
    <2>2. QED
      BY <1>1, <1>2, <1>3, <1>5, <2>1, QueryType, BatchType DEF ClientTypeOK, NetTypeOK
  <1>6. CASE Served(m, cache[m]) /\ UNCHANGED due
    <2>1. requests' \in Seq(Requests)
      BY <1>1, <1>6, AppendRequest DEF Served
    <2>2. QED
      BY <1>2, <1>3, <1>6, <2>1 DEF ClientTypeOK, NetTypeOK, Served
  <1>7. QED
    BY <1>1, <1>4, <1>5, <1>6, GetHostCases

LEMMA GetHostStaticType ==
  ASSUME TInv, NEW m \in Mods, ApiGetHostStatic(m)
  PROVE  TInv'
  <1> USE TypeParts, TypePartsNext
  <1>1. AgentTypeOK' /\ NetTypeOK'
    BY AgentKept DEF ApiGetHostStatic, NetTypeOK, netVars
  <1>2. PICK r \in HostsOf(m) \cup {NoExist} : Return(r)
    BY DEF ApiGetHostStatic
  <1>3. r \in Hosts \cup Codes
    BY DEF Codes
  <1>4. call' \in Calls /\ ret' \in Hosts \cup Codes
    BY <1>2, <1>3, ReturnType
  <1>5. QED
    BY <1>1, <1>4 DEF ApiGetHostStatic, ClientTypeOK

LEMMA GetRouteType ==
  ASSUME TInv, NEW m \in Mods, ApiGetRoute(m)
  PROVE  TInv'
  <1> USE TypeParts, TypePartsNext
  <1>1. AgentTypeOK'
    BY AgentKept DEF ApiGetRoute
  <1>2. RouteReq(m) \in Requests
    BY DEF RouteReq, Requests
  <1>3. Append(requests, RouteReq(m)) \in Seq(Requests)
    BY <1>2, AppendFacts DEF NetTypeOK
  <1>4. call' \in Calls /\ ret' \in Hosts \cup Codes
    BY DEF ApiGetRoute, Calls, Codes
  <1>5. QED
    BY <1>1, <1>3, <1>4 DEF ApiGetRoute, ClientTypeOK, NetTypeOK

LEMMA ReportResType ==
  ASSUME TInv, NEW m \in Mods, NEW h \in HostsOf(m), NEW r \in {0, 1},
         ApiReportRes(m, h, r)
  PROVE  TInv'
  <1> USE TypeParts, TypePartsNext
  <1>1. AgentTypeOK' /\ NetTypeOK' /\ TypeOK /\ h \in Hosts
    BY AgentKept DEF ApiReportRes, NetTypeOK, netVars, TInv
  <1>2. /\ reports' \in 0..MaxReport /\ language' \in {"C++", "Python"}
        /\ call' \in Calls /\ ret' \in Hosts \cup Codes
        /\ seq' \in 0..(SeqLim - 1) /\ agentOff' \in BOOLEAN
    <2>1. reports' = reports + 1 /\ reports < MaxReport /\ MaxReport \in Nat
      BY DEF ApiReportRes
    <2>2. QED
      BY <2>1 DEF ApiReportRes, ClientTypeOK
  <1>3. cache \in [Mods -> Items] /\ due \in [Mods -> [Hosts -> Seq({0, 1})]]
    BY DEF ClientTypeOK
  <1>4. /\ cache' \in [Mods -> Items] /\ due' \in [Mods -> [Hosts -> Seq({0, 1})]]
    <2>1. CASE UNCHANGED <<cache, due>>
      BY <1>3, <2>1
    <2>2. CASE RouteIsCalm(m) /\ r = 0 /\ Hold(m, h)
      BY <1>1, <2>2, HoldType DEF RouteIsCalm
    <2>3. CASE /\ cache' = [cache EXCEPT ![m] = Flushed(m)]
               /\ SendResult(m, h, r, Owed(m))
      <3>1. Owed(m) \in [Hosts -> Seq({0, 1})] /\ Flushed(m) \in Items
        BY <1>1, OwedType, FlushedType
      <3>2. due' \in [Mods -> [Hosts -> Seq({0, 1})]]
        BY <1>1, <2>3, <3>1, SendResultType
      <3>3. QED
        BY <1>3, <2>3, <3>1, <3>2
    <2>4. CASE SendResult(m, h, r, due[m]) /\ UNCHANGED cache
      BY <1>1, <1>3, <2>4, SendResultType
    <2>5. QED
      BY <2>1, <2>2, <2>3, <2>4 DEF ApiReportRes
  <1>5. QED
    BY <1>1, <1>2, <1>4 DEF ClientTypeOK

\* Reading one packet.
LEMMA TakeFacts ==
  ASSUME TypeOK, Take
  PROVE  /\ inbox # <<>> /\ inbox' = Tail(inbox) /\ inbox' \in Seq(Packets)
         /\ Head(inbox) \in Packets /\ Head(inbox) = inbox[1]
         /\ DOMAIN inbox = 1..Len(inbox) /\ DOMAIN inbox' = 1..(Len(inbox) - 1)
         /\ Len(inbox) \in Nat \ {0}
         /\ \A i \in 1..(Len(inbox) - 1) : inbox'[i] = inbox[i + 1]
  <1>1. inbox \in Seq(Packets) /\ inbox # <<>> /\ inbox' = Tail(inbox)
    BY DEF TypeOK, Take
  <1>2. QED
    BY <1>1, TailFacts

\* What getRoute4Cache makes of the packet p, the module of its call being m.
RecvCase(m, p) ==
    \/ RouteFor(p, m) /\ Served(m, Updated(cache[m], p))
    \/ ~RouteFor(p, m) /\ call.op = "fetch" /\ Return(Failed)
                       /\ UNCHANGED <<cache, requests, seq>>
    \/ ~RouteFor(p, m) /\ call.op = "refresh" /\ Served(m, cache[m])

LEMMA RecvCases ==
  ASSUME TypeOK, RecvRoute4Cache
  PROVE  /\ call.op \in {"fetch", "refresh"} /\ Take
         /\ UNCHANGED <<language, agentOff, due, reports, faults, agentVars>>
         /\ call.age \in 0..1 /\ call.mod \in Mods
         /\ RecvCase(call.mod, Head(inbox))
  <1>1. /\ call.op \in {"fetch", "refresh"} /\ Take
        /\ UNCHANGED <<language, agentOff, due, reports, faults, agentVars>>
    BY DEF RecvRoute4Cache
  <1>2. call \in Calls
    BY DEF TypeOK
  <1>3. call.age \in 0..1 /\ call.mod \in Mods
    BY <1>1, <1>2, CallFields
  <1>4. PICK m \in Mods : m = call.mod
    BY <1>3
  <1>5. PICK p \in Packets : p = Head(inbox)
    BY <1>1, TakeFacts
  <1>6. cache[m] \in Items
    BY DEF TypeOK, Items
  <1>7. \/ RouteFor(p, m) /\ Serve(m, Updated(cache[m], p))
        \/ ~RouteFor(p, m) /\ call.op = "fetch" /\ Return(Failed)
                           /\ UNCHANGED <<cache, requests, seq>>
        \/ ~RouteFor(p, m) /\ call.op = "refresh" /\ Serve(m, cache[m])
    BY <1>4, <1>5 DEF RecvRoute4Cache
  <1>8. RouteFor(p, m) => Updated(cache[m], p) \in Items
    BY <1>3, <1>6, UpdatedFacts DEF RouteFor
  <1>9. RecvCase(m, p)
    BY <1>6, <1>7, <1>8, ServeFacts DEF RecvCase
  <1>10. QED
    BY <1>1, <1>3, <1>4, <1>5, <1>9

LEMMA RecvRoute4CacheType ==
  ASSUME TInv, RecvRoute4Cache
  PROVE  TInv'
  <1> USE TypeParts, TypePartsNext
  <1>1. TypeOK
    BY DEF TInv
  <1>2. AgentTypeOK'
    BY <1>1, AgentKept, RecvCases
  <1>3. /\ language' \in {"C++", "Python"} /\ agentOff' \in BOOLEAN
        /\ due' \in [Mods -> [Hosts -> Seq({0, 1})]] /\ reports' \in 0..MaxReport
        /\ faults' \in 0..MaxFault
    BY <1>1, RecvCases DEF ClientTypeOK, NetTypeOK
  <1>4. inbox' \in Seq(Packets)
    BY <1>1, RecvCases, TakeFacts
  <1>5. ASSUME NEW m, NEW item, Served(m, item)
        PROVE  ClientTypeOK' /\ NetTypeOK'
    <2>1. requests' \in Seq(Requests)
      BY <1>1, <1>5, AppendRequest DEF Served
    <2>2. QED
      BY <1>3, <1>4, <1>5, <2>1 DEF ClientTypeOK, NetTypeOK, Served
  <1>6. ASSUME Return(Failed), UNCHANGED <<cache, requests, seq>>
        PROVE  ClientTypeOK' /\ NetTypeOK'
    <2>1. Failed \in Hosts \cup Codes
      BY DEF Codes
    <2>2. QED
      BY <1>3, <1>4, <1>6, <2>1, ReturnType DEF ClientTypeOK, NetTypeOK
  <1>7. QED
    BY <1>1, <1>2, <1>5, <1>6, RecvCases DEF RecvCase

LEMMA RecvHostType ==
  ASSUME TInv, RecvHost
  PROVE  TInv'
  <1> USE TypeParts, TypePartsNext
  <1>1. TypeOK /\ AgentTypeOK' /\ Take
    BY AgentKept DEF RecvHost, TInv
  <1>2. inbox' \in Seq(Packets)
    BY <1>1, TakeFacts
  <1>3. PICK p \in Packets : p = Head(inbox)
    BY <1>1, TakeFacts
  <1>4. call' \in Calls /\ ret' \in Hosts \cup Codes
    <2>1. Failed \in Hosts \cup Codes
      BY DEF Codes
    <2>2. Readable(p) => p.answer \in Hosts \cup Codes
      BY PacketFields DEF Readable, Codes
    <2>3. CASE call' = [call EXCEPT !.again = TRUE] /\ UNCHANGED ret
      <3>1. call \in Calls /\ call.op = "host" /\ ret \in Hosts \cup Codes
        BY DEF RecvHost, ClientTypeOK
      <3>2. call \in [op : {"host"}, mod : Mods, seq : 0..(SeqLim - 1), again : BOOLEAN]
        BY <3>1 DEF Calls, Idle, Gone
      <3>3. call' \in Calls
        BY <2>3, <3>2 DEF Calls
      <3>4. QED
        BY <2>3, <3>1, <3>3
    <2>4. CASE Return(Failed)
      BY <2>1, <2>4, ReturnType
    <2>5. CASE Readable(p) /\ Return(p.answer)
      BY <2>2, <2>5, ReturnType
    <2>6. QED
      BY <1>3, <2>3, <2>4, <2>5 DEF RecvHost
  <1>5. QED
    BY <1>1, <1>2, <1>4 DEF RecvHost, ClientTypeOK, NetTypeOK

LEMMA RecvRouteType ==
  ASSUME TInv, RecvRoute
  PROVE  TInv'
  <1> USE TypeParts, TypePartsNext
  <1>1. TypeOK /\ AgentTypeOK' /\ Take
    BY AgentKept DEF RecvRoute, TInv
  <1>2. inbox' \in Seq(Packets)
    BY <1>1, TakeFacts
  <1>3. call' \in Calls /\ ret' \in Hosts \cup Codes
    <2>1. PICK r \in Hosts \cup Codes : Return(r)
      BY DEF RecvRoute, Codes
    <2>2. QED
      BY <2>1, ReturnType
  <1>4. QED
    BY <1>1, <1>2, <1>3 DEF RecvRoute, ClientTypeOK, NetTypeOK

LEMMA TimeoutCases ==
  ASSUME TypeOK, Timeout
  PROVE  /\ call # Idle /\ call # Gone /\ faults' \in 0..MaxFault
         /\ UNCHANGED <<language, agentOff, due, reports, inbox, agentVars>>
         /\ \/ /\ call.op = "refresh" /\ call.mod \in Mods
               /\ Served(call.mod, cache[call.mod])
            \/ Return(Failed) /\ UNCHANGED <<cache, requests, seq>>
  <1>1. /\ call # Idle /\ call # Gone
        /\ UNCHANGED <<language, agentOff, due, reports, inbox, agentVars>>
    BY DEF Timeout, Waiting
  <1>2. faults \in 0..MaxFault /\ call \in Calls /\ MaxFault \in Nat
    BY DEF TypeOK
  <1>3. faults' \in 0..MaxFault
    BY <1>2 DEF Timeout, Fault
  <1>4. ASSUME call.op = "refresh", Serve(call.mod, cache[call.mod])
        PROVE  call.mod \in Mods /\ Served(call.mod, cache[call.mod])
    <2>1. call.mod \in Mods
      BY <1>2, <1>4, CallFields
    <2>2. cache[call.mod] \in Items
      BY <2>1 DEF TypeOK, Items
    <2>3. PICK m \in Mods, item \in Items : m = call.mod /\ item = cache[call.mod]
      BY <2>1, <2>2
    <2>4. Serve(m, item)
      BY <1>4, <2>3
    <2>5. QED
      BY <2>1, <2>3, <2>4, ServeFacts
  <1>5. QED
    BY <1>1, <1>3, <1>4 DEF Timeout

LEMMA TimeoutType ==
  ASSUME TInv, Timeout
  PROVE  TInv'
  <1> USE TypeParts, TypePartsNext
  <1>1. TypeOK
    BY DEF TInv
  <1>2. AgentTypeOK'
    BY <1>1, AgentKept, TimeoutCases
  <1>3. /\ language' \in {"C++", "Python"} /\ agentOff' \in BOOLEAN
        /\ due' \in [Mods -> [Hosts -> Seq({0, 1})]] /\ reports' \in 0..MaxReport
        /\ faults' \in 0..MaxFault /\ inbox' \in Seq(Packets)
    BY <1>1, TimeoutCases DEF ClientTypeOK, NetTypeOK
  <1>4. CASE Served(call.mod, cache[call.mod])
    <2>1. requests' \in Seq(Requests)
      BY <1>1, <1>4, AppendRequest DEF Served
    <2>2. QED
      BY <1>2, <1>3, <1>4, <2>1 DEF ClientTypeOK, NetTypeOK, Served
  <1>5. CASE Return(Failed) /\ UNCHANGED <<cache, requests, seq>>
    <2>1. Failed \in Hosts \cup Codes
      BY DEF Codes
    <2>2. QED
      BY <1>2, <1>3, <1>5, <2>1, ReturnType DEF ClientTypeOK, NetTypeOK
  <1>6. QED
    BY <1>1, <1>4, <1>5, TimeoutCases

LEMMA ExitType ==
  ASSUME TInv, Exit
  PROVE  TInv'
  <1> USE TypeParts, TypePartsNext
  <1>1. AgentTypeOK' /\ NetTypeOK' /\ TypeOK
    BY AgentKept DEF Exit, NetTypeOK, netVars, TInv
  <1>2. cache' \in [Mods -> Items]
    BY <1>1, FlushedType DEF Exit
  <1>3. due' \in [Mods -> [Hosts -> Seq({0, 1})]]
    BY <1>1, OwedType DEF Exit
  <1>4. call' \in Calls
    BY DEF Exit, Calls
  <1>5. QED
    BY <1>1, <1>2, <1>3, <1>4 DEF Exit, ClientTypeOK

\* What the agent answers to a request.
LEMMA CacheAnswerFacts ==
  ASSUME TypeOK, NEW r \in Requests, r.kind = "cache"
  PROVE  /\ r.mod \in Mods /\ CacheAnswer(r) \in Packets
         /\ CacheAnswer(r).kind = "cache" /\ CacheAnswer(r).mod = r.mod
         /\ CacheAnswer(r).hosts \subseteq route[r.mod]
         /\ route[r.mod] = {} => CacheAnswer(r).version = Absent
         /\ route[r.mod] # {} => CacheAnswer(r).version = version[r.mod]
         /\ route[r.mod] # {} /\ CacheAnswer(r).hosts = {} => r.version = version[r.mod]
  <1>1. r.mod \in Mods
    BY DEF Requests
  <1>2. PICK m \in Mods : m = r.mod
    BY <1>1
  <1>3. /\ route[m] \in SUBSET Hosts /\ overload[m] \in BOOLEAN
        /\ version[m] \in 0..MaxChange
    BY DEF TypeOK
  <1>4. CacheAnswer(r) =
          [kind |-> "cache", mod |-> m, overload |-> overload[m],
           version |-> IF route[m] = {} THEN Absent ELSE version[m],
           hosts |-> IF version[m] = r.version THEN {} ELSE route[m]]
    BY <1>2 DEF CacheAnswer
  <1> DEFINE v  == IF route[m] = {} THEN Absent ELSE version[m]
             hs == IF version[m] = r.version THEN {} ELSE route[m]
  <1>5. v \in -1..MaxChange /\ hs \in SUBSET Hosts
    BY <1>3 DEF Absent
  <1>6. CacheAnswer(r) \in Packets
    <2> HIDE DEF v, hs
    <2>1. CacheAnswer(r) = [kind |-> "cache", mod |-> m, overload |-> overload[m],
                            version |-> v, hosts |-> hs]
      BY <1>4 DEF v, hs
    <2>2. QED
      BY <1>3, <1>5, <2>1 DEF Packets
  <1>7. QED
    BY <1>1, <1>2, <1>3, <1>4, <1>6

LEMMA AnswersType ==
  ASSUME TypeOK, NEW r \in Requests, NEW p \in Answers(r)
  PROVE  /\ p \in Packets
         /\ \/ r.kind = "cache" /\ p = CacheAnswer(r)
            \/ r.kind # "cache" /\ p.kind # "cache"
  <1>1. CASE r.kind = "cache"
    <2>1. p = CacheAnswer(r)
      <3>1. Answers(r) = {CacheAnswer(r)}
        BY <1>1 DEF Answers
      <3>2. QED
        BY <3>1
    <2>2. CacheAnswer(r) \in Packets
      BY <1>1, CacheAnswerFacts
    <2>3. QED
      BY <1>1, <2>1, <2>2
  <1>2. CASE r.kind = "host"
    <2>1. r.mod \in Mods /\ r.seq \in 0..(SeqLim - 1)
      BY <1>2 DEF Requests
    <2>2. route[r.mod] \in SUBSET Hosts
      BY <2>1 DEF TypeOK
    <2>3. p \in HostAnswers(r)
      BY <1>2 DEF Answers
    <2>4. QED
      BY <1>2, <2>1, <2>2, <2>3 DEF HostAnswers, Packets
  <1>3. CASE r.kind = "route"
    BY <1>3 DEF Answers, Requests, Packets
  <1>4. QED
    BY <1>1, <1>2, <1>3 DEF Requests

\* The agent takes the first request r and its answer p joins the inbox.
LEMMA AgentServeCases ==
  ASSUME TypeOK, AgentServe
  PROVE  \E r \in Requests, p \in Packets :
            /\ requests # <<>> /\ r = Head(requests) /\ requests' = Tail(requests)
            /\ inbox' = Append(inbox, p)
            /\ \/ r.kind = "cache" /\ p = CacheAnswer(r)
               \/ p.kind # "cache"
  <1>1. requests \in Seq(Requests) /\ requests # <<>>
    BY DEF TypeOK, AgentServe
  <1>2. PICK r \in Requests : r = Head(requests)
    BY <1>1, TailFacts
  <1>3. PICK p \in Answers(r) : inbox' = Append(inbox, p)
    BY <1>2 DEF AgentServe
  <1>4. QED
    BY <1>1, <1>2, <1>3, AnswersType DEF AgentServe

LEMMA AgentServeType ==
  ASSUME TInv, AgentServe
  PROVE  TInv'
  <1> USE TypeParts, TypePartsNext
  <1>1. AgentTypeOK' /\ ClientTypeOK' /\ TypeOK
    BY AgentKept DEF AgentServe, ClientTypeOK, clientVars, TInv
  <1>2. requests' \in Seq(Requests) /\ inbox' \in Seq(Packets)
    <2>1. PICK r \in Requests, p \in Packets :
            /\ requests # <<>> /\ requests' = Tail(requests)
            /\ inbox' = Append(inbox, p)
      BY <1>1, AgentServeCases
    <2>2. requests \in Seq(Requests) /\ inbox \in Seq(Packets)
      BY DEF NetTypeOK
    <2>3. requests' \in Seq(Requests)
      BY <2>1, <2>2, TailFacts
    <2>4. inbox' \in Seq(Packets)
      BY <2>1, <2>2, AppendFacts
    <2>5. QED
      BY <2>3, <2>4
  <1>3. QED
    BY <1>1, <1>2 DEF AgentServe, NetTypeOK

LEMMA LoseType ==
  ASSUME TInv, Lose
  PROVE  TInv'
  <1> USE TypeParts, TypePartsNext
  <1>1. AgentTypeOK' /\ ClientTypeOK'
    BY AgentKept DEF Lose, ClientTypeOK, clientVars
  <1>2. requests' \in Seq(Requests) /\ inbox' \in Seq(Packets)
    <2>1. requests \in Seq(Requests) /\ inbox \in Seq(Packets)
      BY DEF NetTypeOK
    <2>2. /\ requests # <<>> => Tail(requests) \in Seq(Requests)
          /\ inbox # <<>> => Tail(inbox) \in Seq(Packets)
      BY <2>1, TailFacts
    <2>3. QED
      BY <2>1, <2>2 DEF Lose
  <1>3. faults' \in 0..MaxFault
    <2>1. MaxFault \in Nat /\ faults \in 0..MaxFault
      BY DEF NetTypeOK
    <2>2. QED
      BY <2>1 DEF Lose, Fault
  <1>4. QED
    BY <1>1, <1>2, <1>3 DEF NetTypeOK

LEMMA AgentChangeType ==
  ASSUME TInv, NEW m \in Mods, NEW S \in SUBSET HostsOf(m), NEW ov \in BOOLEAN,
         AgentChange(m, S, ov)
  PROVE  TInv'
  <1> USE TypeParts, TypePartsNext
  <1>1. ClientTypeOK' /\ NetTypeOK'
    BY DEF AgentChange, ClientTypeOK, clientVars, NetTypeOK, netVars
  <1>2. /\ MaxChange \in Nat /\ changes \in 0..MaxChange /\ changes' = changes + 1
        /\ changes < MaxChange /\ S \in SUBSET Hosts
    BY DEF AgentChange, AgentTypeOK
  <1>3. route' \in [Mods -> SUBSET Hosts] /\ overload' \in [Mods -> BOOLEAN]
    BY <1>2 DEF AgentChange, AgentTypeOK
  <1>4. CASE UNCHANGED <<version, changed, hasty>>
    BY <1>1, <1>2, <1>3, <1>4 DEF AgentTypeOK, Bounded
  <1>5. CASE /\ version' = [version EXCEPT ![m] = IF changed[m] = 0 THEN @ + 1 ELSE @]
             /\ changed' = [changed EXCEPT ![m] = @ + 1]
             /\ hasty' = (hasty \/ changed[m] >= 2)
    <2>1. \A n \in Mods : /\ version[n] \in Nat /\ version[n] <= changes
                          /\ changed[n] \in Nat /\ changed[n] <= changes
      BY DEF AgentTypeOK, Bounded
    <2>2. version' \in [Mods -> 0..MaxChange] /\ changed' \in [Mods -> 0..MaxChange]
      BY <1>2, <1>5, <2>1 DEF AgentTypeOK
    <2>3. \A n \in Mods : version'[n] <= changes' /\ changed'[n] <= changes'
      BY <1>2, <1>5, <2>1 DEF AgentTypeOK
    <2>4. hasty' \in BOOLEAN
      BY <1>5
    <2>5. QED
      BY <1>1, <1>2, <1>3, <2>2, <2>3, <2>4 DEF AgentTypeOK, Bounded
  <1>6. QED
    BY <1>4, <1>5 DEF AgentChange

LEMMA TickType ==
  ASSUME TInv, Tick
  PROVE  TInv'
  <1> USE TypeParts, TypePartsNext
  <1>1. NetTypeOK'
    BY DEF Tick, NetTypeOK, netVars
  <1>2. AgentTypeOK'
    <2>1. changed' \in [Mods -> 0..MaxChange] /\ \A m \in Mods : changed'[m] <= changes
      BY DEF Tick, AgentTypeOK
    <2>2. QED
      BY <2>1 DEF Tick, AgentTypeOK, Bounded
  <1>3. cache' \in [Mods -> Items]
    <2>1. ASSUME NEW m \in Mods PROVE Aged(cache[m]) \in Items
      <3>1. cache[m] \in Item \/ cache[m] = NoItem
        BY DEF ClientTypeOK, Items
      <3>2. QED
        BY <3>1, AgedFacts DEF Items, Aged
    <2>2. QED
      BY <2>1 DEF Tick
  <1>4. call' \in Calls
    <2>1. CASE call' = call
      BY <2>1 DEF ClientTypeOK
    <2>2. CASE call.op \in {"fetch", "refresh"} /\ call' = [call EXCEPT !.age = 1]
      <3>1. call \in [op : {"fetch", "refresh"}, mod : Mods, age : 0..1]
        BY <2>2 DEF ClientTypeOK, Calls, Idle, Gone
      <3>2. QED
        BY <2>2, <3>1 DEF Calls
    <2>3. QED
      BY <2>1, <2>2 DEF Tick
  <1>5. QED
    BY <1>1, <1>2, <1>3, <1>4 DEF Tick, ClientTypeOK

LEMMA TypeNext == TInv /\ [Next]_vars => TInv'
  <1>1. ASSUME TInv, Next PROVE TInv'
    BY <1>1, GetHostType, GetHostStaticType, GetRouteType, ReportResType,
       AgentChangeType, RecvRoute4CacheType, RecvHostType, RecvRouteType, TimeoutType,
       ExitType, AgentServeType, LoseType, TickType DEF Next
  <1>2. ASSUME TInv, UNCHANGED vars PROVE TInv'
    BY <1>2 DEF TInv, TypeOK, Bounded, vars, clientVars, netVars, agentVars
  <1>3. QED
    BY <1>1, <1>2

LEMMA TypeInit == Init => TInv
  <1> SUFFICES ASSUME Init PROVE TInv
    OBVIOUS
  <1>1. AgentTypeOK
    <2>1. route \in [Mods -> SUBSET Hosts] /\ overload \in [Mods -> BOOLEAN]
      BY DEF Init
    <2>2. /\ version \in [Mods -> 0..MaxChange] /\ changed \in [Mods -> 0..MaxChange]
          /\ changes \in 0..MaxChange /\ hasty \in BOOLEAN
      <3>1. 0 \in 0..MaxChange
        OBVIOUS
      <3>2. /\ version = [m \in Mods |-> 0] /\ changed = [m \in Mods |-> 0]
            /\ changes = 0 /\ hasty = FALSE
        BY DEF Init
      <3>3. version \in [Mods -> 0..MaxChange] /\ changed \in [Mods -> 0..MaxChange]
        BY <3>1, <3>2
      <3>4. QED
        BY <3>1, <3>2, <3>3
    <2>3. Bounded
      BY DEF Init, Bounded
    <2>4. QED
      BY <2>1, <2>2, <2>3 DEF AgentTypeOK
  <1>2. ClientTypeOK
    <2>1. cache \in [Mods -> Items] /\ call \in Calls /\ ret \in Hosts \cup Codes
      BY DEF Init, Items, Calls, Codes
    <2>2. seq \in 0..(SeqLim - 1) /\ reports \in 0..MaxReport
      BY DEF Init
    <2>3. due \in [Mods -> [Hosts -> Seq({0, 1})]]
      BY EmptySeq DEF Init
    <2>4. language \in {"C++", "Python"} /\ agentOff \in BOOLEAN
      BY DEF Init
    <2>5. QED
      BY <2>1, <2>2, <2>3, <2>4 DEF ClientTypeOK
  <1>3. NetTypeOK
    BY EmptySeq DEF Init, NetTypeOK
  <1>4. QED
    BY <1>1, <1>2, <1>3, TypeParts

-----------------------------------------------------------------------------
(* Results are sent in order.                                               *)

RInv == Results /\ OrderKept

Zeros(n) == [i \in 1..n |-> 0]

LEMMA ZerosFacts ==
  ASSUME NEW n \in Nat
  PROVE  /\ Zeros(n) \in Seq({0, 1}) /\ Len(Zeros(n)) = n
         /\ Append(Zeros(n), 0) = Zeros(n + 1)
         /\ SubSeq(Zeros(n), n + 1, Len(Zeros(n))) = <<>>
  <1>1. Zeros(n) \in Seq({0, 1}) /\ Len(Zeros(n)) = n
    <2>1. Zeros(n) \in [1..n -> {0, 1}]
      BY DEF Zeros
    <2>2. QED
      BY <2>1
  <1>2. Zeros(n + 1) \in Seq({0, 1}) /\ Len(Zeros(n + 1)) = n + 1
    <2>1. Zeros(n + 1) \in [1..(n + 1) -> {0, 1}] /\ n + 1 \in Nat
      BY DEF Zeros
    <2>2. QED
      BY <2>1
  <1>3. /\ Append(Zeros(n), 0) \in Seq({0, 1}) /\ Len(Append(Zeros(n), 0)) = n + 1
        /\ \A i \in 1..n : Append(Zeros(n), 0)[i] = Zeros(n)[i]
        /\ Append(Zeros(n), 0)[n + 1] = 0
    BY <1>1, AppendProperties
  <1>4. \A i \in 1..(n + 1) : Append(Zeros(n), 0)[i] = Zeros(n + 1)[i]
    BY <1>3 DEF Zeros
  <1>5. Append(Zeros(n), 0) = Zeros(n + 1)
    BY <1>2, <1>3, <1>4, SeqEqual
  <1>6. SubSeq(Zeros(n), n + 1, n) = <<>>
    BY SubSeqEmpty
  <1>7. QED
    BY <1>1, <1>5, <1>6

LEMMA NoZeros == Zeros(0) = <<>>
  <1>1. Zeros(0) \in [1..0 -> {0, 1}]
    BY DEF Zeros
  <1>2. Zeros(0) \in Seq({0, 1}) /\ Len(Zeros(0)) = 0
    BY <1>1
  <1>3. QED
    BY <1>2, EmptySeq

LEMMA OrderIs ==
  OrderKept <=> \A m \in Mods, h \in Hosts : due[m][h] = Zeros(HeldFor(m, h))
  BY DEF OrderKept, Zeros

LEMMA OrderIsNext ==
  OrderKept' <=> \A m \in Mods, h \in Hosts : due'[m][h] = Zeros(HeldFor(m, h)')
  BY DEF OrderKept, Zeros

\* What is held for a host is a number of successes.
LEMMA HeldForType ==
  ASSUME TypeOK, NEW m \in Mods, NEW h \in Hosts
  PROVE  HeldFor(m, h) \in Nat
  <1>1. cache[m] \in Item \/ cache[m] = NoItem
    BY DEF TypeOK
  <1>2. QED
    BY <1>1, ItemFields DEF HeldFor

\* Once the successes held back are sent, nothing is due.
LEMMA NothingOwed ==
  ASSUME TypeOK, RInv, call # Gone, NEW m \in Mods
  PROVE  /\ \A h \in Hosts : Owed(m)[h] = <<>>
         /\ cache[m] # NoItem => Flushed(m).held = Zero
  <1>1. cache[m] \in Item \/ cache[m] = NoItem
    BY DEF TypeOK
  <1>2. CASE cache[m] = NoItem
    <2>1. \A h \in Hosts : due[m][h] = <<>>
      BY <1>2, OrderIs, NoZeros DEF RInv, HeldFor
    <2>2. QED
      BY <1>2, <2>1, NoItemFlushed
  <1>3. CASE cache[m] \in Item
    <2>1. cache[m] # NoItem
      BY <1>3, ValuesDistinct
    <2>2. ASSUME NEW h \in Hosts PROVE Owed(m)[h] = <<>>
      <3>1. cache[m].held[h] \in Nat /\ due[m][h] = Zeros(cache[m].held[h])
        BY <1>3, <2>1, ItemFields, OrderIs DEF RInv, HeldFor
      <3>2. CASE Holds(m)
        <4>1. Owed(m)[h] = SubSeq(due[m][h], cache[m].held[h] + 1, Len(due[m][h]))
          BY <3>2 DEF Owed, Sent
        <4>2. QED
          BY <3>1, <4>1, ZerosFacts
      <3>3. CASE ~Holds(m)
        <4>1. cache[m].held = Zero
          BY <2>1, <3>3 DEF RInv, Results, Holds, NothingHeld
        <4>2. cache[m].held[h] = 0
          BY <4>1 DEF Zero
        <4>3. QED
          BY <3>1, <3>3, <4>2, NoZeros DEF Owed
      <3>4. QED
        BY <3>2, <3>3
    <2>3. Flushed(m).held = Zero
      BY <1>3, <2>1, FlushedFacts DEF RInv, Results, Holds, NothingHeld
    <2>4. QED
      BY <2>2, <2>3
  <1>4. QED
    BY <1>1, <1>2, <1>3

\* A step that leaves what is held, and what is due, as it is.
SameHolding(m) ==
    /\ cache'[m] = NoItem <=> cache[m] = NoItem
    /\ cache[m] # NoItem => /\ cache'[m].held = cache[m].held
                            /\ cache'[m].overload = cache[m].overload
                            /\ cache'[m].succCnt = cache[m].succCnt

\* No call of getRoute4Cache begins, and the client does not go.
CallEnds ==
    /\ call'.op \in {"fetch", "refresh"} => call'.op = call.op /\ call'.mod = call.mod
    /\ call' = Gone <=> call = Gone

LEMMA SameHoldingKeeps ==
  ASSUME TypeOK, TypeOK', RInv, due' = due, \A m \in Mods : SameHolding(m), CallEnds
  PROVE  RInv'
  <1>1. ASSUME NEW m \in Mods, NEW h \in Hosts PROVE HeldFor(m, h)' = HeldFor(m, h)
    BY DEF HeldFor, SameHolding, CallEnds
  <1>2. OrderKept'
    BY <1>1, OrderIs, OrderIsNext DEF RInv
  <1>3. \A m \in Mods :
          cache'[m] # NoItem /\ (cache'[m].succCnt = 0 \/ cache'[m].overload)
             => NothingHeld(cache'[m])
    BY DEF RInv, Results, SameHolding, NothingHeld
  <1>4. call'.op \in {"fetch", "refresh"} => call.mod \in Mods
    <2>1. call \in Calls
      BY DEF TypeOK
    <2>2. QED
      BY <2>1, CallFields DEF CallEnds
  <1>5. /\ call'.op = "refresh" => cache'[call'.mod] # NoItem
                                   /\ NothingHeld(cache'[call'.mod])
        /\ call'.op = "fetch" => cache'[call'.mod] = NoItem
    BY <1>4 DEF RInv, Results, SameHolding, NothingHeld, CallEnds
  <1>6. Results'
    BY <1>3, <1>5 DEF Results, NothingHeld
  <1>7. QED
    BY <1>2, <1>6 DEF RInv

LEMMA CallEndsIf ==
  ASSUME call # Gone, call'.op \in {"idle", "host", "route"}
  PROVE  CallEnds
  BY DEF CallEnds, Gone

LEMMA ServedHolding ==
  ASSUME NEW m \in Mods, Served(m, cache[m])
  PROVE  \A n \in Mods : SameHolding(n)
  <1>1. ASSUME NEW n \in Mods, n # m PROVE SameHolding(n)
    BY <1>1 DEF Served, SameHolding
  <1>2. SameHolding(m)
    BY DEF Served, SameHolding
  <1>3. QED
    BY <1>1, <1>2

LEMMA ReturnEnds ==
  ASSUME NEW r, Return(r)
  PROVE  call'.op = "idle"
  BY DEF Return, Idle

LEMMA GetHostOrder ==
  ASSUME TypeOK, TypeOK', RInv, NEW m \in Mods, ApiGetHost(m)
  PROVE  RInv'
  <1>1. call # Gone
    <2>1. call = Idle /\ Idle.op # Gone.op
      BY GetHostCases DEF Ready, Idle, Gone
    <2>2. QED
      BY <2>1
  <1>2. CASE /\ cache[m] = NoItem /\ Query(m, "fetch", Absent) /\ UNCHANGED <<cache, due>>
    <2>1. call' = [op |-> "fetch", mod |-> m, age |-> 0]
      BY <1>2 DEF Query
    <2>2. call' # Gone
      BY <2>1 DEF Gone
    <2>3. \A n \in Mods, h \in Hosts : HeldFor(n, h)' = HeldFor(n, h)
      BY <1>1, <1>2, <2>2 DEF HeldFor
    <2>4. OrderKept'
      BY <1>2, <2>3, OrderIs, OrderIsNext DEF RInv
    <2>5. Results'
      BY <1>2, <2>1 DEF RInv, Results, NothingHeld
    <2>6. QED
      BY <2>4, <2>5 DEF RInv
  <1>3. CASE /\ cache[m] \in Item /\ BatchReportRes(m)
             /\ Query(m, "refresh", cache[m].version)
    <2>1. call' = [op |-> "refresh", mod |-> m, age |-> 0]
      BY <1>3 DEF Query
    <2>2. call' # Gone /\ cache[m] # NoItem
      BY <1>3, <2>1, ValuesDistinct DEF Gone
    <2>3. /\ cache'[m] = Flushed(m) /\ due'[m] = Owed(m)
          /\ \A n \in Mods : n # m => cache'[n] = cache[n] /\ due'[n] = due[n]
      BY <1>3 DEF BatchReportRes, TypeOK
    <2>4. /\ cache'[m] # NoItem /\ cache'[m].held = Zero
          /\ \A h \in Hosts : due'[m][h] = <<>>
      BY <1>1, <1>3, <2>2, <2>3, NothingOwed, FlushedFacts, ValuesDistinct
    <2>5. ASSUME NEW n \in Mods, NEW h \in Hosts PROVE due'[n][h] = Zeros(HeldFor(n, h)')
      <3>1. CASE n = m
        <4>1. HeldFor(n, h)' = 0
          BY <2>2, <2>4, <3>1 DEF HeldFor, Zero
        <4>2. QED
          BY <2>4, <3>1, <4>1, NoZeros
      <3>2. CASE n # m
        <4>1. HeldFor(n, h)' = HeldFor(n, h)
          BY <1>1, <2>2, <2>3, <3>2 DEF HeldFor
        <4>2. QED
          BY <2>3, <3>2, <4>1, OrderIs DEF RInv
      <3>3. QED
        BY <3>1, <3>2
    <2>6. OrderKept'
      BY <2>5, OrderIsNext
    <2>7. Results'
      <3>1. ASSUME NEW n \in Mods, cache'[n] # NoItem,
                   cache'[n].succCnt = 0 \/ cache'[n].overload
            PROVE  NothingHeld(cache'[n])
        BY <2>3, <2>4, <3>1 DEF RInv, Results, NothingHeld
      <3>2. cache'[call'.mod] # NoItem /\ NothingHeld(cache'[call'.mod])
        BY <2>1, <2>4 DEF NothingHeld
      <3>3. QED
        BY <2>1, <3>1, <3>2 DEF Results, NothingHeld
    <2>8. QED
      BY <2>6, <2>7 DEF RInv
  <1>4. CASE Served(m, cache[m]) /\ UNCHANGED due
    <2>1. CallEnds
      BY <1>1, <1>4, CallEndsIf DEF Served
    <2>2. QED
      BY <1>4, <2>1, ServedHolding, SameHoldingKeeps
  <1>5. QED
    BY <1>2, <1>3, <1>4, GetHostCases

LEMMA ReportResOrder ==
  ASSUME TypeOK, TypeOK', RInv, NEW m \in Mods, NEW h \in HostsOf(m), NEW r \in {0, 1},
         ApiReportRes(m, h, r)
  PROVE  RInv'
  <1>1. h \in Hosts /\ call' = call /\ call # Gone /\ call.op = "idle"
    BY DEF ApiReportRes, Ready, Idle, Gone
  <1>2. CASE UNCHANGED <<cache, due>>
    <2>1. \A n \in Mods : SameHolding(n)
      BY <1>2 DEF SameHolding
    <2>2. QED
      BY <1>1, <1>2, <2>1, SameHoldingKeeps DEF CallEnds
  <1>3. CASE RouteIsCalm(m) /\ r = 0 /\ Hold(m, h) /\ h \in ToSet(cache[m].hosts)
    <2>1. cache[m] \in Item /\ cache[m] # NoItem /\ ~cache[m].overload
      BY <1>3 DEF RouteIsCalm, TypeOK
    <2>2. /\ Holding(cache[m], h) \in Item
          /\ ~Holding(cache[m], h).overload /\ Holding(cache[m], h).succCnt # 0
          /\ Holding(cache[m], h).held = [cache[m].held EXCEPT ![h] = cache[m].held[h] + 1]
      BY <1>1, <2>1, HoldingFacts, ItemFields
    <2>3. /\ cache' = [cache EXCEPT ![m] = Holding(cache[m], h)]
          /\ due' = [due EXCEPT ![m][h] = Append(due[m][h], 0)]
      BY <1>3 DEF Hold
    <2>4. cache \in [Mods -> Items] /\ due \in [Mods -> [Hosts -> Seq({0, 1})]]
      BY DEF TypeOK, Items
    <2>5. /\ cache'[m] = Holding(cache[m], h) /\ cache'[m] # NoItem
          /\ \A n \in Mods : n # m => cache'[n] = cache[n]
      BY <2>2, <2>3, <2>4, ValuesDistinct
    <2>6. /\ due'[m][h] = Append(due[m][h], 0)
          /\ \A n \in Mods, k \in Hosts : n # m \/ k # h => due'[n][k] = due[n][k]
      BY <1>1, <2>3, <2>4
    <2>7. cache[m].held \in [Hosts -> Nat]
      BY <2>1, ItemFields
    <2>8. ASSUME NEW n \in Mods, NEW k \in Hosts PROVE due'[n][k] = Zeros(HeldFor(n, k)')
      <3>1. CASE n = m /\ k = h
        <4>1. HeldFor(m, h) = cache[m].held[h] /\ HeldFor(m, h)' = cache[m].held[h] + 1
          BY <1>1, <2>1, <2>2, <2>5, <2>7 DEF HeldFor
        <4>2. due'[m][h] = Append(Zeros(cache[m].held[h]), 0)
          BY <1>1, <2>6, <4>1, OrderIs DEF RInv
        <4>3. QED
          BY <1>1, <2>7, <3>1, <4>1, <4>2, ZerosFacts
      <3>2. CASE n # m \/ k # h
        <4>1. HeldFor(n, k)' = HeldFor(n, k)
          BY <1>1, <2>1, <2>2, <2>5, <2>7, <3>2 DEF HeldFor
        <4>2. QED
          BY <2>6, <3>2, <4>1, OrderIs DEF RInv
      <3>3. QED
        BY <3>1, <3>2
    <2>9. OrderKept'
      BY <2>8, OrderIsNext
    <2>10. Results'
      <3>1. ASSUME NEW n \in Mods, cache'[n] # NoItem,
                   cache'[n].succCnt = 0 \/ cache'[n].overload
            PROVE  NothingHeld(cache'[n])
        BY <2>2, <2>5, <3>1 DEF RInv, Results, NothingHeld
      <3>2. QED
        BY <1>1, <3>1 DEF Results, NothingHeld
    <2>11. QED
      BY <2>9, <2>10 DEF RInv
  <1>4. CASE /\ RouteIsCalm(m) /\ cache' = [cache EXCEPT ![m] = Flushed(m)]
             /\ SendResult(m, h, r, Owed(m))
    <2>1. cache[m] \in Item /\ cache[m] # NoItem
      BY <1>4 DEF RouteIsCalm, TypeOK
    <2>2. /\ \A k \in Hosts : Owed(m)[k] = <<>>
          /\ Flushed(m).held = Zero /\ Flushed(m) \in Item
          /\ Owed(m) \in [Hosts -> Seq({0, 1})]
      BY <1>1, <2>1, NothingOwed, FlushedFacts, OwedType
    <2>3. /\ cache'[m] = Flushed(m) /\ cache'[m] # NoItem /\ cache'[m].held = Zero
          /\ \A n \in Mods : n # m => cache'[n] = cache[n]
      BY <1>4, <2>2, ValuesDistinct DEF TypeOK
    <2>4. Tail(Append(<<>>, r)) = <<>>
      <3>1. <<>> \in Seq({0, 1})
        BY EmptySeq
      <3>2. QED
        BY <3>1, HeadTailAppend
    <2>5. /\ \A k \in Hosts : due'[m][k] = <<>>
          /\ \A n \in Mods : n # m => due'[n] = due[n]
      <3>1. PICK S \in [Hosts -> Seq({0, 1})] : S = Owed(m)
        BY <2>2
      <3>2. /\ due' \in [Mods -> [Hosts -> Seq({0, 1})]]
            /\ \A n \in Mods : n # m => due'[n] = due[n]
            /\ \A k \in Hosts : k # h => due'[m][k] = S[k]
            /\ due'[m][h] = Tail(Append(S[h], r))
        <4>1. SendResult(m, h, r, S)
          BY <1>4, <3>1
        <4>2. QED
          BY <1>1, <4>1, SendResultType
      <3>3. S[h] = <<>>
        BY <1>1, <2>2, <3>1
      <3>4. due'[m][h] = <<>>
        BY <2>4, <3>2, <3>3
      <3>5. QED
        BY <2>2, <3>1, <3>2, <3>4
    <2>6. ASSUME NEW n \in Mods, NEW k \in Hosts PROVE due'[n][k] = Zeros(HeldFor(n, k)')
      <3>1. CASE n = m
        <4>1. HeldFor(n, k)' = 0
          BY <2>3, <3>1, <1>1 DEF HeldFor, Zero
        <4>2. QED
          BY <2>5, <3>1, <4>1, NoZeros
      <3>2. CASE n # m
        <4>1. HeldFor(n, k)' = HeldFor(n, k)
          BY <1>1, <2>3, <3>2 DEF HeldFor
        <4>2. QED
          BY <2>5, <3>2, <4>1, OrderIs DEF RInv
      <3>3. QED
        BY <3>1, <3>2
    <2>7. OrderKept'
      BY <2>6, OrderIsNext
    <2>8. Results'
      <3>1. ASSUME NEW n \in Mods, cache'[n] # NoItem,
                   cache'[n].succCnt = 0 \/ cache'[n].overload
            PROVE  NothingHeld(cache'[n])
        BY <2>3, <3>1 DEF RInv, Results, NothingHeld
      <3>2. QED
        BY <1>1, <3>1 DEF Results, NothingHeld
    <2>9. QED
      BY <2>7, <2>8 DEF RInv
  <1>5. CASE ~RouteIsCalm(m) /\ SendResult(m, h, r, due[m]) /\ UNCHANGED cache
    <2>1. cache[m] = NoItem \/ cache[m].overload
      BY <1>5 DEF RouteIsCalm
    <2>2. due \in [Mods -> [Hosts -> Seq({0, 1})]]
      BY DEF TypeOK
    <2>3. HeldFor(m, h) = 0
      BY <1>1, <2>1 DEF HeldFor, RInv, Results, NothingHeld, Zero
    <2>4. due[m][h] = <<>>
      BY <1>1, <2>3, NoZeros, OrderIs DEF RInv
    <2>5. Tail(Append(<<>>, r)) = <<>>
      <3>1. <<>> \in Seq({0, 1})
        BY EmptySeq
      <3>2. QED
        BY <3>1, HeadTailAppend
    <2>6. due[m] \in [Hosts -> Seq({0, 1})]
      BY <2>2
    <2>7. /\ due' \in [Mods -> [Hosts -> Seq({0, 1})]]
          /\ \A n \in Mods, k \in Hosts : due'[n][k] = due[n][k]
      <3>1. PICK S \in [Hosts -> Seq({0, 1})] : S = due[m]
        BY <2>6
      <3>2. /\ due' \in [Mods -> [Hosts -> Seq({0, 1})]]
            /\ \A n \in Mods : n # m => due'[n] = due[n]
            /\ \A k \in Hosts : k # h => due'[m][k] = S[k]
            /\ due'[m][h] = Tail(Append(S[h], r))
        BY <1>1, <1>5, <3>1, SendResultType
      <3>3. S[h] = <<>>
        BY <2>4, <3>1
      <3>4. due'[m][h] = due[m][h]
        BY <2>4, <2>5, <3>2, <3>3
      <3>5. QED
        BY <3>1, <3>2, <3>4
    <2>8. \A n \in Mods, k \in Hosts : HeldFor(n, k)' = HeldFor(n, k)
      BY <1>1, <1>5 DEF HeldFor
    <2>9. OrderKept'
      BY <2>7, <2>8, OrderIs, OrderIsNext DEF RInv
    <2>10. Results'
      BY <1>1, <1>5 DEF RInv, Results, NothingHeld
    <2>11. QED
      BY <2>9, <2>10 DEF RInv
  <1>6. QED
    BY <1>2, <1>3, <1>4, <1>5 DEF ApiReportRes, Hold

LEMMA ReadyStays == Ready => call # Gone
  <1>1. Idle.op # Gone.op
    BY DEF Idle, Gone
  <1>2. QED
    BY <1>1 DEF Ready

LEMMA KeptOrder ==
  ASSUME TypeOK, TypeOK', RInv, UNCHANGED <<cache, due>>, CallEnds
  PROVE  RInv'
  BY SameHoldingKeeps DEF SameHolding

LEMMA GetHostStaticOrder ==
  ASSUME TypeOK, TypeOK', RInv, NEW m \in Mods, ApiGetHostStatic(m)
  PROVE  RInv'
  <1>1. call'.op = "idle" /\ UNCHANGED <<cache, due>> /\ call # Gone
    BY ReturnEnds, ReadyStays DEF ApiGetHostStatic
  <1>2. QED
    BY <1>1, CallEndsIf, KeptOrder

LEMMA GetRouteOrder ==
  ASSUME TypeOK, TypeOK', RInv, NEW m \in Mods, ApiGetRoute(m)
  PROVE  RInv'
  <1>1. call'.op = "route" /\ UNCHANGED <<cache, due>> /\ call # Gone
    BY ReadyStays DEF ApiGetRoute
  <1>2. QED
    BY <1>1, CallEndsIf, KeptOrder

\* Nothing is held of a route that is being fetched or refreshed.
LEMMA NothingHeldInCall ==
  ASSUME TypeOK, RInv, call.op \in {"fetch", "refresh"}, NEW h \in Hosts
  PROVE  /\ call.mod \in Mods /\ HeldFor(call.mod, h) = 0 /\ call # Gone
         /\ cache[call.mod] # NoItem => NothingHeld(cache[call.mod])
  <1>1. call.mod \in Mods /\ call # Gone
    BY CallFields DEF TypeOK, Gone
  <1>2. QED
    BY <1>1 DEF RInv, Results, NothingHeld, HeldFor, Zero

LEMMA RecvRoute4CacheOrder ==
  ASSUME TypeOK, TypeOK', RInv, RecvRoute4Cache
  PROVE  RInv'
  <1>1. /\ call.op \in {"fetch", "refresh"} /\ due' = due /\ Take
        /\ call.age \in 0..1 /\ call.mod \in Mods
        /\ RecvCase(call.mod, Head(inbox))
    BY RecvCases
  <1>2. PICK m \in Mods, p \in Packets : m = call.mod /\ p = Head(inbox)
    BY <1>1, TakeFacts
  <1>3. RecvCase(m, p)
    BY <1>1, <1>2
  <1>4. /\ \A h \in Hosts : HeldFor(m, h) = 0
        /\ call # Gone /\ cache[m] # NoItem => cache[m].held = Zero
    BY <1>1, <1>2, NothingHeldInCall, CallFields DEF NothingHeld, RInv, Results
  <1>5. call # Gone
    BY <1>1 DEF Gone
  <1>6. CASE RouteFor(p, m) /\ Served(m, Updated(cache[m], p))
    <2>1. cache[m] \in Items
      BY DEF TypeOK, Items
    <2>2. PICK item \in Items : item = Updated(cache[m], p)
      BY <1>1, <1>6, <2>1, UpdatedFacts DEF RouteFor
    <2>3. item # NoItem => item.held = Zero
      BY <1>1, <1>4, <1>5, <1>6, <2>1, <2>2, UpdatedFacts DEF RouteFor
    <2>4. Served(m, item)
      BY <1>6, <2>2
    <2>5. /\ cache'[m] # NoItem => cache'[m].held = Zero
          /\ \A n \in Mods : n # m => cache'[n] = cache[n]
          /\ call'.op \in {"idle", "host"}
      BY <2>3, <2>4 DEF Served
    <2>6. call' # Gone
      BY <2>5 DEF Gone
    <2>7. ASSUME NEW n \in Mods, NEW h \in Hosts PROVE HeldFor(n, h)' = HeldFor(n, h)
      <3>1. CASE n = m
        BY <1>4, <2>5, <3>1 DEF HeldFor, Zero
      <3>2. CASE n # m
        BY <1>5, <2>5, <2>6, <3>2 DEF HeldFor
      <3>3. QED
        BY <3>1, <3>2
    <2>8. OrderKept'
      BY <1>1, <2>7, OrderIs, OrderIsNext DEF RInv
    <2>9. Results'
      <3>1. ASSUME NEW n \in Mods, cache'[n] # NoItem,
                   cache'[n].succCnt = 0 \/ cache'[n].overload
            PROVE  NothingHeld(cache'[n])
        BY <2>5, <3>1 DEF RInv, Results, NothingHeld
      <3>2. QED
        BY <2>5, <3>1 DEF Results, NothingHeld
    <2>10. QED
      BY <2>8, <2>9 DEF RInv
  <1>7. CASE Return(Failed) /\ UNCHANGED <<cache, requests, seq>>
    <2>1. CallEnds
      BY <1>5, <1>7, ReturnEnds, CallEndsIf
    <2>2. QED
      BY <1>1, <1>7, <2>1, KeptOrder
  <1>8. CASE Served(m, cache[m])
    <2>1. CallEnds
      BY <1>5, <1>8, CallEndsIf DEF Served
    <2>2. QED
      BY <1>1, <1>8, <2>1, ServedHolding, SameHoldingKeeps
  <1>9. QED
    BY <1>3, <1>6, <1>7, <1>8 DEF RecvCase

LEMMA RecvHostOrder ==
  ASSUME TypeOK, TypeOK', RInv, RecvHost
  PROVE  RInv'
  <1>1. call.op = "host" /\ call # Gone /\ UNCHANGED <<cache, due>>
    BY DEF RecvHost, Waiting
  <1>2. call'.op \in {"idle", "host"}
    <2>1. CASE call' = [call EXCEPT !.again = TRUE]
      <3>1. call \in [op : {"host"}, mod : Mods, seq : 0..(SeqLim - 1), again : BOOLEAN]
        <4>1. call \in Calls
          BY DEF TypeOK
        <4>2. QED
          BY <1>1, <4>1 DEF Calls, Idle, Gone
      <3>2. QED
        BY <2>1, <3>1
    <2>2. CASE \E r : Return(r)
      BY <2>2, ReturnEnds
    <2>3. QED
      BY <2>1, <2>2 DEF RecvHost
  <1>3. QED
    BY <1>1, <1>2, CallEndsIf, KeptOrder

LEMMA RecvRouteOrder ==
  ASSUME TypeOK, TypeOK', RInv, RecvRoute
  PROVE  RInv'
  <1>1. call # Gone /\ UNCHANGED <<cache, due>> /\ call'.op = "idle"
    BY ReturnEnds DEF RecvRoute, Waiting
  <1>2. QED
    BY <1>1, CallEndsIf, KeptOrder

LEMMA TimeoutOrder ==
  ASSUME TypeOK, TypeOK', RInv, Timeout
  PROVE  RInv'
  <1>1. call # Gone /\ due' = due
    BY TimeoutCases
  <1>2. CASE call.mod \in Mods /\ Served(call.mod, cache[call.mod])
    <2>1. PICK m \in Mods : m = call.mod
      BY <1>2
    <2>2. Served(m, cache[m])
      BY <1>2, <2>1
    <2>3. CallEnds
      BY <1>1, <2>2, CallEndsIf DEF Served
    <2>4. QED
      BY <1>1, <2>2, <2>3, ServedHolding, SameHoldingKeeps
  <1>3. CASE Return(Failed) /\ UNCHANGED <<cache, requests, seq>>
    BY <1>1, <1>3, ReturnEnds, CallEndsIf, KeptOrder
  <1>4. QED
    BY <1>2, <1>3, TimeoutCases

LEMMA ExitOrder ==
  ASSUME TypeOK, TypeOK', RInv, Exit
  PROVE  RInv'
  <1>1. call # Gone /\ call' = Gone
    BY ReadyStays DEF Exit
  <1>2. \A m \in Mods : cache'[m] = Flushed(m) /\ due'[m] = Owed(m)
    BY DEF Exit
  <1>3. ASSUME NEW m \in Mods, NEW h \in Hosts PROVE due'[m][h] = Zeros(HeldFor(m, h)')
    <2>1. due'[m][h] = <<>>
      BY <1>1, <1>2, NothingOwed
    <2>2. HeldFor(m, h)' = 0
      BY <1>1 DEF HeldFor
    <2>3. QED
      BY <2>1, <2>2, NoZeros
  <1>4. ASSUME NEW m \in Mods, cache'[m] # NoItem PROVE NothingHeld(cache'[m])
    <2>1. cache[m] # NoItem
      BY <1>2, <1>4, NoItemFlushed
    <2>2. QED
      BY <1>1, <1>2, <2>1, NothingOwed DEF NothingHeld
  <1>5. Results'
    BY <1>1, <1>4 DEF Results, NothingHeld, Gone
  <1>6. QED
    BY <1>3, <1>5, OrderIsNext DEF RInv

LEMMA TickOrder ==
  ASSUME TypeOK, TypeOK', RInv, Tick
  PROVE  RInv'
  <1>1. CallEnds
    <2>1. CASE call' = call
      BY <2>1 DEF CallEnds
    <2>2. CASE call.op \in {"fetch", "refresh"} /\ call' = [call EXCEPT !.age = 1]
      <3>1. call \in [op : {"fetch", "refresh"}, mod : Mods, age : 0..1]
        BY <2>2 DEF TypeOK, Calls, Idle, Gone
      <3>2. call'.op = call.op /\ call'.mod = call.mod
        BY <2>2, <3>1
      <3>3. QED
        BY <2>2, <3>2 DEF CallEnds, Gone
    <2>3. QED
      BY <2>1, <2>2 DEF Tick
  <1>2. ASSUME NEW m \in Mods PROVE SameHolding(m)
    <2>1. cache'[m] = Aged(cache[m])
      BY DEF Tick
    <2>2. CASE cache[m] = NoItem
      BY <2>1, <2>2 DEF SameHolding, Aged
    <2>3. CASE cache[m] \in Item
      BY <2>1, <2>3, AgedFacts, ValuesDistinct DEF SameHolding
    <2>4. QED
      BY <2>2, <2>3 DEF TypeOK
  <1>3. due' = due
    BY DEF Tick
  <1>4. QED
    BY <1>1, <1>2, <1>3, SameHoldingKeeps

LEMMA OrderNext == TypeOK /\ TypeOK' /\ RInv /\ [Next]_vars => RInv'
  <1>1. ASSUME TypeOK, TypeOK', RInv, UNCHANGED clientVars PROVE RInv'
    BY <1>1, KeptOrder DEF clientVars, CallEnds
  <1>2. AgentServe \/ Lose \/ UNCHANGED vars => UNCHANGED clientVars
    BY DEF AgentServe, Lose, vars, clientVars
  <1>3. \A m \in Mods : \A S, ov : AgentChange(m, S, ov) => UNCHANGED clientVars
    BY DEF AgentChange
  <1>4. QED
    BY <1>1, <1>2, <1>3, GetHostOrder, GetHostStaticOrder, GetRouteOrder, ReportResOrder,
       RecvRoute4CacheOrder, RecvHostOrder, RecvRouteOrder, TimeoutOrder, ExitOrder,
       TickOrder DEF Next

LEMMA OrderInit == Init => RInv
  <1> SUFFICES ASSUME Init PROVE RInv
    OBVIOUS
  <1>1. /\ call.op = "idle" /\ \A m \in Mods : cache[m] = NoItem
        /\ \A m \in Mods, h \in Hosts : due[m][h] = <<>>
    BY DEF Init, Idle
  <1>2. OrderKept
    BY <1>1, NoZeros, OrderIs DEF HeldFor
  <1>3. Results
    BY <1>1 DEF Results
  <1>4. QED
    BY <1>2, <1>3 DEF RInv

-----------------------------------------------------------------------------
(* Steps that bring nothing new: what they leave in the queues was there in  *)
(* that order, and items keep their version and lose no list.                *)

\* What is about m in the queue new stands in old, k places further back.
KeptFor(m, new, old) ==
    \E k \in Nat : \A i \in DOMAIN new :
       new[i].kind = "cache" /\ new[i].mod = m => i + k \in DOMAIN old /\ new[i] = old[i + k]

SameItem(m) ==
    /\ cache'[m] = NoItem <=> cache[m] = NoItem
    /\ cache[m] # NoItem =>
          /\ cache'[m].version = cache[m].version
          /\ ToSet(cache'[m].hosts) \subseteq ToSet(cache[m].hosts)
          /\ cache[m].hosts # <<>> => cache'[m].hosts # <<>>

QuietFor(m) ==
    /\ SameItem(m) /\ KeptFor(m, inbox', inbox) /\ KeptFor(m, requests', requests)
    /\ route'[m] = route[m] /\ version'[m] = version[m]
    /\ changed'[m] = 1 => changed[m] = 1

\* Nothing but the front of an empty list is garbage.
NoNewGarbage ==
    ret' = Garbage =>
       ret = Garbage \/ \E m \in Mods : cache[m] # NoItem /\ cache[m].hosts = <<>>

Quiet ==
    /\ \A m \in Mods : QuietFor(m)
    /\ hasty' = hasty /\ NoNewGarbage

LEMMA KeptSame ==
  ASSUME NEW S, NEW q \in Seq(S), NEW m
  PROVE  KeptFor(m, q, q)
  <1>1. \A i \in DOMAIN q : i + 0 \in DOMAIN q /\ q[i] = q[i + 0]
    BY LenProperties
  <1>2. QED
    BY <1>1 DEF KeptFor

LEMMA KeptTail ==
  ASSUME NEW S, NEW q \in Seq(S), q # <<>>, NEW m
  PROVE  KeptFor(m, Tail(q), q)
  <1>1. /\ DOMAIN q = 1..Len(q) /\ DOMAIN Tail(q) = 1..(Len(q) - 1)
        /\ Len(q) \in Nat /\ \A i \in 1..(Len(q) - 1) : Tail(q)[i] = q[i + 1]
    BY TailFacts
  <1>2. \A i \in DOMAIN Tail(q) : i + 1 \in DOMAIN q /\ Tail(q)[i] = q[i + 1]
    BY <1>1
  <1>3. QED
    BY <1>2 DEF KeptFor

LEMMA KeptAppend ==
  ASSUME NEW S, NEW q \in Seq(S), NEW e \in S, NEW m, ~(e.kind = "cache" /\ e.mod = m)
  PROVE  KeptFor(m, Append(q, e), q)
  <1>1. /\ DOMAIN Append(q, e) = 1..(Len(q) + 1) /\ DOMAIN q = 1..Len(q)
        /\ \A i \in 1..Len(q) : Append(q, e)[i] = q[i]
        /\ Append(q, e)[Len(q) + 1] = e /\ Len(q) \in Nat
    BY AppendFacts
  <1>2. ASSUME NEW i \in DOMAIN Append(q, e),
               Append(q, e)[i].kind = "cache" /\ Append(q, e)[i].mod = m
        PROVE  i + 0 \in DOMAIN q /\ Append(q, e)[i] = q[i + 0]
    <2>1. i # Len(q) + 1
      BY <1>1, <1>2
    <2>2. i \in 1..Len(q) /\ i + 0 = i
      BY <1>1, <2>1
    <2>3. QED
      BY <1>1, <2>2
  <1>3. \A i \in DOMAIN Append(q, e) :
           Append(q, e)[i].kind = "cache" /\ Append(q, e)[i].mod = m
              => i + 0 \in DOMAIN q /\ Append(q, e)[i] = q[i + 0]
    BY <1>2
  <1>4. 0 \in Nat
    OBVIOUS
  <1>5. QED
    BY <1>3, <1>4 DEF KeptFor

LEMMA InboxKept ==
  ASSUME TypeOK, NEW m, inbox' = inbox \/ (inbox # <<>> /\ inbox' = Tail(inbox))
  PROVE  KeptFor(m, inbox', inbox)
  <1>1. inbox \in Seq(Packets)
    BY DEF TypeOK
  <1>2. PICK q \in Seq(Packets) : q = inbox
    BY <1>1
  <1>3. KeptFor(m, q, q)
    BY KeptSame
  <1>4. q # <<>> => KeptFor(m, Tail(q), q)
    BY KeptTail
  <1>5. QED
    BY <1>2, <1>3, <1>4

LEMMA RequestsKept ==
  ASSUME TypeOK, NEW m,
         requests' = requests \/ Asked \/ (requests # <<>> /\ requests' = Tail(requests))
  PROVE  KeptFor(m, requests', requests)
  <1>1. requests \in Seq(Requests)
    BY DEF TypeOK
  <1>2. CASE Asked
    BY <1>1, <1>2, KeptAppend DEF Asked
  <1>3. QED
    BY <1>1, <1>2, KeptSame, KeptTail

LEMMA SameItems ==
  ASSUME cache' = cache
  PROVE  \A m \in Mods : SameItem(m)
  BY DEF SameItem

LEMMA ServedQuiet ==
  ASSUME NEW m \in Mods, Served(m, cache[m])
  PROVE  (\A n \in Mods : SameItem(n)) /\ NoNewGarbage
  <1>1. ASSUME NEW n \in Mods, n # m PROVE SameItem(n)
    BY <1>1 DEF Served, SameItem
  <1>2. SameItem(m)
    BY DEF Served, SameItem
  <1>3. NoNewGarbage
    BY DEF Served, NoNewGarbage
  <1>4. QED
    BY <1>1, <1>2, <1>3

LEMMA FlushedSame ==
  ASSUME TypeOK, NEW m \in Mods, cache'[m] = Flushed(m)
  PROVE  SameItem(m)
  <1>1. CASE cache[m] = NoItem
    BY <1>1, NoItemFlushed DEF SameItem
  <1>2. CASE cache[m] \in Item
    BY <1>2, FlushedFacts, ValuesDistinct DEF SameItem
  <1>3. QED
    BY <1>1, <1>2 DEF TypeOK

\* A step is quiet if it is so for its parts.
LEMMA QuietIf ==
  ASSUME TypeOK, \A m \in Mods : SameItem(m), NoNewGarbage, UNCHANGED agentVars,
         inbox' = inbox \/ (inbox # <<>> /\ inbox' = Tail(inbox)),
         requests' = requests \/ Asked \/ (requests # <<>> /\ requests' = Tail(requests))
  PROVE  Quiet
  BY InboxKept, RequestsKept DEF Quiet, QuietFor, agentVars

LEMMA NotGarbage ==
  /\ Garbage \notin Hosts \cup {NoExist, Overload, Failed, Pending}
  BY ValuesDistinct DEF Codes, Garbage, NoExist, Overload, Failed, Pending

LEMMA GetHostStaticQuiet ==
  ASSUME TypeOK, NEW m \in Mods, ApiGetHostStatic(m)
  PROVE  Quiet
  <1>1. NoNewGarbage
    BY NotGarbage DEF ApiGetHostStatic, Return, NoNewGarbage
  <1>2. QED
    BY <1>1, SameItems, QuietIf DEF ApiGetHostStatic, netVars

LEMMA GetRouteQuiet ==
  ASSUME TypeOK, NEW m \in Mods, ApiGetRoute(m)
  PROVE  Quiet
  <1>1. NoNewGarbage
    BY NotGarbage DEF ApiGetRoute, NoNewGarbage
  <1>2. RouteReq(m) \in Requests /\ RouteReq(m).kind # "cache"
    BY DEF RouteReq, Requests
  <1>4. ASSUME NEW n \in Mods PROVE KeptFor(n, requests', requests)
    <2>1. requests \in Seq(Requests) /\ requests' = Append(requests, RouteReq(m))
      BY DEF TypeOK, ApiGetRoute
    <2>2. QED
      BY <1>2, <2>1, KeptAppend
  <1>5. QED
    BY <1>1, <1>4, SameItems, InboxKept DEF ApiGetRoute, Quiet, QuietFor, agentVars

LEMMA ReportResQuiet ==
  ASSUME TypeOK, NEW m \in Mods, NEW h \in HostsOf(m), NEW r \in {0, 1},
         ApiReportRes(m, h, r)
  PROVE  Quiet
  <1>1. /\ ret' = ret /\ UNCHANGED <<netVars, agentVars>> /\ h \in Hosts
    BY DEF ApiReportRes
  <1>2. cache \in [Mods -> Items]
    BY DEF TypeOK, Items
  <1>3. CASE cache' = cache
    BY <1>1, <1>3, SameItems, QuietIf DEF NoNewGarbage, netVars
  <1>4. CASE RouteIsCalm(m) /\ cache' = [cache EXCEPT ![m] = Holding(cache[m], h)]
    <2>1. cache[m] \in Item
      BY <1>4 DEF RouteIsCalm, TypeOK
    <2>2. SameItem(m)
      <3>1. PICK item \in Item : item = cache[m]
        BY <2>1
      <3>2. cache'[m] = Holding(item, h)
        BY <1>2, <1>4, <3>1
      <3>3. /\ Holding(item, h) \in Item /\ Holding(item, h).hosts = item.hosts
            /\ Holding(item, h).version = item.version
        BY <1>1, HoldingFacts
      <3>4. QED
        BY <3>1, <3>2, <3>3, ValuesDistinct DEF SameItem
    <2>3. \A n \in Mods : n # m => SameItem(n)
      BY <1>2, <1>4 DEF SameItem
    <2>4. QED
      BY <1>1, <2>2, <2>3, QuietIf DEF NoNewGarbage, netVars
  <1>5. CASE cache' = [cache EXCEPT ![m] = Flushed(m)]
    <2>1. SameItem(m)
      <3>1. cache'[m] = Flushed(m)
        BY <1>2, <1>5
      <3>2. QED
        BY <3>1, FlushedSame
    <2>2. \A n \in Mods : n # m => SameItem(n)
      BY <1>2, <1>5 DEF SameItem
    <2>3. QED
      BY <1>1, <2>1, <2>2, QuietIf DEF NoNewGarbage, netVars
  <1>6. QED
    BY <1>3, <1>4, <1>5 DEF ApiReportRes, Hold

LEMMA ExitQuiet ==
  ASSUME TypeOK, Exit
  PROVE  Quiet
  <1>1. \A m \in Mods : SameItem(m)
    <2>1. \A m \in Mods : cache'[m] = Flushed(m)
      BY DEF Exit
    <2>2. QED
      BY <2>1, FlushedSame
  <1>2. QED
    BY <1>1, QuietIf DEF Exit, NoNewGarbage, netVars

LEMMA RecvHostQuiet ==
  ASSUME TypeOK, RecvHost
  PROVE  Quiet
  <1>1. Take /\ UNCHANGED <<cache, requests, agentVars>>
    BY DEF RecvHost
  <1>2. PICK p \in Packets : p = Head(inbox)
    BY <1>1, TakeFacts
  <1>3. Readable(p) => p.answer \in Hosts \cup {NoExist, Overload}
    BY PacketFields DEF Readable
  <1>4. NoNewGarbage
    <2>1. ret' = Failed \/ ret' = ret \/ (Readable(p) /\ ret' = p.answer)
      BY <1>2 DEF RecvHost, Return
    <2>2. QED
      BY <1>3, <2>1, NotGarbage DEF NoNewGarbage
  <1>5. QED
    BY <1>1, <1>4, SameItems, QuietIf DEF Take

LEMMA RecvRouteQuiet ==
  ASSUME TypeOK, RecvRoute
  PROVE  Quiet
  <1>1. Take /\ UNCHANGED <<cache, requests, agentVars>>
    BY DEF RecvRoute
  <1>2. NoNewGarbage
    BY NotGarbage DEF RecvRoute, Return, NoNewGarbage
  <1>3. QED
    BY <1>1, <1>2, SameItems, QuietIf DEF Take

LEMMA TimeoutQuiet ==
  ASSUME TypeOK, Timeout
  PROVE  Quiet
  <1>1. UNCHANGED <<inbox, agentVars>>
    BY TimeoutCases
  <1>2. CASE call.mod \in Mods /\ Served(call.mod, cache[call.mod])
    <2>1. PICK m \in Mods : m = call.mod
      BY <1>2
    <2>2. Served(m, cache[m])
      BY <1>2, <2>1
    <2>3. requests' = requests \/ Asked
      BY <2>2 DEF Served
    <2>4. QED
      BY <1>1, <2>2, <2>3, ServedQuiet, QuietIf
  <1>3. CASE Return(Failed) /\ UNCHANGED <<cache, requests, seq>>
    <2>1. NoNewGarbage
      BY <1>3, NotGarbage DEF Return, NoNewGarbage
    <2>2. QED
      BY <1>1, <1>3, <2>1, SameItems, QuietIf
  <1>4. QED
    BY <1>2, <1>3, TimeoutCases

LEMMA LoseQuiet ==
  ASSUME TypeOK, Lose
  PROVE  Quiet
  BY SameItems, QuietIf DEF Lose, clientVars, NoNewGarbage

LEMMA TickQuiet ==
  ASSUME TypeOK, Tick
  PROVE  Quiet
  <1>1. ASSUME NEW m \in Mods PROVE SameItem(m)
    <2>1. cache'[m] = Aged(cache[m])
      BY DEF Tick
    <2>2. CASE cache[m] = NoItem
      BY <2>1, <2>2 DEF SameItem, Aged
    <2>3. CASE cache[m] \in Item
      BY <2>1, <2>3, AgedFacts, ValuesDistinct DEF SameItem
    <2>4. QED
      BY <2>2, <2>3 DEF TypeOK
  <1>2. \A m \in Mods : changed'[m] = 0
    BY DEF Tick
  <1>3. \A m \in Mods : KeptFor(m, inbox', inbox) /\ KeptFor(m, requests', requests)
    BY InboxKept, RequestsKept DEF Tick, netVars
  <1>4. QED
    BY <1>1, <1>2, <1>3 DEF Tick, Quiet, QuietFor, NoNewGarbage

LEMMA StutterQuiet ==
  ASSUME TypeOK, UNCHANGED vars
  PROVE  Quiet
  BY SameItems, QuietIf DEF vars, clientVars, netVars, NoNewGarbage

-----------------------------------------------------------------------------
(* Hosts of other modules stay out.                                         *)

OInv == OwnHosts /\ OwnAnswers

LEMMA QuietOwn ==
  ASSUME TypeOK, TypeOK', OInv, Quiet
  PROVE  OInv'
  <1>1. OwnHosts'
    BY DEF OInv, OwnHosts, Quiet, QuietFor, SameItem
  <1>2. \A m \in Mods : route'[m] \subseteq HostsOf(m)
    BY DEF OInv, OwnAnswers, Quiet, QuietFor
  <1>3. ASSUME NEW i \in DOMAIN inbox', inbox'[i].kind = "cache"
        PROVE  inbox'[i].hosts \subseteq HostsOf(inbox'[i].mod)
    <2>1. inbox'[i] \in Packets
      BY LenProperties, ElementOfSeq DEF TypeOK
    <2>2. PICK m \in Mods : m = inbox'[i].mod
      BY <2>1, PacketFields
    <2>3. KeptFor(m, inbox', inbox)
      BY DEF Quiet, QuietFor
    <2>4. PICK k \in Nat : i + k \in DOMAIN inbox /\ inbox'[i] = inbox[i + k]
      BY <1>3, <2>2, <2>3 DEF KeptFor
    <2>5. QED
      BY <1>3, <2>4 DEF OInv, OwnAnswers
  <1>4. QED
    BY <1>1, <1>2, <1>3 DEF OInv, OwnAnswers

\* A step that asks for the route of m, with its cached version or none.
LEMMA QueryKept ==
  ASSUME TypeOK, NEW m \in Mods, NEW op \in {"fetch", "refresh"},
         NEW v \in -1..MaxChange, Query(m, op, v), NEW n \in Mods, n # m
  PROVE  KeptFor(n, requests', requests)
  <1>1. /\ CacheReq(m, v) \in Requests /\ requests' = Append(requests, CacheReq(m, v))
        /\ requests \in Seq(Requests) /\ CacheReq(m, v).mod = m
    BY QueryType DEF TypeOK, CacheReq
  <1>2. QED
    BY <1>1, KeptAppend

LEMMA SameOwn ==
  ASSUME OInv, \A m \in Mods : SameItem(m), UNCHANGED <<inbox, route>>
  PROVE  OInv'
  BY DEF OInv, OwnHosts, OwnAnswers, SameItem

\* apiGetHost serves, or asks for the route with the version it has.
LEMMA GetHostQuiet ==
  ASSUME TypeOK, NEW m \in Mods, ApiGetHost(m)
  PROVE  \/ Quiet
         \/ /\ \A n \in Mods : SameItem(n)
            /\ UNCHANGED <<inbox, agentVars>> /\ ret' = Pending
            /\ \E op \in {"fetch", "refresh"}, v \in -1..MaxChange :
                  /\ Query(m, op, v)
                  /\ v = Absent \/ Has(m, v)
  <1>1. UNCHANGED <<inbox, agentVars>>
    BY GetHostCases
  <1>2. CASE Served(m, cache[m])
    <2>1. requests' = requests \/ Asked
      BY <1>2 DEF Served
    <2>2. QED
      BY <1>1, <1>2, <2>1, ServedQuiet, QuietIf
  <1>3. CASE cache[m] = NoItem /\ Query(m, "fetch", Absent) /\ UNCHANGED <<cache, due>>
    <2>1. Absent \in -1..MaxChange
      BY DEF Absent
    <2>2. ret' = Pending
      BY <1>3 DEF Query
    <2>3. QED
      BY <1>1, <1>3, <2>1, <2>2, SameItems
  <1>4. CASE cache[m] \in Item /\ BatchReportRes(m) /\ Query(m, "refresh", cache[m].version)
    <2>1. PICK v \in -1..MaxChange : v = cache[m].version
      BY <1>4, ItemFields
    <2>2. Has(m, v) /\ Query(m, "refresh", v)
      BY <1>4, <2>1, ValuesDistinct DEF Has
    <2>3. cache'[m] = Flushed(m) /\ \A n \in Mods : n # m => cache'[n] = cache[n]
      BY <1>4 DEF BatchReportRes, TypeOK
    <2>4. \A n \in Mods : SameItem(n)
      <3>1. SameItem(m)
        BY <2>3, FlushedSame
      <3>2. \A n \in Mods : n # m => SameItem(n)
        BY <2>3 DEF SameItem
      <3>3. QED
        BY <3>1, <3>2
    <2>5. ret' = Pending
      BY <2>2 DEF Query
    <2>6. QED
      BY <1>1, <2>2, <2>4, <2>5
  <1>5. QED
    BY <1>2, <1>3, <1>4, GetHostCases

\* getRoute4Cache ends quietly, unless it gets the route p it has asked for.
LEMMA RecvRoute4CacheQuiet ==
  ASSUME TypeOK, RecvRoute4Cache
  PROVE  \/ Quiet
         \/ \E m \in Mods, p \in Packets :
               /\ p = Head(inbox) /\ Take /\ RouteFor(p, m) /\ call.age \in 0..1
               /\ Served(m, Updated(cache[m], p)) /\ UNCHANGED agentVars
  <1>1. /\ call.op \in {"fetch", "refresh"} /\ UNCHANGED agentVars /\ Take
        /\ call.age \in 0..1 /\ call.mod \in Mods
        /\ RecvCase(call.mod, Head(inbox))
    BY RecvCases
  <1>2. PICK m \in Mods, p \in Packets : m = call.mod /\ p = Head(inbox)
    BY <1>1, TakeFacts
  <1>3. RecvCase(m, p)
    BY <1>1, <1>2
  <1>4. inbox # <<>> /\ inbox' = Tail(inbox)
    BY <1>1 DEF Take
  <1>5. CASE Return(Failed) /\ UNCHANGED <<cache, requests, seq>>
    <2>1. NoNewGarbage
      BY <1>5, NotGarbage DEF Return, NoNewGarbage
    <2>2. QED
      BY <1>1, <1>4, <1>5, <2>1, SameItems, QuietIf
  <1>6. CASE Served(m, cache[m])
    <2>1. requests' = requests \/ Asked
      BY <1>6 DEF Served
    <2>2. QED
      BY <1>1, <1>4, <1>6, <2>1, ServedQuiet, QuietIf
  <1>7. QED
    BY <1>1, <1>2, <1>3, <1>5, <1>6 DEF RecvCase

LEMMA RecvRoute4CacheOwn ==
  ASSUME TypeOK, OInv, NEW m \in Mods, NEW p \in Packets, p = Head(inbox), Take,
         RouteFor(p, m), call.age \in 0..1, Served(m, Updated(cache[m], p)),
         UNCHANGED agentVars
  PROVE  OInv'
  <1>1. p.kind = "cache" /\ p.mod = m
    BY DEF RouteFor
  <1>2. /\ p = inbox[1] /\ 1 \in DOMAIN inbox
        /\ DOMAIN inbox = 1..Len(inbox) /\ DOMAIN inbox' = 1..(Len(inbox) - 1)
        /\ Len(inbox) \in Nat \ {0}
        /\ \A i \in 1..(Len(inbox) - 1) : inbox'[i] = inbox[i + 1]
    BY TakeFacts
  <1>3. p.hosts \subseteq HostsOf(m)
    BY <1>1, <1>2 DEF OInv, OwnAnswers
  <1>4. cache[m] \in Items
    BY DEF TypeOK, Items
  <1>5. PICK item \in Items : item = Updated(cache[m], p)
    BY <1>1, <1>4, UpdatedFacts
  <1>6. item # NoItem => ToSet(item.hosts) \subseteq HostsOf(m)
    BY <1>1, <1>3, <1>4, <1>5, UpdatedFacts DEF OInv, OwnHosts
  <1>7. Served(m, item)
    BY <1>5
  <1>8. OwnHosts'
    BY <1>6, <1>7 DEF OInv, OwnHosts, Served
  <1>9. OwnAnswers'
    <2>1. \A i \in DOMAIN inbox' : i + 1 \in DOMAIN inbox /\ inbox'[i] = inbox[i + 1]
      BY <1>2
    <2>2. route' = route
      BY DEF agentVars
    <2>3. QED
      BY <2>1, <2>2 DEF OInv, OwnAnswers
  <1>10. QED
    BY <1>8, <1>9 DEF OInv

\* A step of the agent is quiet unless it answers with a route.
LEMMA AgentServeQuiet ==
  ASSUME TypeOK, AgentServe
  PROVE  \/ Quiet
         \/ \E r \in Requests :
               /\ requests # <<>> /\ r = Head(requests) /\ requests' = Tail(requests)
               /\ r.kind = "cache" /\ inbox' = Append(inbox, CacheAnswer(r))
  <1>1. PICK r \in Requests, p \in Packets :
            /\ requests # <<>> /\ r = Head(requests) /\ requests' = Tail(requests)
            /\ inbox' = Append(inbox, p)
            /\ (r.kind = "cache" /\ p = CacheAnswer(r)) \/ p.kind # "cache"
    BY AgentServeCases
  <1>2. UNCHANGED clientVars /\ UNCHANGED agentVars
    BY DEF AgentServe
  <1>3. CASE p.kind # "cache"
    <2>1. inbox \in Seq(Packets)
      BY DEF TypeOK
    <2>2. \A m \in Mods : KeptFor(m, inbox', inbox) /\ KeptFor(m, requests', requests)
      BY <1>1, <1>3, <2>1, KeptAppend, RequestsKept
    <2>3. \A m \in Mods : SameItem(m)
      BY <1>2, SameItems DEF clientVars
    <2>4. QED
      BY <1>2, <2>2, <2>3 DEF Quiet, QuietFor, agentVars, clientVars, NoNewGarbage
  <1>4. QED
    BY <1>1, <1>3

LEMMA AgentServeOwn ==
  ASSUME TypeOK, OInv, AgentServe, NEW r \in Requests, r.kind = "cache",
         inbox' = Append(inbox, CacheAnswer(r))
  PROVE  OInv'
  <1>1. cache' = cache /\ route' = route
    BY DEF AgentServe, clientVars, agentVars
  <1>2. PICK p \in Packets : p = CacheAnswer(r)
    BY CacheAnswerFacts
  <1>3. p.mod \in Mods /\ p.hosts \subseteq HostsOf(p.mod)
    BY <1>2, CacheAnswerFacts DEF OInv, OwnAnswers
  <1>4. inbox \in Seq(Packets) /\ inbox' = Append(inbox, p)
    BY <1>2 DEF TypeOK
  <1>5. /\ DOMAIN inbox' = 1..(Len(inbox) + 1) /\ DOMAIN inbox = 1..Len(inbox)
        /\ \A i \in 1..Len(inbox) : inbox'[i] = inbox[i]
        /\ inbox'[Len(inbox) + 1] = p /\ Len(inbox) \in Nat
    BY <1>4, AppendFacts
  <1>6. ASSUME NEW i \in DOMAIN inbox' PROVE i \in DOMAIN inbox \/ inbox'[i] = p
    BY <1>5
  <1>7. QED
    BY <1>1, <1>3, <1>5, <1>6 DEF OInv, OwnHosts, OwnAnswers

LEMMA AgentChangeOwn ==
  ASSUME TypeOK, OInv, NEW m \in Mods, NEW S \in SUBSET HostsOf(m), NEW ov \in BOOLEAN,
         AgentChange(m, S, ov)
  PROVE  OInv'
  <1>1. UNCHANGED <<cache, inbox>> /\ route' = [route EXCEPT ![m] = S]
    BY DEF AgentChange, clientVars, netVars
  <1>2. \A n \in Mods : route'[n] \subseteq HostsOf(n)
    BY <1>1 DEF OInv, OwnAnswers, TypeOK
  <1>3. QED
    BY <1>1, <1>2 DEF OInv, OwnHosts, OwnAnswers

LEMMA OwnNext == TypeOK /\ TypeOK' /\ OInv /\ [Next]_vars => OInv'
  <1> SUFFICES ASSUME TypeOK, TypeOK', OInv, [Next]_vars PROVE OInv'
    OBVIOUS
  <1>1. ASSUME NEW m \in Mods, ApiGetHost(m) PROVE OInv'
    <2>1. UNCHANGED <<inbox, route>>
      BY <1>1 DEF ApiGetHost, agentVars
    <2>2. QED
      BY <1>1, <2>1, GetHostQuiet, QuietOwn, SameOwn
  <1>2. ASSUME NEW m \in Mods,
               \/ ApiGetHostStatic(m) \/ ApiGetRoute(m)
               \/ \E h \in HostsOf(m), r \in {0, 1} : ApiReportRes(m, h, r)
        PROVE  OInv'
    BY <1>2, GetHostStaticQuiet, GetRouteQuiet, ReportResQuiet, QuietOwn
  <1>3. ASSUME RecvRoute4Cache PROVE OInv'
    BY <1>3, RecvRoute4CacheQuiet, RecvRoute4CacheOwn, QuietOwn
  <1>4. ASSUME RecvHost \/ RecvRoute \/ Timeout \/ Exit \/ Lose \/ Tick PROVE OInv'
    BY <1>4, RecvHostQuiet, RecvRouteQuiet, TimeoutQuiet, ExitQuiet, LoseQuiet,
       TickQuiet, QuietOwn
  <1>5. ASSUME AgentServe PROVE OInv'
    BY <1>5, AgentServeQuiet, AgentServeOwn, QuietOwn
  <1>6. ASSUME UNCHANGED vars PROVE OInv'
    BY <1>6, StutterQuiet, QuietOwn
  <1>7. QED
    BY <1>1, <1>2, <1>3, <1>4, <1>5, <1>6, AgentChangeOwn DEF Next

-----------------------------------------------------------------------------
(* Versions, and what an answer without hosts means.                        *)

VersionsOf(m) ==
    NotAhead(m) /\ UnseenWhenDeleted(m) /\ KeptWhilePresent(m) /\ EmptyMeetsItsVersion(m)

LEMMA QueueTypes ==
  ASSUME TypeOK
  PROVE  /\ DOMAIN inbox = 1..Len(inbox) /\ Len(inbox) \in Nat
         /\ DOMAIN requests = 1..Len(requests) /\ Len(requests) \in Nat
         /\ \A i \in DOMAIN inbox : inbox[i] \in Packets
         /\ \A i \in DOMAIN requests : requests[i] \in Requests
         /\ \A m \in Mods : version[m] \in Nat /\ version[m] # Absent
  <1>1. inbox \in Seq(Packets) /\ requests \in Seq(Requests)
    BY DEF TypeOK
  <1>2. \A m \in Mods : version[m] \in Nat /\ version[m] # Absent
    BY DEF TypeOK, Absent
  <1>3. QED
    BY <1>1, <1>2, LenProperties, ElementOfSeq

\* An item keeps what it has, and a queue what it says of m, in order.
LEMMA SameItemHas ==
  ASSUME NEW m \in Mods, SameItem(m), NEW v
  PROVE  Has(m, v)' <=> Has(m, v)
  BY DEF SameItem, Has

LEMMA QuietVersions ==
  ASSUME TypeOK, TypeOK', NEW m \in Mods, QuietFor(m), VersionsOf(m)
  PROVE  VersionsOf(m)'
  <1>1. /\ version'[m] = version[m] /\ route'[m] = route[m]
        /\ changed'[m] = 1 => changed[m] = 1
        /\ SameItem(m)
    BY DEF QuietFor
  <1>2. PICK k \in Nat : \A i \in DOMAIN inbox' :
           Answer(i, m)' => i + k \in DOMAIN inbox /\ inbox'[i] = inbox[i + k]
    BY DEF QuietFor, KeptFor, Answer
  <1>3. PICK l \in Nat : \A i \in DOMAIN requests' :
           Question(i, m)' => i + l \in DOMAIN requests /\ requests'[i] = requests[i + l]
    BY DEF QuietFor, KeptFor, Question
  <1>4. \A i \in DOMAIN inbox' : i \in Nat
    <2>1. inbox' \in Seq(Packets)
      BY DEF TypeOK
    <2>2. DOMAIN inbox' = 1..Len(inbox') /\ Len(inbox') \in Nat
      BY <2>1, LenProperties
    <2>3. QED
      BY <2>2
  <1>5. \A i \in DOMAIN inbox' : Answer(i, m)' => Answer(i + k, m)
    BY <1>2 DEF Answer
  <1>6. \A i \in DOMAIN requests' : Question(i, m)' => Question(i + l, m)
    BY <1>3 DEF Question
  <1>7. NotAhead(m)'
    BY <1>1, <1>2, <1>3, <1>5, <1>6 DEF VersionsOf, NotAhead, SameItem
  <1>8. UnseenWhenDeleted(m)'
    BY <1>1, <1>2, <1>3, <1>5, <1>6, SameItemHas DEF VersionsOf, UnseenWhenDeleted
  <1>9. KeptWhilePresent(m)'
    <2>1. SUFFICES ASSUME route'[m] # {}
                   PROVE  /\ Has(m, version[m]) =>
                                \A i \in DOMAIN inbox' :
                                   Answer(i, m)' => inbox'[i].version = version[m]
                          /\ \A i, j \in DOMAIN inbox' :
                                /\ i < j /\ Answer(i, m)' /\ Answer(j, m)'
                                /\ inbox'[i].version = version[m]
                                => inbox'[j].version = version[m]
                          /\ \A i \in DOMAIN requests' :
                                Question(i, m)' /\ requests'[i].version = version[m]
                                => Has(m, version[m])
      BY <1>1, SameItemHas DEF KeptWhilePresent
    <2>2. ASSUME NEW i \in DOMAIN inbox', NEW j \in DOMAIN inbox', i < j,
                 Answer(i, m)', Answer(j, m)', inbox'[i].version = version[m]
          PROVE  inbox'[j].version = version[m]
      <3>1. /\ i + k \in DOMAIN inbox /\ inbox'[i] = inbox[i + k] /\ Answer(i + k, m)
            /\ j + k \in DOMAIN inbox /\ inbox'[j] = inbox[j + k] /\ Answer(j + k, m)
        BY <1>2, <1>5, <2>2
      <3>2. i + k < j + k
        BY <1>4, <2>2
      <3>3. QED
        BY <1>1, <2>1, <2>2, <3>1, <3>2 DEF VersionsOf, KeptWhilePresent
    <2>3. QED
      BY <1>1, <1>2, <1>3, <1>5, <1>6, <2>1, <2>2 DEF VersionsOf, KeptWhilePresent
  <1>10. EmptyMeetsItsVersion(m)'
    <2>1. ASSUME NEW j \in DOMAIN inbox', Answer(j, m)', inbox'[j].version # Absent,
                 inbox'[j].hosts = {}
          PROVE  /\ cache'[m] # NoItem /\ cache'[m].version = inbox'[j].version
                 /\ \A i \in DOMAIN inbox' :
                       i < j /\ Answer(i, m)' => inbox'[i].version = inbox'[j].version
      <3>1. j + k \in DOMAIN inbox /\ inbox'[j] = inbox[j + k] /\ Answer(j + k, m)
        BY <1>2, <1>5, <2>1
      <3>2. /\ Has(m, inbox[j + k].version)
            /\ \A i \in DOMAIN inbox :
                  i < j + k /\ Answer(i, m) => inbox[i].version = inbox[j + k].version
        BY <2>1, <3>1 DEF VersionsOf, EmptyMeetsItsVersion
      <3>3. ASSUME NEW i \in DOMAIN inbox', i < j, Answer(i, m)'
            PROVE  inbox'[i].version = inbox'[j].version
        <4>1. i + k \in DOMAIN inbox /\ inbox'[i] = inbox[i + k] /\ Answer(i + k, m)
          BY <1>2, <1>5, <3>3
        <4>2. i + k < j + k
          BY <1>4, <3>3
        <4>3. QED
          BY <3>1, <3>2, <4>1, <4>2
      <3>4. cache'[m] # NoItem /\ cache'[m].version = inbox'[j].version
        BY <1>1, <3>1, <3>2 DEF SameItem, Has
      <3>5. QED
        BY <3>3, <3>4
    <2>2. QED
      BY <2>1 DEF EmptyMeetsItsVersion, Has
  <1>11. QED
    BY <1>7, <1>8, <1>9, <1>10 DEF VersionsOf

\* A question with the cached version, or with none.
LEMMA QueryVersions ==
  ASSUME TypeOK, TypeOK', NEW m \in Mods, VersionsOf(m), SameItem(m),
         UNCHANGED <<inbox, agentVars>>,
         NEW op \in {"fetch", "refresh"}, NEW v \in -1..MaxChange, Query(m, op, v),
         v = Absent \/ Has(m, v)
  PROVE  VersionsOf(m)'
  <1>1. /\ version'[m] = version[m] /\ route'[m] = route[m] /\ changed'[m] = changed[m]
        /\ version[m] \in Nat /\ version[m] # Absent
    BY QueueTypes DEF agentVars
  <1>2. requests' = Append(requests, CacheReq(m, v)) /\ CacheReq(m, v) \in Requests
        /\ CacheReq(m, v).version = v
    BY QueryType DEF CacheReq
  <1>3. requests \in Seq(Requests)
    BY DEF TypeOK
  <1>4. \A i \in DOMAIN requests' :
           \/ i \in DOMAIN requests /\ requests'[i] = requests[i]
           \/ requests'[i].version = v
    <2>1. /\ DOMAIN requests' = 1..(Len(requests) + 1) /\ DOMAIN requests = 1..Len(requests)
          /\ \A i \in 1..Len(requests) : requests'[i] = requests[i]
          /\ requests'[Len(requests) + 1] = CacheReq(m, v) /\ Len(requests) \in Nat
      BY <1>2, <1>3, AppendFacts
    <2>2. QED
      BY <1>2, <2>1
  <1>5. \A i \in DOMAIN requests' :
           Question(i, m)' => \/ /\ i \in DOMAIN requests /\ Question(i, m)
                                 /\ requests'[i].version = requests[i].version
                              \/ requests'[i].version = v
    BY <1>4 DEF Question
  <1>6. \A i : Answer(i, m)' <=> Answer(i, m)
    BY DEF Answer
  <1>7. v <= version[m] /\ (v = version[m] => Has(m, version[m]))
    BY <1>1 DEF VersionsOf, NotAhead, Has, Absent
  <1>8. NotAhead(m)'
    BY <1>1, <1>5, <1>6, <1>7 DEF VersionsOf, NotAhead, SameItem
  <1>9. UnseenWhenDeleted(m)'
    BY <1>1, <1>5, <1>6, <1>7, SameItemHas DEF VersionsOf, UnseenWhenDeleted
  <1>10. KeptWhilePresent(m)'
    BY <1>1, <1>5, <1>6, <1>7, SameItemHas DEF VersionsOf, KeptWhilePresent
  <1>11. EmptyMeetsItsVersion(m)'
    BY <1>6, SameItemHas DEF VersionsOf, EmptyMeetsItsVersion, Has, SameItem
  <1>12. QED
    BY <1>8, <1>9, <1>10, <1>11 DEF VersionsOf

\* getRoute4Cache gets the route p it has asked for.
LEMMA RecvVersions ==
  ASSUME TypeOK, TypeOK', NEW m \in Mods, VersionsOf(m), Stocked,
         NEW p \in Packets, p = Head(inbox), Take, RouteFor(p, m), call.age \in 0..1,
         Served(m, Updated(cache[m], p)), UNCHANGED agentVars
  PROVE  /\ VersionsOf(m)' /\ ret' # Garbage
         /\ cache'[m] # NoItem => cache'[m].hosts # <<>>
  <1>1. p.kind = "cache" /\ p.mod = m
    BY DEF RouteFor
  <1>2. /\ p = inbox[1] /\ 1 \in DOMAIN inbox /\ Answer(1, m)
        /\ DOMAIN inbox = 1..Len(inbox) /\ DOMAIN inbox' = 1..(Len(inbox) - 1)
        /\ Len(inbox) \in Nat \ {0}
        /\ \A i \in 1..(Len(inbox) - 1) : inbox'[i] = inbox[i + 1]
    <2>1. /\ Head(inbox) = inbox[1]
          /\ DOMAIN inbox = 1..Len(inbox) /\ DOMAIN inbox' = 1..(Len(inbox) - 1)
          /\ Len(inbox) \in Nat \ {0}
          /\ \A i \in 1..(Len(inbox) - 1) : inbox'[i] = inbox[i + 1]
      BY TakeFacts
    <2>2. p = inbox[1] /\ 1 \in DOMAIN inbox
      BY <2>1
    <2>3. Answer(1, m)
      BY <1>1, <2>2 DEF Answer
    <2>4. QED
      BY <2>1, <2>2, <2>3
  <1>3. /\ version'[m] = version[m] /\ route'[m] = route[m] /\ changed'[m] = changed[m]
        /\ version[m] \in Nat /\ version[m] # Absent
    BY QueueTypes DEF agentVars
  <1>4. cache[m] \in Items
    BY DEF TypeOK, Items
  <1>5. PICK item \in Items : item = Updated(cache[m], p)
    BY <1>1, <1>4, UpdatedFacts
  <1>6. Served(m, item)
    BY <1>5
  <1>7. /\ p.version = Absent => cache'[m] = NoItem
        /\ p.version # Absent => cache'[m] # NoItem /\ cache'[m].version = p.version
    BY <1>1, <1>4, <1>5, <1>6, UpdatedFacts DEF Served
  <1>8. \A i \in DOMAIN inbox' :
           /\ i \in Nat /\ i + 1 \in DOMAIN inbox /\ inbox'[i] = inbox[i + 1] /\ 1 < i + 1
           /\ Answer(i, m)' => Answer(i + 1, m)
    <2>1. \A i \in DOMAIN inbox' :
             i \in Nat /\ i + 1 \in DOMAIN inbox /\ inbox'[i] = inbox[i + 1] /\ 1 < i + 1
      BY <1>2
    <2>2. QED
      BY <2>1 DEF Answer
  <1>9. PICK l \in Nat : \A i \in DOMAIN requests' :
           Question(i, m)' => i + l \in DOMAIN requests /\ requests'[i] = requests[i + l]
    <2>1. KeptFor(m, requests', requests)
      BY <1>6, RequestsKept DEF Served
    <2>2. QED
      BY <2>1 DEF KeptFor, Question
  <1>10. \A i \in DOMAIN requests' : Question(i, m)' => Question(i + l, m)
    BY <1>9 DEF Question
  <1>11. p.version <= version[m]
    BY <1>2 DEF VersionsOf, NotAhead
  <1>12. NotAhead(m)'
    BY <1>3, <1>7, <1>8, <1>9, <1>10, <1>11 DEF VersionsOf, NotAhead
  <1>13. UnseenWhenDeleted(m)'
    <2>1. SUFFICES ASSUME route[m] = {}, changed[m] = 1
                   PROVE  /\ ~(cache'[m] # NoItem /\ cache'[m].version = version[m])
                          /\ \A i \in DOMAIN inbox' :
                                Answer(i, m)' => inbox'[i].version # version[m]
                          /\ \A i \in DOMAIN requests' :
                                Question(i, m)' => requests'[i].version # version[m]
      BY <1>3 DEF UnseenWhenDeleted, Has
    <2>2. /\ \A i \in DOMAIN inbox : Answer(i, m) => inbox[i].version # version[m]
          /\ \A i \in DOMAIN requests : Question(i, m) => requests[i].version # version[m]
      BY <2>1 DEF VersionsOf, UnseenWhenDeleted
    <2>3. ~(cache'[m] # NoItem /\ cache'[m].version = version[m])
      BY <1>2, <1>7, <2>2
    <2>4. QED
      BY <1>8, <1>9, <1>10, <2>2, <2>3
  <1>14. KeptWhilePresent(m)'
    <2>1. SUFFICES ASSUME route[m] # {}
                   PROVE  /\ cache'[m] # NoItem /\ cache'[m].version = version[m] =>
                                \A i \in DOMAIN inbox' :
                                   Answer(i, m)' => inbox'[i].version = version[m]
                          /\ \A i, j \in DOMAIN inbox' :
                                /\ i < j /\ Answer(i, m)' /\ Answer(j, m)'
                                /\ inbox'[i].version = version[m]
                                => inbox'[j].version = version[m]
                          /\ \A i \in DOMAIN requests' :
                                Question(i, m)' /\ requests'[i].version = version[m]
                                => cache'[m] # NoItem /\ cache'[m].version = version[m]
      BY <1>3 DEF KeptWhilePresent, Has
    <2>2. /\ Has(m, version[m]) =>
                \A i \in DOMAIN inbox : Answer(i, m) => inbox[i].version = version[m]
          /\ \A i, j \in DOMAIN inbox :
                i < j /\ Answer(i, m) /\ Answer(j, m) /\ inbox[i].version = version[m]
                   => inbox[j].version = version[m]
          /\ \A i \in DOMAIN requests :
                Question(i, m) /\ requests[i].version = version[m] => Has(m, version[m])
      BY <2>1 DEF VersionsOf, KeptWhilePresent
    <2>3. ASSUME cache'[m] # NoItem, cache'[m].version = version[m],
                 NEW i \in DOMAIN inbox', Answer(i, m)'
          PROVE  inbox'[i].version = version[m]
      <3>1. p.version = version[m]
        BY <1>7, <2>3
      <3>2. QED
        BY <1>2, <1>8, <2>2, <2>3, <3>1
    <2>4. ASSUME NEW i \in DOMAIN inbox', NEW j \in DOMAIN inbox', i < j,
                 Answer(i, m)', Answer(j, m)', inbox'[i].version = version[m]
          PROVE  inbox'[j].version = version[m]
      <3>1. /\ i + 1 \in DOMAIN inbox /\ inbox'[i] = inbox[i + 1] /\ Answer(i + 1, m)
            /\ j + 1 \in DOMAIN inbox /\ inbox'[j] = inbox[j + 1] /\ Answer(j + 1, m)
            /\ i + 1 < j + 1
        BY <1>8, <2>4
      <3>2. QED
        BY <2>2, <2>4, <3>1
    <2>5. ASSUME NEW i \in DOMAIN requests', Question(i, m)',
                 requests'[i].version = version[m]
          PROVE  cache'[m] # NoItem /\ cache'[m].version = version[m]
      <3>1. Has(m, version[m])
        BY <1>9, <1>10, <2>2, <2>5
      <3>2. p.version = version[m]
        BY <1>2, <2>2, <3>1
      <3>3. QED
        BY <1>3, <1>7, <3>2
    <2>6. QED
      BY <2>3, <2>4, <2>5
  <1>15. EmptyMeetsItsVersion(m)'
    <2>1. ASSUME NEW j \in DOMAIN inbox', Answer(j, m)', inbox'[j].version # Absent,
                 inbox'[j].hosts = {}
          PROVE  /\ cache'[m] # NoItem /\ cache'[m].version = inbox'[j].version
                 /\ \A i \in DOMAIN inbox' :
                       i < j /\ Answer(i, m)' => inbox'[i].version = inbox'[j].version
      <3>1. /\ j + 1 \in DOMAIN inbox /\ inbox'[j] = inbox[j + 1] /\ Answer(j + 1, m)
            /\ 1 < j + 1 /\ j \in Nat
        BY <1>8, <2>1
      <3>2. \A i \in DOMAIN inbox :
               i < j + 1 /\ Answer(i, m) => inbox[i].version = inbox[j + 1].version
        BY <2>1, <3>1 DEF VersionsOf, EmptyMeetsItsVersion
      <3>3. p.version = inbox'[j].version
        BY <1>2, <3>1, <3>2
      <3>4. ASSUME NEW i \in DOMAIN inbox', i < j, Answer(i, m)'
            PROVE  inbox'[i].version = inbox'[j].version
        <4>1. /\ i + 1 \in DOMAIN inbox /\ inbox'[i] = inbox[i + 1] /\ Answer(i + 1, m)
              /\ i + 1 < j + 1
          BY <1>8, <3>1, <3>4
        <4>2. QED
          BY <3>1, <3>2, <4>1
      <3>5. QED
        BY <1>7, <2>1, <3>3, <3>4
    <2>2. QED
      BY <2>1 DEF EmptyMeetsItsVersion, Has
  <1>16. item # NoItem => item.hosts # <<>>
    <2>1. p.version # Absent /\ p.hosts = {} => Has(m, p.version)
      BY <1>2 DEF VersionsOf, EmptyMeetsItsVersion
    <2>2. cache[m] # NoItem => cache[m].hosts # <<>>
      BY DEF Stocked
    <2>3. QED
      BY <1>1, <1>4, <1>5, <2>1, <2>2, UpdatedFacts DEF Has
  <1>17. ret' # Garbage /\ (cache'[m] # NoItem => cache'[m].hosts # <<>>)
    BY <1>6, <1>16 DEF Served
  <1>18. QED
    BY <1>12, <1>13, <1>14, <1>15, <1>17 DEF VersionsOf

\* The agent answers the first request r with a route.
LEMMA AgentServeVersions ==
  ASSUME TypeOK, TypeOK', NEW m \in Mods, VersionsOf(m), AgentServe, NEW r \in Requests,
         requests # <<>>, r = Head(requests), requests' = Tail(requests),
         r.kind = "cache", inbox' = Append(inbox, CacheAnswer(r))
  PROVE  VersionsOf(m)'
  <1>1. UNCHANGED <<clientVars, agentVars>> /\ cache' = cache /\ SameItem(m)
    BY SameItems DEF AgentServe, clientVars
  <1>2. PICK p \in Packets : p = CacheAnswer(r)
    BY CacheAnswerFacts
  <1>3. inbox \in Seq(Packets) /\ requests \in Seq(Requests) /\ inbox' = Append(inbox, p)
    BY <1>2 DEF TypeOK
  <1>4. CASE r.mod # m
    <2>1. p.mod # m
      BY <1>2, <1>4, CacheAnswerFacts
    <2>2. KeptFor(m, inbox', inbox) /\ KeptFor(m, requests', requests)
      BY <1>3, <2>1, KeptAppend, RequestsKept
    <2>3. QuietFor(m)
      BY <1>1, <2>2 DEF QuietFor, agentVars
    <2>4. QED
      BY <2>3, QuietVersions
  <1>5. CASE r.mod = m
    <2>1. /\ p.kind = "cache" /\ p.mod = m /\ p.hosts \subseteq route[m]
          /\ route[m] = {} => p.version = Absent
          /\ route[m] # {} => p.version = version[m]
          /\ route[m] # {} /\ p.hosts = {} => r.version = version[m]
      BY <1>2, <1>5, CacheAnswerFacts
    <2>2. /\ version'[m] = version[m] /\ route'[m] = route[m] /\ changed'[m] = changed[m]
          /\ version[m] \in Nat /\ version[m] # Absent /\ Absent < version[m]
      BY <1>1, QueueTypes DEF agentVars, Absent
    <2>3. /\ DOMAIN inbox' = 1..(Len(inbox) + 1) /\ DOMAIN inbox = 1..Len(inbox)
          /\ \A i \in 1..Len(inbox) : inbox'[i] = inbox[i]
          /\ inbox'[Len(inbox) + 1] = p /\ Len(inbox) \in Nat
      BY <1>3, AppendFacts
    <2>4. \A i \in DOMAIN inbox' :
             \/ /\ i \in DOMAIN inbox /\ inbox'[i] = inbox[i]
                /\ Answer(i, m)' => Answer(i, m)
             \/ inbox'[i] = p /\ \A j \in DOMAIN inbox' : ~(i < j)
      <3>1. \A i \in DOMAIN inbox' :
               \/ i \in DOMAIN inbox /\ inbox'[i] = inbox[i]
               \/ inbox'[i] = p /\ \A j \in DOMAIN inbox' : ~(i < j)
        BY <2>3
      <3>2. QED
        BY <3>1 DEF Answer
    <2>5. PICK l \in Nat : \A i \in DOMAIN requests' :
             Question(i, m)' => i + l \in DOMAIN requests /\ requests'[i] = requests[i + l]
      <3>1. KeptFor(m, requests', requests)
        BY RequestsKept
      <3>2. QED
        BY <3>1 DEF KeptFor, Question
    <2>6. \A i \in DOMAIN requests' : Question(i, m)' => Question(i + l, m)
      BY <2>5 DEF Question
    <2>7. 1 \in DOMAIN requests /\ r = requests[1] /\ Question(1, m)
      <3>1. 1 \in DOMAIN requests /\ r = requests[1]
        BY <1>3, TailFacts
      <3>2. QED
        BY <1>5, <3>1 DEF Question
    <2>8. NotAhead(m)'
      <3>1. \A i \in DOMAIN inbox' : Answer(i, m)' => inbox'[i].version <= version[m]
        <4>1. p.version <= version[m]
          BY <2>1, <2>2 DEF Absent
        <4>2. QED
          BY <2>4, <4>1 DEF VersionsOf, NotAhead
      <3>2. \A i \in DOMAIN requests' : Question(i, m)' => requests'[i].version <= version[m]
        BY <2>5, <2>6 DEF VersionsOf, NotAhead
      <3>3. cache[m] # NoItem => cache[m].version <= version[m]
        BY DEF VersionsOf, NotAhead
      <3>4. QED
        BY <1>1, <2>2, <3>1, <3>2, <3>3 DEF NotAhead
    <2>9. UnseenWhenDeleted(m)'
      <3> SUFFICES ASSUME route[m] = {}, changed[m] = 1
                   PROVE  /\ ~Has(m, version[m])'
                          /\ \A i \in DOMAIN inbox' : Answer(i, m)' => inbox'[i].version # version[m]
                          /\ \A i \in DOMAIN requests' :
                                Question(i, m)' => requests'[i].version # version[m]
        BY <2>2 DEF UnseenWhenDeleted
      <3>1. /\ ~Has(m, version[m])
            /\ \A i \in DOMAIN inbox : Answer(i, m) => inbox[i].version # version[m]
            /\ \A i \in DOMAIN requests : Question(i, m) => requests[i].version # version[m]
        BY DEF VersionsOf, UnseenWhenDeleted
      <3>2. ~Has(m, version[m])'
        BY <1>1, <2>2, <3>1 DEF Has
      <3>3. p.version # version[m]
        BY <2>1, <2>2
      <3>4. \A i \in DOMAIN inbox' : Answer(i, m)' => inbox'[i].version # version[m]
        BY <2>4, <3>1, <3>3
      <3>5. \A i \in DOMAIN requests' : Question(i, m)' => requests'[i].version # version[m]
        BY <2>5, <2>6, <3>1
      <3>6. QED
        BY <3>2, <3>4, <3>5
    <2>10. KeptWhilePresent(m)'
      <3>1. CASE route[m] = {}
        BY <2>2, <3>1 DEF KeptWhilePresent
      <3>2. CASE route[m] # {}
        <4>1. /\ Has(m, version[m]) =>
                    \A i \in DOMAIN inbox : Answer(i, m) => inbox[i].version = version[m]
              /\ \A i, j \in DOMAIN inbox :
                    i < j /\ Answer(i, m) /\ Answer(j, m) /\ inbox[i].version = version[m]
                       => inbox[j].version = version[m]
              /\ \A i \in DOMAIN requests :
                    Question(i, m) /\ requests[i].version = version[m]
                       => Has(m, version[m])
          BY <3>2 DEF VersionsOf, KeptWhilePresent
        <4>2. p.version = version[m]
          BY <2>1, <3>2
        <4>3. Has(m, version[m]) =>
                 \A i \in DOMAIN inbox' : Answer(i, m)' => inbox'[i].version = version[m]
          BY <2>4, <4>1, <4>2
        <4>4. ASSUME NEW i \in DOMAIN inbox', NEW j \in DOMAIN inbox', i < j,
                     Answer(i, m)', Answer(j, m)', inbox'[i].version = version[m]
              PROVE  inbox'[j].version = version[m]
          <5>1. i \in DOMAIN inbox /\ inbox'[i] = inbox[i] /\ Answer(i, m)
            BY <2>4, <4>4
          <5>2. QED
            BY <2>4, <4>1, <4>2, <4>4, <5>1
        <4>5. \A i \in DOMAIN requests' :
                 Question(i, m)' /\ requests'[i].version = version[m] => Has(m, version[m])
          BY <2>5, <2>6, <4>1
        <4>6. QED
          BY <1>1, <2>2, <4>3, <4>4, <4>5 DEF KeptWhilePresent, Has
      <3>3. QED
        BY <3>1, <3>2
    <2>11. EmptyMeetsItsVersion(m)'
      <3>1. ASSUME NEW j \in DOMAIN inbox', Answer(j, m)', inbox'[j].version # Absent,
                   inbox'[j].hosts = {}
            PROVE  /\ cache[m] # NoItem /\ cache[m].version = inbox'[j].version
                   /\ \A i \in DOMAIN inbox' :
                         i < j /\ Answer(i, m)' => inbox'[i].version = inbox'[j].version
        <4>1. CASE inbox'[j] = p /\ \A i \in DOMAIN inbox' : ~(j < i)
          <5>1. route[m] # {} /\ p.version = version[m] /\ r.version = version[m]
            BY <2>1, <3>1, <4>1
          <5>2. Has(m, version[m])
            BY <2>7, <5>1 DEF VersionsOf, KeptWhilePresent
          <5>3. \A i \in DOMAIN inbox : Answer(i, m) => inbox[i].version = version[m]
            BY <5>1, <5>2 DEF VersionsOf, KeptWhilePresent
          <5>4. QED
            BY <2>4, <4>1, <5>1, <5>2, <5>3 DEF Has
        <4>2. CASE j \in DOMAIN inbox /\ inbox'[j] = inbox[j] /\ Answer(j, m)
          BY <2>4, <3>1, <4>2 DEF VersionsOf, EmptyMeetsItsVersion, Has
        <4>3. QED
          BY <2>4, <3>1, <4>1, <4>2
      <3>2. QED
        BY <1>1, <3>1 DEF EmptyMeetsItsVersion, Has
    <2>12. QED
      BY <2>8, <2>9, <2>10, <2>11 DEF VersionsOf
  <1>6. QED
    BY <1>4, <1>5

\* A route changes for the first or the second time in a second, or its hosts do.
LEMMA AgentChangeVersions ==
  ASSUME TypeOK, TypeOK', NEW n \in Mods, VersionsOf(n),
         NEW m \in Mods, NEW S \in SUBSET HostsOf(m), NEW ov \in BOOLEAN,
         AgentChange(m, S, ov), ~hasty'
  PROVE  VersionsOf(n)'
  <1>1. UNCHANGED <<clientVars, netVars>> /\ SameItem(n) /\ UNCHANGED <<cache, inbox, requests>>
    BY SameItems DEF AgentChange, clientVars, netVars
  <1>2. /\ \A i : Answer(i, n)' <=> Answer(i, n)
        /\ \A i : Question(i, n)' <=> Question(i, n)
    BY <1>1 DEF Answer, Question
  <1>3. route' = [route EXCEPT ![m] = S] /\ route \in [Mods -> SUBSET Hosts]
    BY DEF AgentChange, TypeOK
  <1>4. CASE version'[n] = version[n] /\ changed'[n] = changed[n] /\ route'[n] = route[n]
    <2>1. KeptFor(n, inbox', inbox) /\ KeptFor(n, requests', requests)
      BY <1>1, InboxKept, RequestsKept
    <2>2. QuietFor(n)
      BY <1>1, <1>4, <2>1 DEF QuietFor
    <2>3. QED
      BY <2>2, QuietVersions
  <1>5. CASE /\ n = m
             /\ version' = [version EXCEPT ![m] = IF changed[m] = 0 THEN @ + 1 ELSE @]
             /\ changed' = [changed EXCEPT ![m] = @ + 1]
             /\ hasty' = (hasty \/ changed[m] >= 2)
    <2>1. /\ changed[n] \in {0, 1} /\ changed'[n] = changed[n] + 1
          /\ changed[n] = 0 => version'[n] = version[n] + 1
          /\ changed[n] = 1 => version'[n] = version[n]
          /\ version[n] \in Nat
      <3>1. changed \in [Mods -> 0..MaxChange] /\ version \in [Mods -> 0..MaxChange]
            /\ MaxChange \in Nat
        BY DEF TypeOK
      <3>2. ~(changed[m] >= 2)
        BY <1>5, Zenon
      <3>3. /\ changed'[n] = changed[n] + 1 /\ changed[n] \in Nat
            /\ changed[n] = 0 => version'[n] = version[n] + 1
            /\ changed[n] # 0 => version'[n] = version[n]
            /\ version[n] \in Nat
        BY <1>5, <3>1
      <3>4. QED
        BY <1>5, <3>2, <3>3
    <2>2. EmptyMeetsItsVersion(n)'
      BY <1>1, <1>2 DEF VersionsOf, EmptyMeetsItsVersion, Has
    <2>3. /\ cache[n] # NoItem => cache[n].version \in Int
          /\ \A i \in DOMAIN inbox : Answer(i, n) => inbox[i].version \in Int
          /\ \A i \in DOMAIN requests : Question(i, n) => requests[i].version \in Int
      <3>1. cache[n] # NoItem => cache[n].version \in Int
        <4>1. cache[n] \in Item \/ cache[n] = NoItem
          BY DEF TypeOK
        <4>2. QED
          BY <4>1, ItemFields
      <3>2. \A i \in DOMAIN inbox : Answer(i, n) => inbox[i].version \in Int
        BY QueueTypes, PacketFields DEF Answer
      <3>3. \A i \in DOMAIN requests : Question(i, n) => requests[i].version \in Int
        BY QueueTypes DEF Question, Requests
      <3>4. QED
        BY <3>1, <3>2, <3>3
    <2>4. CASE changed[n] = 0
      <3>1. /\ cache[n] # NoItem => cache[n].version < version'[n]
            /\ \A i \in DOMAIN inbox : Answer(i, n) => inbox[i].version < version'[n]
            /\ \A i \in DOMAIN requests : Question(i, n) => requests[i].version < version'[n]
        BY <2>1, <2>3, <2>4 DEF VersionsOf, NotAhead
      <3>2. NotAhead(n)'
        BY <1>1, <1>2, <2>1, <2>3, <3>1 DEF NotAhead
      <3>3. /\ ~(cache[n] # NoItem /\ cache[n].version = version'[n])
            /\ \A i \in DOMAIN inbox : Answer(i, n) => inbox[i].version # version'[n]
            /\ \A i \in DOMAIN requests : Question(i, n) => requests[i].version # version'[n]
        BY <2>1, <2>3, <3>1
      <3>4. UnseenWhenDeleted(n)' /\ KeptWhilePresent(n)'
        BY <1>1, <1>2, <3>3 DEF UnseenWhenDeleted, KeptWhilePresent, Has
      <3>5. QED
        BY <2>2, <3>2, <3>4 DEF VersionsOf
    <2>5. CASE changed[n] = 1
      <3>1. NotAhead(n)'
        BY <1>1, <1>2, <2>1, <2>5 DEF VersionsOf, NotAhead
      <3>2. UnseenWhenDeleted(n)'
        BY <2>1, <2>5 DEF UnseenWhenDeleted
      <3>3. KeptWhilePresent(n)'
        BY <1>1, <1>2, <2>1, <2>5 DEF VersionsOf, UnseenWhenDeleted, KeptWhilePresent, Has
      <3>4. QED
        BY <2>2, <3>1, <3>2, <3>3 DEF VersionsOf
    <2>6. QED
      BY <2>1, <2>4, <2>5
  <1>6. CASE UNCHANGED <<version, changed, hasty>> /\ S = route[m]
    BY <1>3, <1>4, <1>6
  <1>7. CASE n # m
    <2>1. changed \in [Mods -> 0..MaxChange] /\ version \in [Mods -> 0..MaxChange]
      BY DEF TypeOK
    <2>2. QED
      BY <1>3, <1>4, <1>7, <2>1 DEF AgentChange
  <1>8. QED
    BY <1>5, <1>6, <1>7 DEF AgentChange

VInv == ~hasty => Versions /\ Stocked

LEMMA VersionsAre == Versions <=> \A m \in Mods : VersionsOf(m)
  BY DEF Versions, VersionsOf

LEMMA VersionsAreNext == Versions' <=> \A m \in Mods : VersionsOf(m)'
  BY DEF Versions, VersionsOf

LEMMA QuietKeeps ==
  ASSUME TypeOK, TypeOK', VInv, Quiet
  PROVE  VInv'
  <1> SUFFICES ASSUME ~hasty' PROVE Versions' /\ Stocked'
    BY DEF VInv
  <1>1. ~hasty
    BY DEF Quiet
  <1>2. Versions /\ Stocked
    BY <1>1 DEF VInv
  <1>3. Versions'
    BY <1>2, QuietVersions, VersionsAre, VersionsAreNext DEF Quiet
  <1>4. Stocked'
    BY <1>2 DEF Stocked, Quiet, QuietFor, SameItem, NoNewGarbage
  <1>5. QED
    BY <1>3, <1>4

LEMMA GetHostKeeps ==
  ASSUME TypeOK, TypeOK', VInv, NEW m \in Mods, ApiGetHost(m)
  PROVE  VInv'
  <1>1. CASE Quiet
    BY <1>1, QuietKeeps
  <1>2. CASE /\ \A n \in Mods : SameItem(n)
             /\ UNCHANGED <<inbox, agentVars>> /\ ret' = Pending
             /\ \E op \in {"fetch", "refresh"}, v \in -1..MaxChange :
                   Query(m, op, v) /\ (v = Absent \/ Has(m, v))
    <2> SUFFICES ASSUME ~hasty' PROVE Versions' /\ Stocked'
      BY DEF VInv
    <2>1. Versions /\ Stocked
      BY <1>2 DEF VInv, agentVars
    <2>2. PICK op \in {"fetch", "refresh"}, v \in -1..MaxChange :
             Query(m, op, v) /\ (v = Absent \/ Has(m, v))
      BY <1>2
    <2>3. ASSUME NEW n \in Mods PROVE VersionsOf(n)'
      <3>1. VersionsOf(n)
        BY <2>1, VersionsAre
      <3>2. CASE n = m
        BY <1>2, <2>2, <3>1, <3>2, QueryVersions
      <3>3. CASE n # m
        <4>1. KeptFor(n, requests', requests) /\ KeptFor(n, inbox', inbox)
          BY <1>2, <2>2, <3>3, QueryKept, InboxKept
        <4>2. QuietFor(n)
          BY <1>2, <4>1 DEF QuietFor, agentVars
        <4>3. QED
          BY <3>1, <4>2, QuietVersions
      <3>4. QED
        BY <3>2, <3>3
    <2>4. Stocked'
      BY <1>2, <2>1, NotGarbage DEF Stocked, SameItem
    <2>5. QED
      BY <2>3, <2>4, VersionsAreNext
  <1>3. QED
    BY <1>1, <1>2, GetHostQuiet

LEMMA RecvRoute4CacheKeeps ==
  ASSUME TypeOK, TypeOK', VInv, RecvRoute4Cache
  PROVE  VInv'
  <1>1. CASE Quiet
    BY <1>1, QuietKeeps
  <1>2. ASSUME NEW m \in Mods, NEW p \in Packets, p = Head(inbox), Take, RouteFor(p, m),
               call.age \in 0..1, Served(m, Updated(cache[m], p)), UNCHANGED agentVars
        PROVE  VInv'
    <2> SUFFICES ASSUME ~hasty' PROVE Versions' /\ Stocked'
      BY DEF VInv
    <2>1. Versions /\ Stocked
      BY <1>2 DEF VInv, agentVars
    <2>2. /\ VersionsOf(m)' /\ ret' # Garbage
          /\ cache'[m] # NoItem => cache'[m].hosts # <<>>
      BY <1>2, <2>1, RecvVersions, VersionsAre
    <2>3. /\ \A n \in Mods : n # m => cache'[n] = cache[n]
          /\ requests' = requests \/ Asked
      BY <1>2 DEF Served
    <2>4. ASSUME NEW n \in Mods, n # m PROVE VersionsOf(n)'
      <3>1. SameItem(n)
        BY <2>3, <2>4 DEF SameItem
      <3>2. KeptFor(n, requests', requests) /\ KeptFor(n, inbox', inbox)
        BY <1>2, <2>3, RequestsKept, InboxKept DEF Take
      <3>3. QuietFor(n)
        BY <1>2, <3>1, <3>2 DEF QuietFor, agentVars
      <3>4. VersionsOf(n)
        BY <2>1, VersionsAre
      <3>5. QED
        BY <3>3, <3>4, QuietVersions
    <2>5. Stocked'
      BY <2>1, <2>2, <2>3 DEF Stocked
    <2>6. QED
      BY <2>2, <2>4, <2>5, VersionsAreNext
  <1>3. QED
    BY <1>1, <1>2, RecvRoute4CacheQuiet

LEMMA AgentServeKeeps ==
  ASSUME TypeOK, TypeOK', VInv, AgentServe
  PROVE  VInv'
  <1>1. CASE Quiet
    BY <1>1, QuietKeeps
  <1>2. ASSUME NEW r \in Requests, requests # <<>>, r = Head(requests),
               requests' = Tail(requests), r.kind = "cache",
               inbox' = Append(inbox, CacheAnswer(r))
        PROVE  VInv'
    <2> SUFFICES ASSUME ~hasty' PROVE Versions' /\ Stocked'
      BY DEF VInv
    <2>1. UNCHANGED <<cache, ret, hasty>>
      BY DEF AgentServe, clientVars, agentVars
    <2>2. Versions /\ Stocked
      BY <2>1 DEF VInv
    <2>3. \A n \in Mods : VersionsOf(n)'
      BY <1>2, <2>2, AgentServeVersions, VersionsAre
    <2>4. QED
      BY <2>1, <2>2, <2>3, VersionsAreNext DEF Stocked
  <1>3. QED
    BY <1>1, <1>2, AgentServeQuiet

LEMMA AgentChangeKeeps ==
  ASSUME TypeOK, TypeOK', VInv, NEW m \in Mods, NEW S \in SUBSET HostsOf(m),
         NEW ov \in BOOLEAN, AgentChange(m, S, ov)
  PROVE  VInv'
  <1> SUFFICES ASSUME ~hasty' PROVE Versions' /\ Stocked'
    BY DEF VInv
  <1>1. UNCHANGED <<cache, ret>>
    BY DEF AgentChange, clientVars
  <1>2. ~hasty
    BY DEF AgentChange
  <1>3. Versions /\ Stocked
    BY <1>2 DEF VInv
  <1>4. \A n \in Mods : VersionsOf(n)'
    BY <1>3, AgentChangeVersions, VersionsAre
  <1>5. QED
    BY <1>1, <1>3, <1>4, VersionsAreNext DEF Stocked

LEMMA VersionsNext == TypeOK /\ TypeOK' /\ VInv /\ [Next]_vars => VInv'
  <1> SUFFICES ASSUME TypeOK, TypeOK', VInv, [Next]_vars PROVE VInv'
    OBVIOUS
  <1>1. ASSUME NEW m \in Mods,
               \/ ApiGetHostStatic(m) \/ ApiGetRoute(m)
               \/ \E h \in HostsOf(m), r \in {0, 1} : ApiReportRes(m, h, r)
        PROVE  VInv'
    BY <1>1, GetHostStaticQuiet, GetRouteQuiet, ReportResQuiet, QuietKeeps
  <1>2. ASSUME RecvHost \/ RecvRoute \/ Timeout \/ Exit \/ Lose \/ Tick PROVE VInv'
    BY <1>2, RecvHostQuiet, RecvRouteQuiet, TimeoutQuiet, ExitQuiet, LoseQuiet,
       TickQuiet, QuietKeeps
  <1>3. ASSUME UNCHANGED vars PROVE VInv'
    BY <1>3, StutterQuiet, QuietKeeps
  <1>4. QED
    BY <1>1, <1>2, <1>3, GetHostKeeps, RecvRoute4CacheKeeps, AgentServeKeeps,
       AgentChangeKeeps DEF Next

LEMMA RestInit == Init => OInv /\ VInv
  <1> SUFFICES ASSUME Init PROVE OInv /\ VInv
    OBVIOUS
  <1>1. /\ \A m \in Mods : cache[m] = NoItem /\ route[m] \subseteq HostsOf(m)
        /\ \A m \in Mods : version[m] = 0 /\ changed[m] = 0
        /\ inbox = <<>> /\ requests = <<>> /\ ret = NoExist
    BY DEF Init
  <1>2. DOMAIN inbox = {} /\ DOMAIN requests = {}
    BY <1>1
  <1>3. OInv
    BY <1>1, <1>2 DEF OInv, OwnHosts, OwnAnswers
  <1>4. Stocked
    BY <1>1, NotGarbage DEF Stocked
  <1>5. ASSUME NEW m \in Mods PROVE VersionsOf(m)
    BY <1>1, <1>2 DEF VersionsOf, NotAhead, UnseenWhenDeleted, KeptWhilePresent,
       EmptyMeetsItsVersion, Has
  <1>6. QED
    BY <1>3, <1>4, <1>5, VersionsAre DEF VInv

-----------------------------------------------------------------------------
(* The theorems.                                                            *)

LEMMA Parts == IInv <=> TInv /\ RInv /\ OInv /\ VInv
  BY DEF IInv, TInv, RInv, OInv, VInv

LEMMA PartsNext == IInv' <=> TInv' /\ RInv' /\ OInv' /\ VInv'
  BY DEF IInv, TInv, RInv, OInv, VInv

LEMMA Inductive == Spec => []IInv
  <1>1. Init => IInv
    BY TypeInit, OrderInit, RestInit, Parts
  <1>2. IInv /\ [Next]_vars => IInv'
    <2>1. ASSUME IInv, [Next]_vars PROVE IInv'
      <3>1. TInv /\ RInv /\ OInv /\ VInv
        BY <2>1, Parts
      <3>2. TInv'
        BY <2>1, <3>1, TypeNext
      <3>3. TypeOK /\ TypeOK'
        BY <3>1, <3>2 DEF TInv
      <3>4. RInv' /\ OInv' /\ VInv'
        BY <2>1, <3>1, <3>3, OrderNext, OwnNext, VersionsNext
      <3>5. QED
        BY <3>2, <3>4, PartsNext
    <2>2. QED
      BY <2>1
  <1>3. QED
    BY <1>1, <1>2, PTL DEF Spec

\* The state of the client, of its socket and of the agent stays well formed:
\* the sequence number wraps, calls and packets have their fields.
THEOREM ApiTypeCorrect == Spec => []TypeOK
  <1>1. IInv => TypeOK
    BY DEF IInv
  <1>2. QED
    BY <1>1, Inductive, PTL

\* elbClient sends the results of a host in the order they were made: what is
\* not sent is what the cache holds for the host, and that is successes only,
\* through refreshes, overloads, deleted routes and the end of the client.
THEOREM ApiKeepsOrder == Spec => []OrderKept
  <1>1. IInv => OrderKept
    BY DEF IInv
  <1>2. QED
    BY <1>1, Inductive, PTL

\* getRoute4Cache lets no late answer for another module on the socket into the
\* cache of this one.
THEOREM ApiOwnHosts == Spec => []OwnHosts
  <1>1. IInv => OwnHosts
    BY DEF IInv
  <1>2. QED
    BY <1>1, Inductive, PTL

\* CacheUnit::getHost is called on no empty list, for any number of packets lost
\* or late, unless a route has changed three times in one second.
THEOREM ApiFrontExists == Spec => []FrontExists
  <1>1. IInv => FrontExists
    BY DEF IInv, Stocked, FrontExists
  <1>2. QED
    BY <1>1, Inductive, PTL

==============================================================================
