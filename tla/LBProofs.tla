------------------------------ MODULE LBProofs ------------------------------
(***************************************************************************)
(* Proofs about LB for all constants: the two lists partition the route,   *)
(* no host is at a limit it should have been judged on, no judgement       *)
(* leaves statistics past their time, scheduling is round robin, and LB    *)
(* keeps the promise of Dispatcher.                                        *)
(***************************************************************************)
EXTENDS LB, SequenceTheorems, TLAPS

-----------------------------------------------------------------------------
(* The load of one host.                                                   *)

\* A well-formed record that is below the limits.
Good(hi) == hi \in HI /\ BelowLimit(hi)

LEMMA NewHIGood == ASSUME NEW t \in Nat PROVE Good(NewHI(t)) /\ ~NewHI(t).overload
  BY LimitsAssumption DEF Good, NewHI, HI, BelowLimit

LEMMA ResetIdleGood ==
  ASSUME NEW hi \in HI, hi.windErrCnt < WindErrLim, NEW t \in Nat
  PROVE  Good(ResetIdle(hi, t)) /\ ~ResetIdle(hi, t).overload
<1>1. NewHI(t) \in HI /\ ~NewHI(t).overload /\ NewHI(t).continErr = 0
  BY LimitsAssumption DEF NewHI, HI
<1>2. hi.windErrCnt \in Nat
  BY DEF HI
<1>3. /\ ResetIdle(hi, t) \in HI
      /\ ResetIdle(hi, t).overload = NewHI(t).overload
      /\ ResetIdle(hi, t).continErr = NewHI(t).continErr
      /\ ResetIdle(hi, t).windErrCnt = hi.windErrCnt
  BY <1>1, <1>2 DEF ResetIdle, HI
<1> QED
  BY <1>1, <1>3, LimitsAssumption DEF Good, BelowLimit

LEMMA SetOverloadGood ==
  ASSUME NEW hi \in HI, NEW t \in Nat
  PROVE  Good(SetOverload(hi, t))
  BY LimitsAssumption DEF Good, SetOverload, HI, BelowLimit

\* The tail of a report keeps a record good.
LEMMA AgeCheckGood ==
  ASSUME NEW hi, Good(hi), NEW t \in Nat
  PROVE  Good(AgeCheck(hi, t))
<1> DEFINE c == [hi EXCEPT !.windErrCnt = BadWindows(hi)]
<1>1. hi \in HI /\ SetOverload(hi, t) \in HI /\ Good(SetOverload(hi, t))
  BY SetOverloadGood DEF Good
<1>2. ASSUME ~hi.overload, ~CheckWindow(hi) PROVE Good(ResetIdle(c, t))
  <2>1. c \in HI
    BY <1>1 DEF HI, BadWindows
  <2>2. c.windErrCnt < WindErrLim
    BY <1>1, <1>2, LimitsAssumption DEF CheckWindow, BadWindows, HI
  <2> QED BY <2>1, <2>2, ResetIdleGood
<1>3. ASSUME hi.overload PROVE Good(ResetIdle(hi, t))
  <2>1. hi.windErrCnt < WindErrLim
    BY <1>3, LimitsAssumption DEF Good, BelowLimit
  <2> QED BY <1>1, <2>1, ResetIdleGood
<1> QED
  BY <1>1, <1>2, <1>3 DEF AgeCheck

\* needErr and needSucc are natural numbers.
LEMMA NeededType ==
  ASSUME NEW rate \in 1..(RateUnit - 1), NEW other \in Nat
  PROVE  Needed(rate, other) \in Nat
<1>1. RateUnit - rate \in Nat \ {0}
  BY RatesAssumption
<1>2. rate * other \in Nat
  OBVIOUS
<1>3. \A a \in Nat, b \in Nat \ {0} : a \div b \in Nat
  BY SMT
<1> QED
  BY <1>1, <1>2, <1>3 DEF Needed

\* Counting results changes counters and nothing else.
Counts(hi, c) ==
    c \in HI /\ c.overload = hi.overload /\ c.windErrCnt = hi.windErrCnt

LEMMA CountOkCounts ==
  ASSUME NEW hi \in HI PROVE Counts(hi, CountOk(hi)) /\ CountOk(hi).continErr = 0
<1>1. ASSUME NEW a \in Nat, NEW b \in Nat, NEW c \in Nat
      PROVE  LET d == [hi EXCEPT !.succ = a, !.rSucc = b, !.continSucc = c,
                                 !.continErr = 0]
             IN  Counts(hi, d) /\ d.continErr = 0
  BY DEF Counts, HI
<1>2. hi.succ + 1 \in Nat /\ hi.rSucc + 1 \in Nat /\ hi.continSucc + 1 \in Nat
  BY DEF HI
<1> QED BY <1>1, <1>2 DEF CountOk

LEMMA CountErrCounts ==
  ASSUME NEW hi \in HI PROVE Counts(hi, CountErr(hi)) /\ CountErr(hi).continSucc = 0
<1>1. ASSUME NEW a \in Nat, NEW b \in Nat, NEW c \in Nat
      PROVE  LET d == [hi EXCEPT !.err = a, !.rErr = b, !.continSucc = 0,
                                 !.continErr = c]
             IN  Counts(hi, d) /\ d.continSucc = 0
  BY DEF Counts, HI
<1>2. hi.err + 1 \in Nat /\ hi.rErr + 1 \in Nat /\ hi.continErr + 1 \in Nat
  BY DEF HI
<1> QED BY <1>1, <1>2 DEF CountErr

LEMMA CountSuccsCounts ==
  ASSUME NEW hi \in HI, NEW n \in Nat
  PROVE  /\ Counts(hi, CountSuccs(hi, n))
         /\ CountSuccs(hi, n).continErr = 0
<1>1. ASSUME NEW a \in Nat, NEW b \in Nat
      PROVE  LET d == [hi EXCEPT !.rSucc = a, !.continSucc = b, !.continErr = 0]
             IN  Counts(hi, d) /\ d.continErr = 0
  BY DEF Counts, HI
<1>2. hi.rSucc + n \in Nat /\ hi.continSucc + n \in Nat
  BY DEF HI
<1> QED BY <1>1, <1>2 DEF CountSuccs

LEMMA CountErrsCounts ==
  ASSUME NEW hi \in HI, NEW n \in Nat
  PROVE  /\ Counts(hi, CountErrs(hi, n))
         /\ CountErrs(hi, n).continSucc = 0
<1>1. ASSUME NEW a \in Nat, NEW b \in Nat
      PROVE  LET d == [hi EXCEPT !.rErr = a, !.continSucc = 0, !.continErr = b]
             IN  Counts(hi, d) /\ d.continSucc = 0
  BY DEF Counts, HI
<1>2. hi.rErr + n \in Nat /\ hi.continErr + n \in Nat
  BY DEF HI
<1> QED BY <1>1, <1>2 DEF CountErrs

LEMMA ReportOkGood ==
  ASSUME NEW hi, Good(hi), NEW t \in Nat
  PROVE  Good(ReportOk(hi, t))
<1> DEFINE c == CountOk(hi)
<1>1. Counts(hi, c) /\ c.continErr = 0
  BY CountOkCounts DEF Good
<1>2. c \in HI /\ c.windErrCnt < WindErrLim
  BY <1>1, LimitsAssumption DEF Counts, Good, BelowLimit
<1>3. ASSUME ~(c.overload /\ EnoughSuccs(c)) PROVE Good(c)
  <2> HIDE DEF c
  <2> QED
    BY <1>1, <1>2, <1>3, LimitsAssumption
    DEF Counts, Good, BelowLimit, EnoughSuccs, HI
<1> QED
  BY <1>2, <1>3, ResetIdleGood, AgeCheckGood DEF ReportOk

LEMMA ReportErrGood ==
  ASSUME NEW hi, Good(hi), NEW t \in Nat
  PROVE  Good(ReportErr(hi, t))
<1> DEFINE c == CountErr(hi)
<1>1. Counts(hi, c) /\ c.continSucc = 0
  BY CountErrCounts DEF Good
<1>2. c \in HI
  BY <1>1 DEF Counts
<1>3. ASSUME ~(~c.overload /\ TooManyErrs(c)) PROVE Good(c)
  <2> HIDE DEF c
  <2> QED
    BY <1>1, <1>2, <1>3, LimitsAssumption
    DEF Counts, Good, BelowLimit, TooManyErrs, HI
<1> QED
  BY <1>2, <1>3, SetOverloadGood, AgeCheckGood DEF ReportErr

\* What is left of a batch of successes does not wrap below zero.
LEMMA SomeSuccGood ==
  ASSUME NEW hi, Good(hi), NEW n \in Nat, NEW t \in Nat
  PROVE  Good(SomeSucc(hi, n, t))
<1> DEFINE c == CountSuccs(hi, n)
           r == ResetIdle(c, t)
<1>1. Counts(hi, c) /\ c.continErr = 0
  BY CountSuccsCounts DEF Good
<1>2. c \in HI /\ c.windErrCnt < WindErrLim
  BY <1>1, LimitsAssumption DEF Counts, Good, BelowLimit
<1>3. Good(r) /\ ~r.overload
  BY <1>2, ResetIdleGood
<1> HIDE DEF c, r
<1>4. Needed(SuccRate, c.err) \in Nat
  BY <1>2, NeededType, RatesAssumption DEF HI
<1>5. LeftSucc(c, n) \in Nat
  BY <1>2, <1>4, LimitsAssumption DEF LeftSucc, HI
<1>6. Good([r EXCEPT !.succ = @ + LeftSucc(c, n)])
  <2>1. r.succ + LeftSucc(c, n) \in Nat
    BY <1>3, <1>5 DEF Good, HI
  <2> QED
    BY <1>3, <2>1 DEF Good, HI, BelowLimit
<1>7. ASSUME ~(c.overload /\ SuccsSuffice(c, n))
      PROVE  Good([c EXCEPT !.succ = @ + n])
  <2>1. c.succ + n \in Nat
    BY <1>2 DEF HI
  <2>2. Good(c)
    BY <1>1, <1>2, <1>7, LimitsAssumption
    DEF Counts, Good, BelowLimit, SuccsSuffice, HI
  <2> QED
    BY <2>1, <2>2 DEF Good, HI, BelowLimit
<1> QED
  BY <1>6, <1>7, AgeCheckGood DEF SomeSucc, c, r

LEMMA SomeErrGood ==
  ASSUME NEW hi, Good(hi), NEW n \in Nat, NEW t \in Nat
  PROVE  Good(SomeErr(hi, n, t))
<1> DEFINE c == CountErrs(hi, n)
           r == SetOverload(c, t)
<1>1. Counts(hi, c) /\ c.continSucc = 0
  BY CountErrsCounts DEF Good
<1>2. c \in HI
  BY <1>1 DEF Counts
<1>3. Good(r)
  BY <1>2, SetOverloadGood
<1> HIDE DEF c, r
<1>4. Needed(ErrRate, c.succ) \in Nat
  BY <1>2, NeededType, RatesAssumption DEF HI
<1>5. LeftErr(c, n) \in Nat
  BY <1>2, <1>4, LimitsAssumption DEF LeftErr, HI
<1>6. Good([r EXCEPT !.err = @ + LeftErr(c, n)])
  <2>1. r.err + LeftErr(c, n) \in Nat
    BY <1>3, <1>5 DEF Good, HI
  <2> QED
    BY <1>3, <2>1 DEF Good, HI, BelowLimit
<1>7. ASSUME ~(~c.overload /\ ErrsSuffice(c, n))
      PROVE  Good([c EXCEPT !.err = @ + n])
  <2>1. c.err + n \in Nat
    BY <1>2 DEF HI
  <2>2. Good(c)
    BY <1>1, <1>2, <1>7, LimitsAssumption
    DEF Counts, Good, BelowLimit, ErrsSuffice, HI
  <2> QED
    BY <2>1, <2>2 DEF Good, HI, BelowLimit
<1> QED
  BY <1>6, <1>7, AgeCheckGood DEF SomeErr, c, r

-----------------------------------------------------------------------------
(* The lists.                                                              *)

LEMMA AppendFacts ==
  ASSUME NEW S, NEW s \in Seq(S), NEW e \in S, Distinct(s), e \notin ToSet(s)
  PROVE  /\ Append(s, e) \in Seq(S)
         /\ ToSet(Append(s, e)) = ToSet(s) \cup {e}
         /\ Distinct(Append(s, e))
<1>1. /\ Append(s, e) \in Seq(S)
      /\ Len(Append(s, e)) = Len(s) + 1
      /\ \A i \in 1..Len(s) : Append(s, e)[i] = s[i]
      /\ Append(s, e)[Len(s) + 1] = e
  OBVIOUS
<1>2. DOMAIN s = 1..Len(s) /\ DOMAIN Append(s, e) = 1..(Len(s) + 1)
  BY <1>1
<1>3. Len(s) \in Nat
  OBVIOUS
<1>4. ToSet(Append(s, e)) = ToSet(s) \cup {e}
  BY <1>1, <1>2, <1>3 DEF ToSet
<1>5. Distinct(Append(s, e))
  BY <1>1, <1>2, <1>3 DEF Distinct, ToSet
<1> QED
  BY <1>1, <1>4, <1>5

LEMMA RotateFacts ==
  ASSUME NEW S, NEW s \in Seq(S), s # <<>>, Distinct(s)
  PROVE  /\ Rotate(s) \in Seq(S)
         /\ ToSet(Rotate(s)) = ToSet(s)
         /\ Distinct(Rotate(s))
         /\ Head(s) \in ToSet(s)
<1>1. Len(s) \in Nat /\ Len(s) > 0 /\ DOMAIN s = 1..Len(s)
  OBVIOUS
<1>2. /\ Tail(s) \in Seq(S) /\ Head(s) \in S /\ Head(s) = s[1]
      /\ DOMAIN Tail(s) = 1..(Len(s) - 1)
      /\ \A i \in 1..(Len(s) - 1) : Tail(s)[i] = s[i + 1]
  BY <1>1
<1>3. ToSet(Tail(s)) = ToSet(s) \ {Head(s)}
  <2>1. ASSUME NEW e \in ToSet(Tail(s)) PROVE e \in ToSet(s) \ {Head(s)}
    <3>1. PICK i \in 1..(Len(s) - 1) : e = s[i + 1]
      BY <1>2 DEF ToSet
    <3>2. i + 1 \in DOMAIN s /\ 1 \in DOMAIN s /\ i + 1 # 1
      BY <1>1
    <3> QED
      BY <1>2, <3>1, <3>2 DEF Distinct, ToSet
  <2>2. ASSUME NEW e \in ToSet(s), e # Head(s) PROVE e \in ToSet(Tail(s))
    <3>1. PICK i \in 1..Len(s) : e = s[i]
      BY <1>1 DEF ToSet
    <3>2. i - 1 \in 1..(Len(s) - 1) /\ Tail(s)[i - 1] = e
      BY <1>1, <1>2, <2>2, <3>1
    <3> QED
      BY <1>2, <3>2 DEF ToSet
  <2> QED
    BY <2>1, <2>2
<1>4. Distinct(Tail(s))
  <2>1. ASSUME NEW i \in 1..(Len(s) - 1), NEW j \in 1..(Len(s) - 1),
               s[i + 1] = s[j + 1]
        PROVE  i = j
    <3>1. i + 1 \in DOMAIN s /\ j + 1 \in DOMAIN s
      BY <1>1
    <3>2. i + 1 = j + 1
      BY <2>1, <3>1 DEF Distinct
    <3> QED BY <3>2
  <2> QED
    BY <1>2, <2>1 DEF Distinct
<1>5. Head(s) \in ToSet(s)
  BY <1>1, <1>2 DEF ToSet
<1>6. Head(s) \notin ToSet(Tail(s))
  BY <1>3
<1>7. /\ Rotate(s) \in Seq(S) /\ Distinct(Rotate(s))
      /\ ToSet(Rotate(s)) = ToSet(Tail(s)) \cup {Head(s)}
  <2> DEFINE u == Tail(s)
             e == Head(s)
  <2>1. u \in Seq(S) /\ e \in S /\ Distinct(u) /\ e \notin ToSet(u)
    BY <1>2, <1>4, <1>6
  <2> HIDE DEF u, e
  <2>2. /\ Append(u, e) \in Seq(S) /\ Distinct(Append(u, e))
        /\ ToSet(Append(u, e)) = ToSet(u) \cup {e}
    BY <2>1, AppendFacts
  <2> QED
    BY <2>2 DEF Rotate, u, e
<1> QED
  BY <1>3, <1>5, <1>7

LEMMA WithoutFacts ==
  ASSUME NEW S, NEW s \in Seq(S), Distinct(s), NEW D, NEW t \in Without(s, D)
  PROVE  t \in Seq(S) /\ ToSet(t) = ToSet(s) \ D /\ Distinct(t)
<1>1. PICK m \in 0..Len(s) : t \in [1..m -> ToSet(s) \ D]
  BY DEF Without
<1>2. ToSet(s) \subseteq S /\ Len(s) \in Nat /\ DOMAIN s = 1..Len(s)
  BY DEF ToSet
<1>3. t \in Seq(S) /\ DOMAIN t = 1..m /\ m \in Nat
  <2>1. t \in [1..m -> S]
    BY <1>1, <1>2
  <2> QED BY <1>1, <1>2, <2>1
<1>4. ASSUME NEW i \in DOMAIN t, NEW j \in DOMAIN t, i < j PROVE t[i] # t[j]
  <2>1. PICK a \in DOMAIN s, b \in DOMAIN s : a < b /\ s[a] = t[i] /\ s[b] = t[j]
    BY <1>4 DEF Without
  <2>2. a # b
    BY <1>2, <2>1
  <2> QED
    BY <2>1, <2>2 DEF Distinct
<1>5. Distinct(t)
  <2>1. \A i, j \in DOMAIN t : i < j \/ j < i \/ i = j
    BY <1>3
  <2> QED
    BY <1>4, <2>1 DEF Distinct
<1>6. ToSet(t) = ToSet(s) \ D
  BY DEF Without
<1> QED
  BY <1>3, <1>5, <1>6

LEMMA ListingsFacts ==
  ASSUME NEW S, NEW t \in Listings(S)
  PROVE  t \in Seq(S) /\ ToSet(t) = S /\ Distinct(t)
<1>1. PICK m \in 0..Cardinality(S) : t \in [1..m -> S]
  BY DEF Listings
<1>2. m \in Nat
  BY <1>1, SMT
<1>3. t \in Seq(S) /\ DOMAIN t = 1..m
  BY <1>1, <1>2
<1> QED
  BY <1>3 DEF Listings, Distinct

LEMMA ConcatFacts ==
  ASSUME NEW S, NEW s \in Seq(S), NEW t \in Seq(S), Distinct(s), Distinct(t),
         ToSet(s) \cap ToSet(t) = {}
  PROVE  /\ s \o t \in Seq(S)
         /\ ToSet(s \o t) = ToSet(s) \cup ToSet(t)
         /\ Distinct(s \o t)
<1> DEFINE n == Len(s)
           m == Len(t)
           u == s \o t
<1>1. /\ n \in Nat /\ m \in Nat /\ u \in Seq(S)
      /\ DOMAIN s = 1..n /\ DOMAIN t = 1..m /\ DOMAIN u = 1..(n + m)
      /\ \A i \in 1..(n + m) : u[i] = IF i <= n THEN s[i] ELSE t[i - n]
  <2>1. u \in Seq(S) /\ Len(u) = n + m
    BY ConcatProperties
  <2>2. \A i \in 1..(n + m) : u[i] = IF i <= n THEN s[i] ELSE t[i - n]
    BY ConcatProperties
  <2>3. n \in Nat /\ m \in Nat /\ DOMAIN s = 1..n /\ DOMAIN t = 1..m
    BY LenProperties
  <2>4. DOMAIN u = 1..(n + m)
    BY <2>1, LenProperties
  <2> QED
    BY <2>1, <2>2, <2>3, <2>4
<1> HIDE DEF n, m, u
<1>2. \A i \in DOMAIN s : i \in DOMAIN u /\ u[i] = s[i]
  BY <1>1
<1>3. \A i \in DOMAIN t : i + n \in DOMAIN u /\ u[i + n] = t[i]
  BY <1>1
<1>4. \A i \in DOMAIN u : \/ i <= n /\ i \in DOMAIN s /\ u[i] = s[i]
                          \/ i > n /\ i - n \in DOMAIN t /\ u[i] = t[i - n]
  <2> SUFFICES ASSUME NEW i \in DOMAIN u
               PROVE  \/ i <= n /\ i \in DOMAIN s /\ u[i] = s[i]
                      \/ i > n /\ i - n \in DOMAIN t /\ u[i] = t[i - n]
    OBVIOUS
  <2>1. i \in 1..(n + m) /\ u[i] = IF i <= n THEN s[i] ELSE t[i - n]
    BY <1>1
  <2>2. CASE i <= n
    <3>1. i \in 1..n
      BY <1>1, <2>1, <2>2
    <3> QED BY <1>1, <2>1, <2>2, <3>1
  <2>3. CASE i > n
    <3>1. i - n \in 1..m
      BY <1>1, <2>1, <2>3
    <3> QED BY <1>1, <2>1, <2>3, <3>1
  <2> QED BY <1>1, <2>1, <2>2, <2>3
<1>5. ToSet(u) = ToSet(s) \cup ToSet(t)
  <2>1. ASSUME NEW e \in ToSet(u) PROVE e \in ToSet(s) \cup ToSet(t)
    BY <1>4 DEF ToSet
  <2>2. ASSUME NEW e \in ToSet(s) PROVE e \in ToSet(u)
    BY <1>2 DEF ToSet
  <2>3. ASSUME NEW e \in ToSet(t) PROVE e \in ToSet(u)
    BY <1>3 DEF ToSet
  <2> QED BY <2>1, <2>2, <2>3
<1>6. ASSUME NEW i \in 1..(n + m), NEW j \in 1..(n + m), u[i] = u[j]
      PROVE  i = j
  <2>1. CASE i <= n /\ j <= n
    <3>1. i \in 1..n /\ j \in 1..n /\ s[i] = s[j]
      BY <1>1, <1>6, <2>1
    <3> QED BY <1>1, <3>1 DEF Distinct
  <2>2. CASE i > n /\ j > n
    <3>1. i - n \in 1..m /\ j - n \in 1..m /\ t[i - n] = t[j - n]
      BY <1>1, <1>6, <2>2
    <3>2. i - n = j - n
      BY <1>1, <3>1 DEF Distinct
    <3> QED BY <1>1, <3>2
  <2>3. CASE (i <= n /\ j > n) \/ (i > n /\ j <= n)
    <3>1. \A k \in DOMAIN u : /\ k <= n => u[k] \in ToSet(s)
                              /\ k > n => u[k] \in ToSet(t)
      <4>1. \A k \in DOMAIN u : k <= n => \E p \in DOMAIN s : u[k] = s[p]
        BY <1>1, <1>4
      <4>2. \A k \in DOMAIN u : k > n => \E p \in DOMAIN t : u[k] = t[p]
        <5> SUFFICES ASSUME NEW k \in 1..(n + m), k > n
                     PROVE  \E p \in DOMAIN t : u[k] = t[p]
          BY <1>1
        <5>1. ~(k <= n) /\ k \in DOMAIN u
          BY <1>1
        <5> QED BY <1>4, <5>1
      <4> QED BY <4>1, <4>2 DEF ToSet
    <3>2. i \in DOMAIN u /\ j \in DOMAIN u
      BY <1>1
    <3> QED BY <1>6, <2>3, <3>1, <3>2
  <2> QED
    BY <1>1, <2>1, <2>2, <2>3
<1>7. Distinct(u)
  BY <1>1, <1>6 DEF Distinct
<1> QED
  BY <1>1, <1>5, <1>7 DEF u

-----------------------------------------------------------------------------
(* The inductive invariant, in two parts: the hosts with their lists, which *)
(* reports and routes change together, and everything else.                 *)

HostsInv ==
    /\ Route \subseteq Hosts /\ hostMap \in [Route -> HI]
    /\ runningList \in Seq(Hosts) /\ downList \in Seq(Hosts)
    /\ ListsPartition
    /\ BelowLimits

RestInv ==
    /\ accessCnt \in 0..ProbeNum
    /\ lstRptTime \in 0..now /\ now \in 0..MaxNow
    /\ answer \in Answers
    /\ batching \in BOOLEAN
    /\ DOMAIN batch \subseteq Hosts /\ batch \in [DOMAIN batch -> 1..MaxCnt]

IInv == HostsInv /\ RestInv

LEMMA HostsGood ==
  ASSUME HostsInv PROVE \A h \in Route : Good(hostMap[h])
  BY DEF HostsInv, BelowLimits, Good

LEMMA HostsStutter ==
  ASSUME HostsInv, UNCHANGED <<hostMap, runningList, downList>> PROVE HostsInv'
<1> USE DEF HostsInv, ListsPartition, BelowLimits, Route
<1>1. /\ hostMap' = hostMap /\ runningList' = runningList
      /\ downList' = downList
  OBVIOUS
<1> QED BY <1>1

\* Storing a good record and moving its host to the list of its state.
LEMMA SettleFacts ==
  ASSUME HostsInv, NEW h \in Route, NEW hi, Good(hi), Settle(h, hi)
  PROVE  HostsInv'
<1> USE DEF Route
<1>1. /\ hostMap' = [hostMap EXCEPT ![h] = hi] /\ Route' = Route
      /\ hostMap'[h] = hi /\ h \in Hosts
      /\ \A g \in Route \ {h} : hostMap'[g] = hostMap[g]
  BY DEF Settle, HostsInv
<1>2. Route' \subseteq Hosts /\ hostMap' \in [Route' -> HI]
  BY <1>1 DEF HostsInv, Good
<1>3. BelowLimits'
  BY <1>1 DEF HostsInv, BelowLimits, Good
<1>4. /\ runningList' \in Seq(Hosts) /\ downList' \in Seq(Hosts)
      /\ ListsPartition'
  <2>1. CASE hi.overload = hostMap[h].overload
            /\ UNCHANGED <<runningList, downList>>
    <3>1. \A g \in Route : hostMap'[g].overload = hostMap[g].overload
      BY <1>1, <2>1
    <3> QED
      BY <1>1, <2>1, <3>1 DEF HostsInv, ListsPartition
  <2>2. CASE /\ hi.overload /\ ~hostMap[h].overload
             /\ runningList' \in Without(runningList, {h})
             /\ downList' = Append(downList, h)
    <3>1. /\ runningList' \in Seq(Hosts) /\ Distinct(runningList')
          /\ ToSet(runningList') = ToSet(runningList) \ {h}
      BY <2>2, WithoutFacts DEF HostsInv, ListsPartition
    <3>2. h \notin ToSet(downList)
      BY <2>2 DEF HostsInv, ListsPartition
    <3>3. /\ downList' \in Seq(Hosts) /\ Distinct(downList')
          /\ ToSet(downList') = ToSet(downList) \cup {h}
      BY <1>1, <2>2, <3>2, AppendFacts DEF HostsInv, ListsPartition
    <3>4. ToSet(runningList') = {g \in Route' : ~hostMap'[g].overload}
      BY <1>1, <2>2, <3>1 DEF HostsInv, ListsPartition
    <3>5. ToSet(downList') = {g \in Route' : hostMap'[g].overload}
      BY <1>1, <2>2, <3>3 DEF HostsInv, ListsPartition
    <3> QED
      BY <3>1, <3>3, <3>4, <3>5 DEF ListsPartition
  <2>3. CASE /\ ~hi.overload /\ hostMap[h].overload
             /\ downList' \in Without(downList, {h})
             /\ runningList' = Append(runningList, h)
    <3>1. /\ downList' \in Seq(Hosts) /\ Distinct(downList')
          /\ ToSet(downList') = ToSet(downList) \ {h}
      BY <2>3, WithoutFacts DEF HostsInv, ListsPartition
    <3>2. h \notin ToSet(runningList)
      BY <2>3 DEF HostsInv, ListsPartition
    <3>3. /\ runningList' \in Seq(Hosts) /\ Distinct(runningList')
          /\ ToSet(runningList') = ToSet(runningList) \cup {h}
      BY <1>1, <2>3, <3>2, AppendFacts DEF HostsInv, ListsPartition
    <3>4. ToSet(runningList') = {g \in Route' : ~hostMap'[g].overload}
      BY <1>1, <2>3, <3>3 DEF HostsInv, ListsPartition
    <3>5. ToSet(downList') = {g \in Route' : hostMap'[g].overload}
      BY <1>1, <2>3, <3>1 DEF HostsInv, ListsPartition
    <3> QED
      BY <3>1, <3>3, <3>4, <3>5 DEF ListsPartition
  <2> QED
    BY <2>1, <2>2, <2>3 DEF Settle
<1> QED
  BY <1>2, <1>3, <1>4 DEF HostsInv

LEMMA InitInv == Init => IInv
<1> SUFFICES ASSUME Init PROVE IInv
  OBVIOUS
<1>1. Route = {} /\ hostMap \in [Route -> HI]
  BY DEF Init, Route
<1>2. /\ runningList \in Seq(Hosts) /\ Distinct(runningList)
      /\ ToSet(runningList) = {}
      /\ downList \in Seq(Hosts) /\ Distinct(downList)
      /\ ToSet(downList) = {}
  BY DEF Init, Distinct, ToSet
<1>3. HostsInv
  BY <1>1, <1>2 DEF HostsInv, ListsPartition, BelowLimits
<1>4. DOMAIN batch = {} /\ batch \in [DOMAIN batch -> 1..MaxCnt]
  BY DEF Init
<1>5. /\ accessCnt \in 0..ProbeNum /\ now \in 0..MaxNow
      /\ lstRptTime \in 0..now /\ batching \in BOOLEAN
  <2>1. accessCnt = 0 /\ now = 0 /\ lstRptTime = 0
    BY DEF Init
  <2>2. batching \in BOOLEAN
    BY DEF Init
  <2> QED
    BY <2>1, <2>2, LBAssumption
<1>6. answer \in Answers
  BY DEF Init, Answers
<1>7. DOMAIN batch \subseteq Hosts
  BY <1>4
<1>8. RestInv
  BY <1>4, <1>5, <1>6, <1>7 DEF RestInv
<1> QED
  BY <1>3, <1>8 DEF IInv

\* getHost only rotates a list; front() is applied to a list that has one.
LEMMA GetHostInv == ASSUME IInv, GetHost PROVE IInv'
<1>1. /\ hostMap' = hostMap /\ Route' = Route /\ Route # {}
      /\ UNCHANGED <<lstRptTime, batching, batch, now>>
  BY DEF GetHost, Route
<1>2. ASSUME runningList = <<>> PROVE downList # <<>>
  <2>1. ToSet(runningList) = {}
    BY <1>2 DEF ToSet
  <2>2. ToSet(downList) # {}
    BY <1>1, <2>1 DEF IInv, HostsInv, ListsPartition
  <2> QED
    BY <2>2 DEF ToSet
<1>3. ASSUME Pick, runningList # <<>>
      PROVE  HostsInv' /\ answer' \in Answers
  <2>1. /\ runningList' \in Seq(Hosts) /\ Distinct(runningList')
        /\ ToSet(runningList') = ToSet(runningList)
        /\ Head(runningList) \in ToSet(runningList)
        /\ downList' = downList
    BY <1>3, RotateFacts DEF Pick, IInv, HostsInv, ListsPartition
  <2>2. Head(runningList) \in Hosts
    BY <2>1 DEF IInv, HostsInv, ListsPartition
  <2>3. HostsInv'
    BY <1>1, <2>1 DEF IInv, HostsInv, ListsPartition, BelowLimits
  <2> QED
    BY <1>3, <2>2, <2>3 DEF Pick, Answers
<1>4. ASSUME Probe, downList # <<>>
      PROVE  HostsInv' /\ answer' \in Answers /\ accessCnt' = 0
  <2>1. /\ downList' \in Seq(Hosts) /\ Distinct(downList')
        /\ ToSet(downList') = ToSet(downList)
        /\ Head(downList) \in ToSet(downList)
        /\ runningList' = runningList
    BY <1>4, RotateFacts DEF Probe, IInv, HostsInv, ListsPartition
  <2>2. Head(downList) \in Hosts
    BY <2>1 DEF IInv, HostsInv, ListsPartition
  <2>3. HostsInv'
    BY <1>1, <2>1 DEF IInv, HostsInv, ListsPartition, BelowLimits
  <2> QED
    BY <1>4, <2>2, <2>3 DEF Probe, Answers
<1>5. ASSUME Refuse PROVE HostsInv' /\ answer' \in Answers
  BY <1>1, <1>5, HostsStutter DEF Refuse, Answers, IInv
<1>6. HostsInv' /\ answer' \in Answers
  BY <1>2, <1>3, <1>4, <1>5 DEF GetHost
<1>7. accessCnt' \in 0..ProbeNum
  BY LBAssumption DEF GetHost, Probe, Refuse, IInv, RestInv
<1> QED
  BY <1>1, <1>6, <1>7 DEF IInv, RestInv

LEMMA Report2RpterFacts ==
  ASSUME RestInv, Report2Rpter, UNCHANGED now
  PROVE  lstRptTime' \in 0..now' /\ now' \in 0..MaxNow
  BY LBAssumption DEF RestInv, Report2Rpter

LEMMA ReportInv ==
  ASSUME IInv, NEW h \in Hosts, NEW n \in 0..ErrCap, Report(h, n) PROVE IInv'
<1>1. now \in Nat
  BY LBAssumption DEF IInv, RestInv
<1>2. ASSUME h \in Route PROVE Good(Load(h, n))
  <2>1. Good(hostMap[h]) /\ n \in Nat
    BY <1>2, HostsGood, LBAssumption DEF IInv
  <2> QED
    BY <1>1, <2>1, ReportOkGood, ReportErrGood, SomeErrGood DEF Load
<1>3. HostsInv'
  BY <1>2, SettleFacts, HostsStutter DEF Report, IInv
<1>4. RestInv'
  BY Report2RpterFacts DEF Report, IInv, RestInv, Answers
<1> QED
  BY <1>3, <1>4 DEF IInv

LEMMA BatchBeginInv ==
  ASSUME IInv, NEW results \in Batches, BatchBegin(results) PROVE IInv'
<1>1. HostsInv'
  BY HostsStutter DEF BatchBegin, IInv
<1>2. DOMAIN results \subseteq Hosts /\ results \in [DOMAIN results -> 1..MaxCnt]
  BY DEF Batches
<1>3. RestInv'
  BY <1>2 DEF BatchBegin, IInv, RestInv, Answers
<1> QED
  BY <1>1, <1>3 DEF IInv

LEMMA BatchOneInv ==
  ASSUME IInv, NEW h \in Hosts, BatchOne(h) PROVE IInv'
<1>1. now \in Nat
  BY LBAssumption DEF IInv, RestInv
<1>2. h \in DOMAIN batch /\ batch[h] \in Nat
  BY LBAssumption DEF BatchOne, IInv, RestInv
<1>3. ASSUME h \in Route PROVE Good(SomeSucc(hostMap[h], batch[h], now))
  BY <1>1, <1>2, <1>3, HostsGood, SomeSuccGood DEF IInv
<1>4. HostsInv'
  BY <1>3, SettleFacts, HostsStutter DEF BatchOne, IInv
<1>5. RestInv'
  BY DEF BatchOne, IInv, RestInv
<1> QED
  BY <1>4, <1>5 DEF IInv

LEMMA BatchEndInv == ASSUME IInv, BatchEnd PROVE IInv'
<1>1. HostsInv'
  BY HostsStutter DEF BatchEnd, IInv
<1>2. RestInv'
  BY Report2RpterFacts DEF BatchEnd, IInv, RestInv
<1> QED
  BY <1>1, <1>2 DEF IInv

\* update: new hosts join the running list as idle; the hosts that leave are
\* taken out of the list their flag names.
LEMMA UpdateInv ==
  ASSUME IInv, NEW S \in SUBSET Hosts, Update(S) PROVE IInv'
<1> DEFINE gone == Leavers(S, FALSE)
           goneDown == Leavers(S, TRUE)
           new == S \ Route
<1>1. now \in Nat
  BY LBAssumption DEF IInv, RestInv
<1>2. /\ Route' = S
      /\ \A h \in S : hostMap'[h] = IF h \in Route THEN hostMap[h] ELSE NewHI(now)
  BY DEF Update, Route
<1>3. \A h \in S : Good(hostMap'[h])
  BY <1>1, <1>2, HostsGood, NewHIGood DEF IInv
<1>4. hostMap' \in [S -> HI]
  BY <1>3 DEF Update, Good
<1>5. /\ runningList \in Seq(Hosts) /\ Distinct(runningList)
      /\ ToSet(runningList) = {h \in Route : ~hostMap[h].overload}
      /\ downList \in Seq(Hosts) /\ Distinct(downList)
      /\ ToSet(downList) = {h \in Route : hostMap[h].overload}
      /\ Route \subseteq Hosts
  BY DEF IInv, HostsInv, ListsPartition
<1>6. PICK arrived \in Listings(new) :
         runningList' \in Without(runningList \o arrived, gone)
  BY DEF Update
<1>7. arrived \in Seq(Hosts) /\ ToSet(arrived) = new /\ Distinct(arrived)
  <2>1. arrived \in Seq(new) /\ ToSet(arrived) = new /\ Distinct(arrived)
    BY <1>6, ListingsFacts
  <2>2. new \subseteq Hosts
    OBVIOUS
  <2> HIDE DEF new
  <2> QED BY <2>1, <2>2
<1>8. /\ runningList \o arrived \in Seq(Hosts)
      /\ Distinct(runningList \o arrived)
      /\ ToSet(runningList \o arrived) = ToSet(runningList) \cup new
  <2>1. ToSet(runningList) \cap ToSet(arrived) = {}
    BY <1>5, <1>7
  <2> QED
    BY <1>5, <1>7, <2>1, ConcatFacts
<1>9. /\ runningList' \in Seq(Hosts) /\ Distinct(runningList')
      /\ ToSet(runningList') = (ToSet(runningList) \cup new) \ gone
  <2> DEFINE s == runningList \o arrived
  <2>1. s \in Seq(Hosts) /\ Distinct(s) /\ runningList' \in Without(s, gone)
    BY <1>6, <1>8
  <2>2. ToSet(s) = ToSet(runningList) \cup new
    BY <1>8
  <2> HIDE DEF s, gone, new
  <2> QED
    BY <2>1, <2>2, WithoutFacts
<1>10. /\ downList' \in Seq(Hosts) /\ Distinct(downList')
       /\ ToSet(downList') = ToSet(downList) \ goneDown
  <2>1. downList' \in Without(downList, goneDown)
    BY DEF Update
  <2> HIDE DEF goneDown
  <2> QED
    BY <1>5, <2>1, WithoutFacts
<1>11. ListsPartition'
  <2>1. \A h \in S : hostMap'[h].overload <=> h \in Route /\ hostMap[h].overload
    BY <1>1, <1>2, NewHIGood
  <2>2. ToSet(runningList') = {h \in S : ~hostMap'[h].overload}
    BY <1>5, <1>9, <2>1 DEF Leavers
  <2>3. ToSet(downList') = {h \in S : hostMap'[h].overload}
    BY <1>5, <1>10, <2>1 DEF Leavers
  <2> QED
    BY <1>2, <1>9, <1>10, <2>2, <2>3 DEF ListsPartition
<1>12. HostsInv'
  BY <1>2, <1>3, <1>4, <1>9, <1>10, <1>11
  DEF HostsInv, BelowLimits, Good
<1>13. RestInv'
  BY LBAssumption DEF Update, IInv, RestInv, Answers
<1> QED
  BY <1>12, <1>13 DEF IInv

LEMMA DeleteInv == ASSUME IInv, Delete PROVE IInv'
<1>1. Route' = {} /\ hostMap' \in [Route' -> HI]
  BY DEF Delete, Route
<1>2. /\ runningList' \in Seq(Hosts) /\ Distinct(runningList')
      /\ ToSet(runningList') = {}
      /\ downList' \in Seq(Hosts) /\ Distinct(downList')
      /\ ToSet(downList') = {}
  BY DEF Delete, Distinct, ToSet
<1>3. HostsInv'
  BY <1>1, <1>2 DEF HostsInv, ListsPartition, BelowLimits
<1>4. RestInv'
  BY LBAssumption DEF Delete, IInv, RestInv, Answers
<1> QED
  BY <1>3, <1>4 DEF IInv

LEMMA TickInv == ASSUME IInv, Tick PROVE IInv'
<1>1. HostsInv'
  BY HostsStutter DEF Tick, IInv
<1>2. RestInv'
  BY LBAssumption DEF Tick, IInv, RestInv, Answers
<1> QED
  BY <1>1, <1>2 DEF IInv

LEMMA StutterInv == ASSUME IInv, UNCHANGED vars PROVE IInv'
<1>1. HostsInv'
  BY HostsStutter DEF vars, IInv
<1>2. RestInv'
  BY DEF vars, IInv, RestInv
<1> QED
  BY <1>1, <1>2 DEF IInv

\* IInv is inductive: one step per action of Next.
LEMMA NextInv == IInv /\ [Next]_vars => IInv'
<1> SUFFICES ASSUME IInv, [Next]_vars PROVE IInv'
  OBVIOUS
<1>1. CASE GetHost BY <1>1, GetHostInv
<1>2. CASE \E h \in Hosts, n \in 0..ErrCap : Report(h, n)
  BY <1>2, ReportInv
<1>3. CASE \E results \in Batches : BatchBegin(results)
  BY <1>3, BatchBeginInv
<1>4. CASE BatchStep
  BY <1>4, BatchOneInv, BatchEndInv DEF BatchStep
<1>5. CASE \E S \in SUBSET Hosts : Update(S)
  BY <1>5, UpdateInv
<1>6. CASE Delete BY <1>6, DeleteInv
<1>7. CASE Tick BY <1>7, TickInv
<1>8. CASE UNCHANGED vars BY <1>8, StutterInv
<1> QED
  BY <1>1, <1>2, <1>3, <1>4, <1>5, <1>6, <1>7, <1>8 DEF Next

-----------------------------------------------------------------------------
(* The theorems.                                                           *)

LEMMA SpecInv == Spec => []IInv
<1> QED
  BY InitInv, NextInv, PTL DEF Spec

\* The state of the load balancer (class LB) is well formed for ever.
THEOREM TypeCorrect == Spec => []TypeOK
<1>1. IInv => TypeOK
  BY DEF IInv, HostsInv, RestInv, TypeOK
<1> QED
  BY <1>1, SpecInv, PTL

\* _runningList and _downList hold every host of the route exactly once, on
\* the side of its overload flag, whatever reports, batches and routes come.
THEOREM ListsPartitionTheRoute == Spec => []ListsPartition
<1>1. IInv => ListsPartition
  BY DEF IInv, HostsInv
<1> QED
  BY <1>1, SpecInv, PTL

\* No host rests at a limit of reportSomeErr, reportSomeSucc or checkWindow.
THEOREM HostsStayBelowLimits == Spec => []BelowLimits
<1>1. IInv => BelowLimits
  BY DEF IInv, HostsInv
<1> QED
  BY <1>1, SpecInv, PTL

-----------------------------------------------------------------------------
(* A report judges its host on statistics of the present.                  *)

FreshAt(hi, t) == IF hi.overload THEN t - hi.overloadTs < OvldWaitLim
                                 ELSE t - hi.windowTs < ClearTimo

\* What the tail of a report reads of a record.
Dated(hi) == hi.windowTs \in Nat /\ hi.overloadTs \in Nat

LEMMA ResetIdleFresh ==
  ASSUME NEW hi, NEW t \in Nat
  PROVE  FreshAt(ResetIdle(hi, t), t) /\ Dated(ResetIdle(hi, t))
<1>1. /\ ResetIdle(hi, t).windowTs = t /\ ResetIdle(hi, t).overloadTs = 0
      /\ ~ResetIdle(hi, t).overload
  BY DEF ResetIdle, NewHI
<1> QED
  BY <1>1, LimitsAssumption DEF FreshAt, Dated

LEMMA SetOverloadFresh ==
  ASSUME NEW hi, Dated(hi), NEW t \in Nat
  PROVE  FreshAt(SetOverload(hi, t), t) /\ Dated(SetOverload(hi, t))
<1>1. /\ SetOverload(hi, t).windowTs = hi.windowTs
      /\ SetOverload(hi, t).overloadTs = t /\ SetOverload(hi, t).overload
  BY DEF SetOverload
<1> QED
  BY <1>1, LimitsAssumption DEF FreshAt, Dated

LEMMA AgeCheckFresh ==
  ASSUME NEW hi, Dated(hi), NEW t \in Nat
  PROVE  FreshAt(AgeCheck(hi, t), t)
<1> DEFINE c == [hi EXCEPT !.windErrCnt = BadWindows(hi)]
           ended == ~hi.overload /\ t - hi.windowTs >= ClearTimo
           waited == hi.overload /\ t - hi.overloadTs >= OvldWaitLim
<1>1. CASE ended
  <2>1. AgeCheck(hi, t) \in {SetOverload(hi, t), ResetIdle(c, t)}
    BY <1>1 DEF AgeCheck
  <2> QED
    BY <2>1, ResetIdleFresh, SetOverloadFresh
<1>2. CASE waited
  <2>1. AgeCheck(hi, t) = ResetIdle(hi, t)
    BY <1>2 DEF AgeCheck
  <2> QED
    BY <2>1, ResetIdleFresh
<1>3. CASE ~ended /\ ~waited
  <2>1. AgeCheck(hi, t) = hi
    BY <1>3 DEF AgeCheck
  <2>2. FreshAt(hi, t)
    BY <1>3, LimitsAssumption DEF FreshAt, Dated
  <2> QED
    BY <2>1, <2>2
<1> QED
  BY <1>1, <1>2, <1>3

\* Counting leaves the dates alone.
LEMMA CountsDated ==
  ASSUME NEW hi \in HI, NEW n
  PROVE  /\ Dated(hi) /\ Dated(CountOk(hi)) /\ Dated(CountErr(hi))
         /\ Dated(CountSuccs(hi, n)) /\ Dated(CountErrs(hi, n))
<1>1. hi.windowTs \in Nat /\ hi.overloadTs \in Nat
  BY DEF HI
<1>2. \A a, b, c, d : LET e == [hi EXCEPT !.succ = a, !.rSucc = b, !.continSucc = c,
                                          !.continErr = d]
                      IN  e.windowTs = hi.windowTs /\ e.overloadTs = hi.overloadTs
  BY DEF HI
<1>3. \A a, b, c, d : LET e == [hi EXCEPT !.err = a, !.rErr = b, !.continSucc = c,
                                          !.continErr = d]
                      IN  e.windowTs = hi.windowTs /\ e.overloadTs = hi.overloadTs
  BY DEF HI
<1>4. \A a, b : LET e == [hi EXCEPT !.rSucc = a, !.continSucc = b, !.continErr = 0]
                IN  e.windowTs = hi.windowTs /\ e.overloadTs = hi.overloadTs
  BY DEF HI
<1>5. \A a, b : LET e == [hi EXCEPT !.rErr = a, !.continSucc = 0, !.continErr = b]
                IN  e.windowTs = hi.windowTs /\ e.overloadTs = hi.overloadTs
  BY DEF HI
<1>6. Dated(CountOk(hi))
  BY <1>1, <1>2 DEF CountOk, Dated
<1>7. Dated(CountErr(hi))
  BY <1>1, <1>3 DEF CountErr, Dated
<1>8. Dated(CountSuccs(hi, n))
  BY <1>1, <1>4 DEF CountSuccs, Dated
<1>9. Dated(CountErrs(hi, n))
  BY <1>1, <1>5 DEF CountErrs, Dated
<1> QED
  BY <1>1, <1>6, <1>7, <1>8, <1>9 DEF Dated

LEMMA ReportOkFresh ==
  ASSUME NEW hi \in HI, NEW t \in Nat
  PROVE  FreshAt(ReportOk(hi, t), t)
<1>1. Dated(CountOk(hi))
  BY CountsDated
<1> QED
  BY <1>1, ResetIdleFresh, AgeCheckFresh DEF ReportOk

LEMMA ReportErrFresh ==
  ASSUME NEW hi \in HI, NEW t \in Nat
  PROVE  FreshAt(ReportErr(hi, t), t)
<1>1. Dated(CountErr(hi))
  BY CountsDated
<1> QED
  BY <1>1, SetOverloadFresh, AgeCheckFresh DEF ReportErr

LEMMA SomeSuccFresh ==
  ASSUME NEW hi \in HI, NEW n \in Nat, NEW t \in Nat
  PROVE  FreshAt(SomeSucc(hi, n, t), t)
<1> DEFINE c == CountSuccs(hi, n)
           r == ResetIdle(c, t)
           judged == IF c.overload /\ SuccsSuffice(c, n)
                       THEN [r EXCEPT !.succ = @ + LeftSucc(c, n)]
                       ELSE [c EXCEPT !.succ = @ + n]
<1>1. c \in HI /\ Dated(c) /\ Dated(r)
  BY CountSuccsCounts, CountsDated, ResetIdleFresh DEF Counts
<1>2. r = [NewHI(t) EXCEPT !.windErrCnt = c.windErrCnt]
  BY DEF ResetIdle
<1>3. \A x : [r EXCEPT !.succ = x].windowTs = r.windowTs
             /\ [r EXCEPT !.succ = x].overloadTs = r.overloadTs
  BY <1>2 DEF NewHI
<1>4. \A x : [c EXCEPT !.succ = x].windowTs = c.windowTs
             /\ [c EXCEPT !.succ = x].overloadTs = c.overloadTs
  BY <1>1 DEF HI
<1> HIDE DEF c, r
<1>5. Dated(judged)
  BY <1>1, <1>3, <1>4 DEF Dated
<1>6. SomeSucc(hi, n, t) = AgeCheck(judged, t)
  BY DEF SomeSucc, c, r
<1> HIDE DEF judged
<1> QED
  BY <1>5, <1>6, AgeCheckFresh

LEMMA SomeErrFresh ==
  ASSUME NEW hi \in HI, NEW n \in Nat, NEW t \in Nat
  PROVE  FreshAt(SomeErr(hi, n, t), t)
<1> DEFINE c == CountErrs(hi, n)
           r == SetOverload(c, t)
           judged == IF ~c.overload /\ ErrsSuffice(c, n)
                       THEN [r EXCEPT !.err = @ + LeftErr(c, n)]
                       ELSE [c EXCEPT !.err = @ + n]
<1>1. c \in HI /\ Dated(c)
  BY CountErrsCounts, CountsDated DEF Counts
<1>2. Dated(r) /\ \A x : [r EXCEPT !.err = x].windowTs = r.windowTs
                         /\ [r EXCEPT !.err = x].overloadTs = r.overloadTs
  <2>1. Dated(r)
    BY <1>1, SetOverloadFresh
  <2> QED
    BY <2>1 DEF SetOverload
<1>3. \A x : [c EXCEPT !.err = x].windowTs = c.windowTs
             /\ [c EXCEPT !.err = x].overloadTs = c.overloadTs
  BY <1>1 DEF HI
<1> HIDE DEF c, r
<1>4. Dated(judged)
  BY <1>1, <1>2, <1>3 DEF Dated
<1>5. SomeErr(hi, n, t) = AgeCheck(judged, t)
  BY DEF SomeErr, c, r
<1> HIDE DEF judged
<1> QED
  BY <1>4, <1>5, AgeCheckFresh

\* A record that is not the one of the step before is that of a report.
LEMMA SettleFresh ==
  ASSUME HostsInv, NEW h \in Route, NEW hi, Settle(h, hi), FreshAt(hi, now), now' = now,
         NEW g \in Route, hostMap'[g] # hostMap[g]
  PROVE  Fresh(hostMap[g])'
<1>1. g = h /\ hostMap'[g] = hi
  BY DEF Settle, HostsInv, Route
<1>2. FreshAt(hostMap'[g], now')
  BY <1>1
<1> QED
  BY <1>2 DEF FreshAt, Fresh

LEMMA ReportFresh ==
  ASSUME IInv, NEW h \in Hosts, NEW n \in 0..ErrCap, Report(h, n),
         NEW g \in Route, hostMap'[g] # hostMap[g]
  PROVE  Fresh(hostMap[g])'
<1>1. now \in Nat /\ now' = now /\ HostsInv
  BY LBAssumption DEF IInv, RestInv, Report
<1>2. h \in Route /\ Settle(h, Load(h, n))
  BY DEF Report
<1>3. hostMap[h] \in HI /\ n \in Nat
  BY <1>1, <1>2, LBAssumption DEF HostsInv
<1>4. FreshAt(Load(h, n), now)
  BY <1>1, <1>3, ReportOkFresh, ReportErrFresh, SomeErrFresh DEF Load
<1> QED
  BY <1>1, <1>2, <1>4, SettleFresh

LEMMA BatchOneFresh ==
  ASSUME IInv, NEW h \in Hosts, BatchOne(h), NEW g \in Route, hostMap'[g] # hostMap[g]
  PROVE  Fresh(hostMap[g])'
<1>1. now \in Nat /\ now' = now /\ HostsInv
  BY LBAssumption DEF IInv, RestInv, BatchOne
<1>2. h \in Route /\ Settle(h, SomeSucc(hostMap[h], batch[h], now))
  BY DEF BatchOne
<1>3. hostMap[h] \in HI /\ batch[h] \in Nat
  BY <1>1, <1>2, LBAssumption DEF HostsInv, BatchOne, IInv, RestInv
<1>4. FreshAt(SomeSucc(hostMap[h], batch[h], now), now)
  BY <1>1, <1>3, SomeSuccFresh
<1> QED
  BY <1>1, <1>2, <1>4, SettleFresh

LEMMA NextFresh ==
  ASSUME IInv, [Next]_vars, NEW g \in Route \cap Route', hostMap'[g] # hostMap[g]
  PROVE  Fresh(hostMap[g])'
<1>1. CASE \E S \in SUBSET Hosts : Update(S)
  BY <1>1 DEF Update, Route
<1>2. CASE Delete
  BY <1>2 DEF Delete, Route
<1>3. CASE GetHost \/ BatchEnd \/ Tick \/ (\E results \in Batches : BatchBegin(results))
           \/ UNCHANGED vars
  BY <1>3 DEF GetHost, BatchEnd, Tick, BatchBegin, vars
<1> QED
  BY <1>1, <1>2, <1>3, ReportFresh, BatchOneFresh DEF Next, BatchStep

\* Every path through the early returns of LB::report, reportSomeSucc and
\* reportSomeErr ends with the check of the window and of the waiting time
\* (or starts them anew).
THEOREM ReportsLeaveFresh == Spec => JudgementsFresh
<1>1. IInv /\ [Next]_vars =>
        [\A h \in Route \cap Route' :
            hostMap'[h] # hostMap[h] => Fresh(hostMap[h])']_vars
  BY NextFresh
<1> QED
  BY <1>1, SpecInv, PTL DEF Spec, JudgementsFresh

-----------------------------------------------------------------------------
(* The promise to the clients.                                             *)

\* What a batch needs beyond IInv: it answers no getHost and, while it has
\* results to apply, it holds the mutex.
BatchInv ==
    /\ batching => answer = NoReply
    /\ DOMAIN batch # {} => batching

PInv == IInv /\ BatchInv

\* An instant's patience, and what a step does to it.
LEMMA PatienceFacts ==
  ASSUME IInv, IInv'
  PROVE  /\ ProbeNum - accessCnt \in Nat
         /\ accessCnt' = 0 => ProbeNum - accessCnt' = ProbeNum
         /\ accessCnt < ProbeNum => ProbeNum - accessCnt > 0
         /\ accessCnt >= ProbeNum => ProbeNum - accessCnt = 0
         /\ accessCnt' = accessCnt + 1 => ProbeNum - accessCnt' = (ProbeNum - accessCnt) - 1
<1>1. accessCnt \in 0..ProbeNum /\ accessCnt' \in 0..ProbeNum /\ ProbeNum \in Nat
  BY LBAssumption DEF IInv, RestInv
<1>2. PICK a \in Nat, b \in Nat : a = accessCnt /\ b = accessCnt'
  BY <1>1
<1>3. a <= ProbeNum /\ b <= ProbeNum
  BY <1>1, <1>2
<1>4. ProbeNum - a \in Nat /\ (b = 0 => ProbeNum - b = ProbeNum)
  BY <1>1, <1>3
<1>5. /\ a < ProbeNum => ProbeNum - a > 0
      /\ a >= ProbeNum => ProbeNum - a = 0
      /\ b = a + 1 => ProbeNum - b = (ProbeNum - a) - 1
  BY <1>1, <1>3
<1> QED
  BY <1>2, <1>4, <1>5

LEMMA BatchInit == Init => BatchInv
  BY DEF Init, BatchInv

LEMMA BatchNext == PInv /\ [Next]_vars => BatchInv'
<1> SUFFICES ASSUME PInv, [Next]_vars PROVE BatchInv'
  OBVIOUS
<1> USE DEF PInv, BatchInv
<1>1. CASE GetHost
  BY <1>1 DEF GetHost
<1>2. ASSUME NEW h \in Hosts, NEW n \in 0..ErrCap, Report(h, n) PROVE BatchInv'
  BY <1>2 DEF Report
<1>3. ASSUME NEW results \in Batches, BatchBegin(results) PROVE BatchInv'
  BY <1>3 DEF BatchBegin
<1>4. ASSUME NEW h \in Hosts, BatchOne(h) PROVE BatchInv'
  <2>1. batching /\ UNCHANGED <<batching, answer>>
    BY <1>4 DEF BatchOne
  <2> QED
    BY <2>1
<1>5. CASE BatchEnd
  BY <1>5 DEF BatchEnd
<1>6. ASSUME NEW S \in SUBSET Hosts, Update(S) PROVE BatchInv'
  BY <1>6 DEF Update
<1>7. CASE Delete BY <1>7 DEF Delete
<1>8. CASE Tick BY <1>8 DEF Tick
<1>9. CASE UNCHANGED vars BY <1>9 DEF vars
<1> QED
  BY <1>1, <1>2, <1>3, <1>4, <1>5, <1>6, <1>7, <1>8, <1>9 DEF Next, BatchStep

Mapped == [Promise!Next]_(Promise!vars)

\* A list is empty when its set is.
LEMMA EmptyLists ==
  ASSUME IInv
  PROVE  /\ runningList = <<>> <=> ToSet(runningList) = {}
         /\ downList = <<>> <=> ToSet(downList) = {}
<1>1. runningList \in Seq(Hosts) /\ downList \in Seq(Hosts)
  BY DEF IInv, HostsInv
<1>2. \A s \in Seq(Hosts) : s # <<>> => Head(s) \in ToSet(s)
  <2> SUFFICES ASSUME NEW s \in Seq(Hosts), s # <<>> PROVE Head(s) \in ToSet(s)
    OBVIOUS
  <2>1. Head(s) = s[1] /\ 1 \in DOMAIN s
    OBVIOUS
  <2> QED
    BY <2>1 DEF ToSet
<1>3. ToSet(<<>>) = {}
  BY DEF ToSet
<1> QED
  BY <1>1, <1>2, <1>3

\* The host at the front of the running list is handed out.
LEMMA PickMaps ==
  ASSUME IInv, runningList # <<>>, Pick,
         IF downList = <<>> THEN ProbeNum - accessCnt' = ProbeNum
            ELSE /\ ProbeNum - accessCnt > 0
                 /\ ProbeNum - accessCnt' = (ProbeNum - accessCnt) - 1
  PROVE  Mapped
<1> DEFINE h == Head(runningList)
<1>1. /\ h \in ToSet(runningList) /\ ToSet(runningList') = ToSet(runningList)
      /\ runningList \in Seq(Hosts)
  BY RotateFacts DEF Pick, IInv, HostsInv, ListsPartition
<1>2. h \in Hosts
  BY <1>1
<1>3. answer' = Serve(h) /\ ToSet(downList') = ToSet(downList)
  BY DEF Pick
<1> HIDE DEF h
<1>4. Promise!Dispatch(h)
  BY <1>1, <1>3, EmptyLists DEF Promise!Dispatch, Promise!Serve, Serve
<1> QED
  BY <1>2, <1>4 DEF Mapped, Promise!Next

LEMMA ProbeMaps ==
  ASSUME IInv, IInv', downList # <<>>, Probe
  PROVE  Mapped
<1> DEFINE h == Head(downList)
<1>1. /\ h \in ToSet(downList) /\ ToSet(downList') = ToSet(downList)
      /\ downList \in Seq(Hosts)
  BY RotateFacts DEF Probe, IInv, HostsInv, ListsPartition
<1>2. h \in Hosts
  BY <1>1
<1>3. answer' = Serve(h) /\ ToSet(runningList') = ToSet(runningList)
  BY DEF Probe
<1>4. ProbeNum - accessCnt = 0 /\ ProbeNum - accessCnt' = ProbeNum
  BY PatienceFacts DEF Probe
<1> HIDE DEF h
<1>5. Promise!Probe(h)
  BY <1>1, <1>3, <1>4 DEF Promise!Probe, Promise!Serve, Serve
<1> QED
  BY <1>2, <1>5 DEF Mapped, Promise!Next

LEMMA GetHostMaps ==
  ASSUME IInv, IInv', GetHost
  PROVE  Mapped
<1>1. runningList = <<>> => downList # <<>>
  BY EmptyLists DEF GetHost, IInv, HostsInv, ListsPartition
<1>2. CASE downList # <<>> /\ Probe
  BY <1>2, ProbeMaps
<1>3. CASE runningList = <<>> /\ Refuse
  <2>1. Promise!Refuse
    <3>1. ToSet(runningList) = {} /\ ToSet(downList) # {}
      BY <1>1, <1>3, EmptyLists
    <3>2. ProbeNum - accessCnt > 0 /\ ProbeNum - accessCnt' = (ProbeNum - accessCnt) - 1
      BY <1>3, PatienceFacts DEF Refuse
    <3>3. answer' = OVERLOAD /\ UNCHANGED <<runningList, downList>>
      BY <1>3 DEF Refuse
    <3> QED
      BY <3>1, <3>2, <3>3 DEF Promise!Refuse, Promise!OVERLOAD, OVERLOAD
  <2> QED
    BY <2>1 DEF Mapped, Promise!Next
<1>4. CASE runningList # <<>> /\ downList = <<>> /\ accessCnt' = 0 /\ Pick
  BY <1>4, PatienceFacts, PickMaps
<1>5. CASE /\ runningList # <<>> /\ downList # <<>> /\ accessCnt < ProbeNum
           /\ accessCnt' = accessCnt + 1 /\ Pick
  BY <1>5, PatienceFacts, PickMaps
<1> QED
  BY <1>1, <1>2, <1>3, <1>4, <1>5 DEF GetHost

\* A step the client sees nothing of.
LEMMA QuietMaps ==
  ASSUME answer' = NoReply, UNCHANGED <<runningList, downList, accessCnt>>
  PROVE  Mapped
<1>1. Promise!Quiet
  BY DEF Promise!Quiet, Promise!NoReply, NoReply
<1> QED
  BY <1>1 DEF Mapped, Promise!Next

\* One host may change sides.
LEMMA SettleMaps ==
  ASSUME HostsInv, NEW h \in Route, NEW hi, Settle(h, hi), answer' = NoReply,
         UNCHANGED accessCnt
  PROVE  Mapped
<1>1. /\ runningList \in Seq(Hosts) /\ downList \in Seq(Hosts) /\ h \in Hosts
      /\ Distinct(runningList) /\ Distinct(downList)
      /\ ToSet(runningList) = {g \in Route : ~hostMap[g].overload}
      /\ ToSet(downList) = {g \in Route : hostMap[g].overload}
  BY DEF HostsInv, ListsPartition
<1>2. CASE UNCHANGED <<runningList, downList>>
  BY <1>2, QuietMaps
<1>3. CASE /\ ~hostMap[h].overload
           /\ runningList' \in Without(runningList, {h})
           /\ downList' = Append(downList, h)
  <2>1. ToSet(runningList') = ToSet(runningList) \ {h}
    BY <1>1, <1>3, WithoutFacts
  <2>2. ToSet(downList') = ToSet(downList) \cup {h}
    BY <1>1, <1>3, AppendFacts
  <2>3. Promise!Judge(h)
    BY <1>1, <1>3, <2>1, <2>2 DEF Promise!Judge, Promise!NoReply, NoReply
  <2> QED
    BY <1>1, <2>3 DEF Mapped, Promise!Next
<1>4. CASE /\ hostMap[h].overload
           /\ downList' \in Without(downList, {h})
           /\ runningList' = Append(runningList, h)
  <2>1. ToSet(downList') = ToSet(downList) \ {h}
    BY <1>1, <1>4, WithoutFacts
  <2>2. ToSet(runningList') = ToSet(runningList) \cup {h}
    BY <1>1, <1>4, AppendFacts
  <2>3. Promise!Judge(h)
    BY <1>1, <1>4, <2>1, <2>2 DEF Promise!Judge, Promise!NoReply, NoReply
  <2> QED
    BY <1>1, <2>3 DEF Mapped, Promise!Next
<1> QED
  BY <1>2, <1>3, <1>4 DEF Settle

LEMMA ReportMaps ==
  ASSUME IInv, NEW h \in Hosts, NEW n \in 0..ErrCap, Report(h, n)
  PROVE  Mapped
<1>1. CASE h \in Route /\ Settle(h, Load(h, n))
  BY <1>1, SettleMaps DEF Report, IInv
<1>2. CASE UNCHANGED <<runningList, downList>>
  BY <1>2, QuietMaps DEF Report
<1> QED
  BY <1>1, <1>2 DEF Report

LEMMA BatchOneMaps ==
  ASSUME PInv, NEW h \in Hosts, BatchOne(h)
  PROVE  Mapped
<1>1. answer' = NoReply
  BY DEF BatchOne, PInv, BatchInv
<1>2. CASE h \in Route /\ Settle(h, SomeSucc(hostMap[h], batch[h], now))
  BY <1>1, <1>2, SettleMaps DEF BatchOne, PInv, IInv
<1>3. CASE UNCHANGED <<runningList, downList>>
  BY <1>1, <1>3, QuietMaps DEF BatchOne
<1> QED
  BY <1>2, <1>3 DEF BatchOne

\* The hosts that stay keep their side, those that join are trusted.
LEMMA UpdateMaps ==
  ASSUME IInv, IInv', NEW S \in SUBSET Hosts, Update(S)
  PROVE  Mapped
<1>1. now \in Nat
  BY LBAssumption DEF IInv, RestInv
<1>2. Route' = S /\ S # {} /\ answer' = NoReply /\ accessCnt' = accessCnt
  BY DEF Update, Route
<1>3. \A h \in S : hostMap'[h].overload <=> h \in Route /\ hostMap[h].overload
  <2>1. \A h \in S : hostMap'[h] = IF h \in Route THEN hostMap[h] ELSE NewHI(now)
    BY DEF Update
  <2> QED
    BY <1>1, <2>1, NewHIGood
<1>4. /\ ToSet(runningList') = {h \in S : ~hostMap'[h].overload}
      /\ ToSet(downList') = {h \in S : hostMap'[h].overload}
  BY <1>2 DEF IInv, HostsInv, ListsPartition
<1>5. ToSet(downList) = {h \in Route : hostMap[h].overload}
  BY DEF IInv, HostsInv, ListsPartition
<1>6. /\ ToSet(runningList') = S \ ToSet(downList)
      /\ ToSet(downList') = ToSet(downList) \cap S
  BY <1>3, <1>4, <1>5
<1>7. Promise!NewRoute(S)
  BY <1>2, <1>6 DEF Promise!NewRoute, Promise!NoReply, NoReply
<1> QED
  BY <1>7 DEF Mapped, Promise!Next

LEMMA DeleteMaps ==
  ASSUME IInv, IInv', Delete
  PROVE  Mapped
<1>1. ToSet(runningList') = {} /\ ToSet(downList') = {} /\ answer' = NoReply
  BY DEF Delete, ToSet
<1>2. ProbeNum - accessCnt' = ProbeNum
  BY PatienceFacts DEF Delete
<1>3. Promise!NewRoute({})
  BY <1>1, <1>2 DEF Promise!NewRoute, Promise!NoReply, NoReply
<1> QED
  BY <1>3 DEF Mapped, Promise!Next

LEMMA NextMaps == PInv /\ IInv' /\ [Next]_vars => Mapped
<1> SUFFICES ASSUME PInv, IInv', [Next]_vars PROVE Mapped
  OBVIOUS
<1>1. IInv
  BY DEF PInv
<1>2. CASE GetHost
  BY <1>1, <1>2, GetHostMaps
<1>3. ASSUME NEW h \in Hosts, NEW n \in 0..ErrCap, Report(h, n) PROVE Mapped
  BY <1>1, <1>3, ReportMaps
<1>4. ASSUME NEW results \in Batches, BatchBegin(results) PROVE Mapped
  BY <1>4, QuietMaps DEF BatchBegin
<1>5. ASSUME NEW h \in Hosts, BatchOne(h) PROVE Mapped
  BY <1>5, BatchOneMaps
<1>6. CASE BatchEnd
  BY <1>6, QuietMaps DEF BatchEnd, PInv, BatchInv
<1>7. ASSUME NEW S \in SUBSET Hosts, Update(S) PROVE Mapped
  BY <1>1, <1>7, UpdateMaps
<1>8. CASE Delete
  BY <1>1, <1>8, DeleteMaps
<1>9. CASE Tick
  BY <1>9, QuietMaps DEF Tick
<1>10. CASE UNCHANGED vars
  BY <1>10 DEF vars, Mapped, Promise!vars
<1> QED
  BY <1>2, <1>3, <1>4, <1>5, <1>6, <1>7, <1>8, <1>9, <1>10 DEF Next, BatchStep

LEMMA InitMaps == Init => Promise!Init
<1> SUFFICES ASSUME Init PROVE Promise!Init
  OBVIOUS
<1>1. ToSet(runningList) = {} /\ ToSet(downList) = {}
  BY DEF Init, ToSet
<1>2. ProbeNum - accessCnt = ProbeNum
  BY LBAssumption DEF Init
<1>3. answer = NoReply
  BY DEF Init
<1> QED
  BY <1>1, <1>2, <1>3 DEF Promise!Init, Promise!NoReply, NoReply

\* getHost, the reports and update of class LB keep the promises of Dispatcher:
\* what counts is on which side a host is and how many answers were given since
\* the last probe, not the lists, counters, windows and batches.
THEOREM LBKeepsPromise == Spec => KeepsPromise
<1>1. Spec => []PInv
  <2>1. Init => PInv
    BY InitInv, BatchInit DEF PInv
  <2>2. PInv /\ [Next]_vars => PInv'
    BY NextInv, BatchNext DEF PInv
  <2> QED
    BY <2>1, <2>2, PTL DEF Spec
<1>2. Spec => Promise!Init /\ [][Promise!Next]_(Promise!vars)
  <2>1. PInv /\ PInv' /\ [Next]_vars => [Promise!Next]_(Promise!vars)
    BY NextMaps DEF Mapped, PInv
  <2> QED
    BY <1>1, <2>1, InitMaps, PTL DEF Spec
<1> QED
  BY <1>2 DEF KeepsPromise, Promise!Spec

-----------------------------------------------------------------------------
(* Round robin: nothing a handler does to a list lets a host pass another,  *)
(* but handing that one out.                                                *)

\* push_back behind a list keeps its order.
LEMMA AppendOrder ==
  ASSUME NEW S, NEW s \in Seq(S), NEW e \in S, NEW g, NEW h, Before(s, g, h)
  PROVE  Before(Append(s, e), g, h)
<1>1. PICK i, j \in DOMAIN s : i < j /\ s[i] = g /\ s[j] = h
  BY DEF Before
<1>2. i \in 1..Len(s) /\ j \in 1..Len(s) /\ Len(s) \in Nat
  OBVIOUS
<1>3. DOMAIN Append(s, e) = 1..(Len(s) + 1)
  OBVIOUS
<1>4. i \in DOMAIN Append(s, e) /\ j \in DOMAIN Append(s, e)
  BY <1>2, <1>3
<1>5. Append(s, e)[i] = g /\ Append(s, e)[j] = h
  BY <1>1, <1>2
<1> QED
  BY <1>1, <1>4, <1>5 DEF Before

\* So do the arrivals of a route update.
LEMMA ConcatOrder ==
  ASSUME NEW S, NEW s \in Seq(S), NEW t \in Seq(S), NEW g, NEW h, Before(s, g, h)
  PROVE  Before(s \o t, g, h)
<1>1. PICK i, j \in DOMAIN s : i < j /\ s[i] = g /\ s[j] = h
  BY DEF Before
<1>2. i \in 1..Len(s) /\ j \in 1..Len(s) /\ Len(s) \in Nat /\ Len(t) \in Nat
  OBVIOUS
<1>3. DOMAIN (s \o t) = 1..(Len(s) + Len(t))
  OBVIOUS
<1>4. i \in DOMAIN (s \o t) /\ j \in DOMAIN (s \o t)
  BY <1>2, <1>3
<1>5. (s \o t)[i] = g /\ (s \o t)[j] = h
  BY <1>1, <1>2
<1> QED
  BY <1>1, <1>4, <1>5 DEF Before

\* Of a host that goes from the front to the back only itself is passed.
LEMMA RotateOrder ==
  ASSUME NEW S, NEW s \in Seq(S), NEW g, NEW h, Before(s, g, h), g # Head(s)
  PROVE  Before(Rotate(s), g, h)
<1>1. PICK i, j \in DOMAIN s : i < j /\ s[i] = g /\ s[j] = h
  BY DEF Before
<1>2. i \in 1..Len(s) /\ j \in 1..Len(s) /\ Len(s) \in Nat /\ s # <<>>
  BY <1>1
<1>3. i # 1
  BY <1>1, <1>2
<1>4. Tail(s) \in Seq(S) /\ Head(s) \in S /\ Len(Tail(s)) = Len(s) - 1
  BY <1>2
<1>5. i - 1 \in 1..Len(Tail(s)) /\ j - 1 \in 1..Len(Tail(s)) /\ i - 1 < j - 1
  BY <1>1, <1>2, <1>3, <1>4
<1>6. Tail(s)[i - 1] = g /\ Tail(s)[j - 1] = h
  BY <1>1, <1>2, <1>3, <1>5
<1>7. Before(Tail(s), g, h)
  BY <1>4, <1>5, <1>6 DEF Before
<1> QED
  BY <1>4, <1>7, AppendOrder DEF Rotate

\* list::remove leaves the others in their order.
LEMMA WithoutOrder ==
  ASSUME NEW S, NEW s \in Seq(S), Distinct(s), NEW D, NEW t \in Without(s, D),
         NEW g, NEW h, Before(s, g, h), g \in ToSet(t), h \in ToSet(t)
  PROVE  Before(t, g, h)
<1>1. PICK i, j \in DOMAIN s : i < j /\ s[i] = g /\ s[j] = h
  BY DEF Before
<1>2. PICK k, l \in DOMAIN t : t[k] = g /\ t[l] = h
  BY DEF ToSet
<1>3. t \in Seq(S)
  BY WithoutFacts
<1>4. i \in Nat /\ j \in Nat /\ k \in Nat /\ l \in Nat
  BY <1>1, <1>2, <1>3
<1>5. g # h
  BY <1>1, <1>4 DEF Distinct
<1>6. ~(l < k)
  <2> SUFFICES ASSUME l < k PROVE FALSE
    OBVIOUS
  <2>1. PICK a, b \in DOMAIN s : a < b /\ s[a] = t[l] /\ s[b] = t[k]
    BY <1>2 DEF Without
  <2>2. a = j /\ b = i
    BY <1>1, <1>2, <2>1 DEF Distinct
  <2> QED
    BY <1>1, <1>4, <2>1, <2>2
<1>7. k < l
  BY <1>2, <1>4, <1>5, <1>6
<1> QED
  BY <1>2, <1>7 DEF Before

\* Both lists, from one state to the next.
Ordered == KeepsOrder(runningList, runningList', answer')
           /\ KeepsOrder(downList, downList', answer')

LEMMA ServeInjective == ASSUME NEW g, NEW h, Serve(g) = Serve(h) PROVE g = h
<1>1. Serve(g).host = g /\ Serve(h).host = h
  BY DEF Serve
<1> QED
  BY <1>1

\* A list that stays is in order.
LEMMA SameOrder ==
  ASSUME NEW s, NEW a PROVE KeepsOrder(s, s, a)
  BY DEF KeepsOrder

\* A list that loses hosts and gains others at its end is in order.
LEMMA PrunedOrder ==
  ASSUME NEW S, NEW s \in Seq(S), NEW e \in Seq(S), NEW u, u = s \o e,
         Distinct(u), NEW D, NEW t \in Without(u, D), NEW a
  PROVE  KeepsOrder(s, t, a)
<1> SUFFICES ASSUME NEW g \in ToSet(s) \cap ToSet(t), NEW h \in ToSet(s) \cap ToSet(t),
                    Before(s, g, h)
             PROVE  Before(t, g, h)
  BY DEF KeepsOrder
<1>1. u \in Seq(S) /\ Before(u, g, h)
  BY ConcatOrder
<1> QED
  BY <1>1, WithoutOrder

LEMMA GetHostOrdered == ASSUME IInv, GetHost PROVE Ordered
<1>1. runningList \in Seq(Hosts) /\ downList \in Seq(Hosts)
  BY DEF IInv, HostsInv
<1>2. \A s \in Seq(Hosts) : answer' = Serve(Head(s)) => KeepsOrder(s, Rotate(s), answer')
  <2> SUFFICES ASSUME NEW s \in Seq(Hosts), answer' = Serve(Head(s)), NEW g, NEW h,
                      Before(s, g, h), answer' # Serve(g)
               PROVE  Before(Rotate(s), g, h)
    BY DEF KeepsOrder
  <2>1. g # Head(s)
    OBVIOUS
  <2> QED BY <2>1, RotateOrder
<1>3. CASE Pick
  BY <1>1, <1>2, <1>3, SameOrder DEF Pick, Ordered
<1>4. CASE Probe
  BY <1>1, <1>2, <1>4, SameOrder DEF Probe, Ordered
<1>5. CASE Refuse
  BY <1>5, SameOrder DEF Refuse, Ordered
<1> QED
  BY <1>3, <1>4, <1>5 DEF GetHost

LEMMA SettleOrdered ==
  ASSUME HostsInv, NEW h \in Hosts, NEW hi, Settle(h, hi) PROVE Ordered
<1>1. /\ runningList \in Seq(Hosts) /\ downList \in Seq(Hosts)
      /\ Distinct(runningList) /\ Distinct(downList)
  BY DEF HostsInv, ListsPartition
<1>2. \A s \in Seq(Hosts) : KeepsOrder(s, Append(s, h), answer')
  BY AppendOrder DEF KeepsOrder
<1>3. \A s \in Seq(Hosts) : \A t \in Without(s, {h}) :
        Distinct(s) => KeepsOrder(s, t, answer')
  BY WithoutOrder DEF KeepsOrder
<1> QED
  BY <1>1, <1>2, <1>3, SameOrder DEF Settle, Ordered

LEMMA UpdateOrdered ==
  ASSUME IInv, NEW S \in SUBSET Hosts, Update(S) PROVE Ordered
<1> DEFINE gone == Leavers(S, FALSE)
           new == S \ Route
<1>1. /\ runningList \in Seq(Hosts) /\ Distinct(runningList)
      /\ downList \in Seq(Hosts) /\ Distinct(downList)
      /\ ToSet(runningList) \subseteq Route
  BY DEF IInv, HostsInv, ListsPartition
<1>2. PICK arrived \in Listings(new) :
         runningList' \in Without(runningList \o arrived, gone)
  BY DEF Update
<1>3. arrived \in Seq(Hosts) /\ ToSet(arrived) = new /\ Distinct(arrived)
  <2>1. arrived \in Seq(new) /\ ToSet(arrived) = new /\ Distinct(arrived)
    BY <1>2, ListingsFacts
  <2>2. new \subseteq Hosts
    OBVIOUS
  <2> HIDE DEF new
  <2> QED BY <2>1, <2>2, SeqMonotonic
<1>4. ToSet(runningList) \cap ToSet(arrived) = {}
  BY <1>1, <1>3
<1>5. Distinct(runningList \o arrived)
  BY <1>1, <1>3, <1>4, ConcatFacts
<1>6. KeepsOrder(runningList, runningList', answer')
  <2> DEFINE u == runningList \o arrived
  <2>1. Distinct(u) /\ runningList' \in Without(u, gone)
    BY <1>2, <1>5
  <2> QED
    BY <1>1, <1>3, <2>1, PrunedOrder
<1>7. downList' \in Without(downList, Leavers(S, TRUE))
  BY DEF Update
<1>8. KeepsOrder(downList, downList', answer')
  BY <1>1, <1>7, WithoutOrder DEF KeepsOrder
<1> QED
  BY <1>6, <1>8 DEF Ordered

LEMMA NextOrdered == ASSUME IInv, [Next]_vars PROVE Ordered
<1>1. CASE GetHost
  BY <1>1, GetHostOrdered
<1>2. CASE \E h \in Hosts, n \in 0..ErrCap : Report(h, n)
  BY <1>2, SettleOrdered, SameOrder DEF Report, Ordered, IInv
<1>3. CASE \E h \in Hosts : BatchOne(h)
  BY <1>3, SettleOrdered, SameOrder DEF BatchOne, Ordered, IInv
<1>4. CASE \E S \in SUBSET Hosts : Update(S)
  BY <1>4, UpdateOrdered
<1>5. CASE Delete
  <2>1. ToSet(runningList') = {} /\ ToSet(downList') = {}
    BY <1>5 DEF Delete, ToSet
  <2> QED BY <2>1 DEF Ordered, KeepsOrder
<1>6. CASE \/ \E results \in Batches : BatchBegin(results)
           \/ BatchEnd \/ Tick \/ UNCHANGED vars
  BY <1>6, SameOrder DEF BatchBegin, BatchEnd, Tick, vars, Ordered
<1> QED
  BY <1>1, <1>2, <1>3, <1>4, <1>5, <1>6 DEF Next, BatchStep

\* Picks and probes take the front of a list and put it at the back; reports
\* and routes remove hosts or append them: no host passes another one of its
\* list otherwise, for any number of hosts.
THEOREM SchedulingIsRoundRobin == Spec => RoundRobin
<1>1. IInv /\ [Next]_vars =>
        [/\ KeepsOrder(runningList, runningList', answer')
         /\ KeepsOrder(downList, downList', answer')]_vars
  BY NextOrdered DEF Ordered
<1> QED
  BY <1>1, SpecInv, PTL DEF Spec, RoundRobin

==============================================================================
