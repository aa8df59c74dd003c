---------------------------- MODULE ReporterProofs ----------------------------
(***************************************************************************)
(* Theorems on Reporter: its state is well formed, and the rows of a       *)
(* module never go back to an older report.                                *)
(***************************************************************************)
EXTENDS Reporter, SequenceTheorems, TLAPS

USE ReporterAssumption

-----------------------------------------------------------------------------
(* The inductive invariant.                                                *)

\* The time y is that of the same report as x, or of a later one.
Later(x, y) == x = y \/ y - x >= ReportTimo - 1

Before(S, T) == \A x \in S, y \in T : Later(x, y)

\* The times of the reports of m in a queue, which are in order.
Stamps(m, q) == {q[i].ts : i \in {j \in DOMAIN q : q[j].mod = m}}

Sorted(m, q) ==
    \A i, j \in DOMAIN q : i < j /\ q[i].mod = m /\ q[j].mod = m => Later(q[i].ts, q[j].ts)

\* A report passes four queues on its way to the rows X, and none overtakes.
Ordered(m, X, a, b, c, d) ==
    /\ Sorted(m, a) /\ Sorted(m, b) /\ Sorted(m, c) /\ Sorted(m, d)
    /\ Before(X, Stamps(m, a)) /\ Before(X, Stamps(m, b))
    /\ Before(X, Stamps(m, c)) /\ Before(X, Stamps(m, d))
    /\ Before(Stamps(m, a), Stamps(m, b)) /\ Before(Stamps(m, a), Stamps(m, c))
    /\ Before(Stamps(m, a), Stamps(m, d)) /\ Before(Stamps(m, b), Stamps(m, c))
    /\ Before(Stamps(m, b), Stamps(m, d)) /\ Before(Stamps(m, c), Stamps(m, d))

RowStamps(m) == {row[m][c] : c \in Columns} \ {Never}

AllStamps(m, X, a, b, c, d) ==
    X \cup Stamps(m, a) \cup Stamps(m, b) \cup Stamps(m, c) \cup Stamps(m, d)

\* The next report of the module, ReportTimo after lstRptTime at least, is later.
Past(m, x) == x <= now /\ (route[m] # {} => x <= lstRptTime[m] + 1)

Line(m) ==
    Ordered(m, RowStamps(m), queries[HashTo(m)], rptQueues[HashTo(m)], wire, reptQueue)

LineStamps(m) ==
    AllStamps(m, RowStamps(m), queries[HashTo(m)], rptQueues[HashTo(m)], wire, reptQueue)

InLine(m) == Line(m) /\ \A x \in LineStamps(m) : Past(m, x)

\* A thread has only reports of its modules.
OwnThread ==
    \A t \in Threads :
       /\ \A i \in DOMAIN rptQueues[t] : HashTo(rptQueues[t][i].mod) = t
       /\ \A i \in DOMAIN queries[t] : HashTo(queries[t][i].mod) = t

IInv == TypeOK /\ OwnThread /\ \A m \in Mods : InLine(m)

-----------------------------------------------------------------------------
(* Queues.                                                                  *)

LEMMA LaterFacts ==
  ASSUME NEW x \in Int, NEW y \in Int, NEW z \in Int
  PROVE  /\ Later(x, x)
         /\ Later(x, y) /\ Later(y, z) => Later(x, z)
  <1>1. ReportTimo \in Nat \ {0}
    OBVIOUS
  <1>2. QED
    BY <1>1 DEF Later

LEMMA LaterIf ==
  ASSUME NEW x \in Int, NEW y \in Int, NEW z \in Int, NEW l \in Int,
         z - l >= ReportTimo, y >= z, x <= l + 1
  PROVE  Later(x, y)
  <1>1. ReportTimo \in Int
    OBVIOUS
  <1>2. y - x >= ReportTimo - 1
    BY <1>1
  <1>3. QED
    BY <1>2 DEF Later

LEMMA QueueFacts ==
  ASSUME NEW q \in Seq(Reports)
  PROVE  /\ DOMAIN q = 1..Len(q) /\ Len(q) \in Nat
         /\ \A i \in DOMAIN q : q[i] \in Reports /\ q[i].mod \in Mods /\ q[i].ts \in 0..MaxNow
         /\ \A m \in Mods : Stamps(m, q) \subseteq 0..MaxNow
  <1>1. DOMAIN q = 1..Len(q) /\ Len(q) \in Nat /\ \A i \in DOMAIN q : q[i] \in Reports
    BY LenProperties, ElementOfSeq
  <1>2. \A i \in DOMAIN q : q[i].mod \in Mods /\ q[i].ts \in 0..MaxNow
    BY <1>1 DEF Reports
  <1>3. QED
    BY <1>1, <1>2 DEF Stamps

LEMMA HeadFacts ==
  ASSUME NEW q \in Seq(Reports), q # <<>>
  PROVE  /\ Head(q) \in Reports /\ Tail(q) \in Seq(Reports) /\ Head(q) = q[1]
         /\ DOMAIN q = 1..Len(q) /\ DOMAIN Tail(q) = 1..(Len(q) - 1)
         /\ Len(q) \in Nat \ {0}
         /\ \A i \in 1..(Len(q) - 1) : Tail(q)[i] = q[i + 1]
  <1>1. /\ Head(q) \in Reports /\ Tail(q) \in Seq(Reports)
        /\ Len(q) \in Nat \ {0} /\ Len(Tail(q)) = Len(q) - 1
        /\ \A i \in 1..Len(Tail(q)) : Tail(q)[i] = q[i + 1]
    BY HeadTailProperties, EmptySeq
  <1>2. DOMAIN q = 1..Len(q) /\ DOMAIN Tail(q) = 1..Len(Tail(q))
    BY <1>1, LenProperties
  <1>3. Head(q) = q[1]
    BY <1>1
  <1>4. QED
    BY <1>1, <1>2, <1>3

\* What is about m in the queue new stands in old, k places further back.
Within(m, new, old) ==
    \E k \in Nat : \A i \in DOMAIN new :
       new[i].mod = m => /\ i + k \in DOMAIN old /\ old[i + k].mod = m
                         /\ new[i].ts = old[i + k].ts

LEMMA WithinFacts ==
  ASSUME NEW m \in Mods, NEW old \in Seq(Reports), NEW new \in Seq(Reports),
         Within(m, new, old)
  PROVE  /\ Stamps(m, new) \subseteq Stamps(m, old)
         /\ Sorted(m, old) => Sorted(m, new)
  <1>1. PICK k \in Nat : \A i \in DOMAIN new :
           new[i].mod = m => /\ i + k \in DOMAIN old /\ old[i + k].mod = m
                             /\ new[i].ts = old[i + k].ts
    BY DEF Within
  <1>2. Stamps(m, new) \subseteq Stamps(m, old)
    BY <1>1 DEF Stamps
  <1>3. ASSUME Sorted(m, old), NEW i \in DOMAIN new, NEW j \in DOMAIN new, i < j,
               new[i].mod = m, new[j].mod = m
        PROVE  Later(new[i].ts, new[j].ts)
    <2>1. i + k < j + k
      BY <1>3, QueueFacts
    <2>2. QED
      BY <1>1, <1>3, <2>1 DEF Sorted
  <1>4. QED
    BY <1>2, <1>3 DEF Sorted

LEMMA WithinSame ==
  ASSUME NEW m, NEW q \in Seq(Reports)
  PROVE  Within(m, q, q)
  <1>1. \A i \in DOMAIN q : i + 0 = i
    BY QueueFacts
  <1>2. \A i \in DOMAIN q :
           q[i].mod = m => i + 0 \in DOMAIN q /\ q[i + 0].mod = m /\ q[i].ts = q[i + 0].ts
    BY <1>1
  <1>3. QED
    BY <1>2 DEF Within

LEMMA WithinEmpty ==
  ASSUME NEW m, NEW q
  PROVE  Within(m, <<>>, q)
  <1>1. DOMAIN <<>> = {}
    OBVIOUS
  <1>2. QED
    BY <1>1 DEF Within

LEMMA WithinTail ==
  ASSUME NEW m, NEW q \in Seq(Reports), q # <<>>
  PROVE  Within(m, Tail(q), q)
  <1>1. \A i \in DOMAIN Tail(q) : i + 1 \in DOMAIN q /\ Tail(q)[i] = q[i + 1]
    BY HeadFacts
  <1>2. QED
    BY <1>1 DEF Within

LEMMA WithinAppend ==
  ASSUME NEW m, NEW q \in Seq(Reports), NEW e \in Reports, e.mod # m
  PROVE  Within(m, Append(q, e), q)
  <1>1. /\ DOMAIN q = 1..Len(q) /\ Len(q) \in Nat /\ Append(q, e) \in Seq(Reports)
        /\ \A i \in 1..Len(q) : Append(q, e)[i] = q[i]
        /\ Append(q, e)[Len(q) + 1] = e /\ Len(Append(q, e)) = Len(q) + 1
    BY AppendProperties, LenProperties
  <1>2. DOMAIN Append(q, e) = 1..(Len(q) + 1)
    BY <1>1, LenProperties
  <1>3. ASSUME NEW i \in DOMAIN Append(q, e), Append(q, e)[i].mod = m
        PROVE  i + 0 \in DOMAIN q /\ Append(q, e)[i] = q[i + 0]
    <2>1. i # Len(q) + 1
      BY <1>1, <1>3
    <2>2. i \in 1..Len(q) /\ i + 0 = i
      BY <1>1, <1>2, <2>1
    <2>3. QED
      BY <1>1, <2>2
  <1>4. \A i \in DOMAIN Append(q, e) :
           Append(q, e)[i].mod = m => /\ i + 0 \in DOMAIN q /\ q[i + 0].mod = m
                                      /\ Append(q, e)[i].ts = q[i + 0].ts
    BY <1>3
  <1>5. QED
    BY <1>4 DEF Within

LEMMA WithinPrefix ==
  ASSUME NEW m, NEW q \in Seq(Reports), NEW n \in 0..Len(q)
  PROVE  /\ SubSeq(q, 1, n) \in Seq(Reports) /\ SubSeq(q, n + 1, Len(q)) \in Seq(Reports)
         /\ Within(m, SubSeq(q, 1, n), q)
  <1>1. DOMAIN q = 1..Len(q) /\ Len(q) \in Nat /\ \A i \in 1..Len(q) : q[i] \in Reports
    BY QueueFacts
  <1>2. /\ n \in Int /\ n + 1 \in Int /\ 1 \in Int /\ Len(q) \in Int
        /\ \A i \in 1..n : q[i] \in Reports
        /\ \A i \in (n + 1)..Len(q) : q[i] \in Reports
    BY <1>1
  <1>3. /\ SubSeq(q, 1, n) \in Seq(Reports)
        /\ Len(SubSeq(q, 1, n)) = IF 1 <= n THEN n - 1 + 1 ELSE 0
        /\ \A i \in 1..(n - 1 + 1) : SubSeq(q, 1, n)[i] = q[1 + i - 1]
    BY <1>2, SubSeqProperties
  <1>4. SubSeq(q, n + 1, Len(q)) \in Seq(Reports)
    BY <1>2, SubSeqProperties
  <1>5. DOMAIN SubSeq(q, 1, n) = 1..n
    <2>1. Len(SubSeq(q, 1, n)) = n
      BY <1>2, <1>3
    <2>2. QED
      BY <1>3, <2>1, LenProperties
  <1>6. \A i \in 1..n : i + 0 \in DOMAIN q /\ SubSeq(q, 1, n)[i] = q[i + 0]
    BY <1>1, <1>2, <1>3
  <1>7. Within(m, SubSeq(q, 1, n), q)
    BY <1>5, <1>6 DEF Within
  <1>8. QED
    BY <1>3, <1>4, <1>7

ModsOf(q) == {q[i].mod : i \in DOMAIN q}

\* A report whose host h is done has one host less, or is gone.
LEMMA DoneFacts ==
  ASSUME NEW m, NEW q \in Seq(Reports), q # <<>>, NEW h
  PROVE  /\ Done(q, h) \in Seq(Reports) /\ Within(m, Done(q, h), q)
         /\ ModsOf(Done(q, h)) \subseteq ModsOf(q)
  <1>1. CASE Head(q).hosts = {h}
    <2>1. Done(q, h) = Tail(q)
      BY <1>1 DEF Done
    <2>2. \A i \in DOMAIN Tail(q) : i + 1 \in DOMAIN q /\ Tail(q)[i] = q[i + 1]
      BY HeadFacts
    <2>3. QED
      BY <2>1, <2>2, HeadFacts, WithinTail DEF ModsOf
  <1>2. CASE Head(q).hosts # {h}
    <2> DEFINE hs == Head(q).hosts \ {h}
               e == [Head(q) EXCEPT !.hosts = hs]
    <2>1. Done(q, h) = <<e>> \o Tail(q)
      BY <1>2, Zenon DEF Done
    <2>2. e \in Reports /\ e.mod = Head(q).mod /\ e.ts = Head(q).ts
      <3>1. Head(q) \in Reports
        BY HeadFacts
      <3>2. hs \in SUBSET Hosts
        BY <3>1 DEF Reports
      <3> HIDE DEF hs
      <3>3. QED
        BY <3>1, <3>2 DEF Reports
    <2> HIDE DEF e
    <2>3. <<e>> \in Seq(Reports) /\ Len(<<e>>) = 1 /\ <<e>>[1] = e
      BY <2>2
    <2>4. /\ Tail(q) \in Seq(Reports) /\ Len(Tail(q)) = Len(q) - 1
          /\ \A i \in 1..(Len(q) - 1) : Tail(q)[i] = q[i + 1]
          /\ Len(q) \in Nat \ {0} /\ Head(q) = q[1] /\ DOMAIN q = 1..Len(q)
      BY HeadFacts, HeadTailProperties
    <2>5. /\ <<e>> \o Tail(q) \in Seq(Reports)
          /\ Len(<<e>> \o Tail(q)) = 1 + (Len(q) - 1)
          /\ \A i \in 1..(1 + (Len(q) - 1)) :
                (<<e>> \o Tail(q))[i] = IF i <= 1 THEN <<e>>[i] ELSE Tail(q)[i - 1]
      BY <2>3, <2>4, ConcatProperties
    <2>6. DOMAIN Done(q, h) = 1..Len(q)
      <3>1. 1 + (Len(q) - 1) = Len(q)
        BY <2>4
      <3>2. QED
        BY <2>1, <2>5, <3>1, LenProperties
    <2>7. ASSUME NEW i \in 1..Len(q)
          PROVE  /\ i + 0 \in DOMAIN q /\ Done(q, h)[i].mod = q[i + 0].mod
                 /\ Done(q, h)[i].ts = q[i + 0].ts
      <3>0. Len(q) \in Nat /\ i + 0 = i /\ i \in 1..(1 + (Len(q) - 1))
        BY <2>4
      <3>1. CASE i = 1
        BY <2>1, <2>2, <2>3, <2>4, <2>5, <3>0, <3>1
      <3>2. CASE i # 1
        <4>1. Done(q, h)[i] = Tail(q)[i - 1] /\ i - 1 \in 1..(Len(q) - 1) /\ (i - 1) + 1 = i
          BY <2>1, <2>5, <3>0, <3>2
        <4>2. Done(q, h)[i] = q[i]
          BY <2>4, <4>1
        <4>3. QED
          BY <2>4, <3>0, <4>2
      <3>3. QED
        BY <3>1, <3>2
    <2>8. Within(m, Done(q, h), q)
      BY <2>6, <2>7 DEF Within
    <2>9. ModsOf(Done(q, h)) \subseteq ModsOf(q)
      BY <2>4, <2>6, <2>7 DEF ModsOf
    <2>10. QED
      BY <2>1, <2>5, <2>8, <2>9
  <1>3. QED
    BY <1>1, <1>2

LEMMA AppendStamps ==
  ASSUME NEW m \in Mods, NEW q \in Seq(Reports), NEW e \in Reports, e.mod = m
  PROVE  /\ Append(q, e) \in Seq(Reports)
         /\ Stamps(m, Append(q, e)) = Stamps(m, q) \cup {e.ts}
         /\ Sorted(m, q) /\ Before(Stamps(m, q), {e.ts}) => Sorted(m, Append(q, e))
  <1>1. /\ DOMAIN q = 1..Len(q) /\ Len(q) \in Nat /\ Append(q, e) \in Seq(Reports)
        /\ \A i \in 1..Len(q) : Append(q, e)[i] = q[i]
        /\ Append(q, e)[Len(q) + 1] = e /\ Len(Append(q, e)) = Len(q) + 1
    BY AppendProperties, LenProperties
  <1>2. DOMAIN Append(q, e) = 1..(Len(q) + 1)
    BY <1>1, LenProperties
  <1>3. \A i \in DOMAIN Append(q, e) :
           \/ i \in DOMAIN q /\ Append(q, e)[i] = q[i]
           \/ i = Len(q) + 1 /\ Append(q, e)[i] = e
    BY <1>1, <1>2
  <1>4. /\ \A i \in DOMAIN q : i \in DOMAIN Append(q, e) /\ Append(q, e)[i] = q[i]
        /\ Len(q) + 1 \in DOMAIN Append(q, e)
    BY <1>1, <1>2
  <1>5. Stamps(m, Append(q, e)) = Stamps(m, q) \cup {e.ts}
    <2>1. Stamps(m, Append(q, e)) \subseteq Stamps(m, q) \cup {e.ts}
      BY <1>3 DEF Stamps
    <2>2. Stamps(m, q) \cup {e.ts} \subseteq Stamps(m, Append(q, e))
      BY <1>1, <1>4 DEF Stamps
    <2>3. QED
      BY <2>1, <2>2
  <1>6. ASSUME Sorted(m, q), Before(Stamps(m, q), {e.ts}),
               NEW i \in DOMAIN Append(q, e), NEW j \in DOMAIN Append(q, e), i < j,
               Append(q, e)[i].mod = m, Append(q, e)[j].mod = m
        PROVE  Later(Append(q, e)[i].ts, Append(q, e)[j].ts)
    <2>1. i \in DOMAIN q /\ Append(q, e)[i] = q[i]
      BY <1>1, <1>2, <1>6
    <2>2. q[i].ts \in Stamps(m, q)
      BY <1>6, <2>1 DEF Stamps
    <2>3. QED
      BY <1>3, <1>6, <2>1, <2>2 DEF Sorted, Before
  <1>7. QED
    BY <1>1, <1>5, <1>6 DEF Sorted

LEMMA ConcatStamps ==
  ASSUME NEW m \in Mods, NEW q \in Seq(Reports), NEW r \in Seq(Reports)
  PROVE  /\ q \o r \in Seq(Reports)
         /\ Stamps(m, q \o r) \subseteq Stamps(m, q) \cup Stamps(m, r)
         /\ Sorted(m, q) /\ Sorted(m, r) /\ Before(Stamps(m, q), Stamps(m, r))
               => Sorted(m, q \o r)
  <1>1. /\ q \o r \in Seq(Reports) /\ Len(q \o r) = Len(q) + Len(r)
        /\ \A i \in 1..(Len(q) + Len(r)) :
              (q \o r)[i] = IF i <= Len(q) THEN q[i] ELSE r[i - Len(q)]
        /\ DOMAIN q = 1..Len(q) /\ DOMAIN r = 1..Len(r) /\ Len(q) \in Nat /\ Len(r) \in Nat
    BY ConcatProperties, LenProperties
  <1>2. DOMAIN (q \o r) = 1..(Len(q) + Len(r))
    BY <1>1, LenProperties
  <1>3. \A i \in DOMAIN (q \o r) :
           \/ i <= Len(q) /\ i \in DOMAIN q /\ (q \o r)[i] = q[i]
           \/ i > Len(q) /\ i - Len(q) \in DOMAIN r /\ (q \o r)[i] = r[i - Len(q)]
    BY <1>1, <1>2
  <1>4. Stamps(m, q \o r) \subseteq Stamps(m, q) \cup Stamps(m, r)
    BY <1>3 DEF Stamps
  <1>5. ASSUME Sorted(m, q), Sorted(m, r), Before(Stamps(m, q), Stamps(m, r)),
               NEW i \in DOMAIN (q \o r), NEW j \in DOMAIN (q \o r), i < j,
               (q \o r)[i].mod = m, (q \o r)[j].mod = m
        PROVE  Later((q \o r)[i].ts, (q \o r)[j].ts)
    <2>1. i \in Int /\ j \in Int /\ Len(q) \in Int
      BY <1>1, <1>2
    <2>2. CASE j <= Len(q)
      <3>1. i <= Len(q)
        BY <1>5, <2>1, <2>2
      <3>2. /\ i \in DOMAIN q /\ (q \o r)[i] = q[i] /\ j \in DOMAIN q /\ (q \o r)[j] = q[j]
        BY <1>3, <2>1, <2>2, <3>1
      <3>3. QED
        BY <1>5, <3>2 DEF Sorted
    <2>3. CASE i > Len(q)
      <3>1. j > Len(q) /\ i - Len(q) < j - Len(q)
        BY <1>5, <2>1, <2>3
      <3>2. /\ i - Len(q) \in DOMAIN r /\ (q \o r)[i] = r[i - Len(q)]
            /\ j - Len(q) \in DOMAIN r /\ (q \o r)[j] = r[j - Len(q)]
        BY <1>3, <2>1, <2>3, <3>1
      <3>3. QED
        BY <1>5, <3>1, <3>2 DEF Sorted
    <2>4. CASE i <= Len(q) /\ j > Len(q)
      <3>1. /\ i \in DOMAIN q /\ (q \o r)[i] = q[i]
            /\ j - Len(q) \in DOMAIN r /\ (q \o r)[j] = r[j - Len(q)]
        BY <1>3, <2>1, <2>4
      <3>2. q[i].ts \in Stamps(m, q) /\ r[j - Len(q)].ts \in Stamps(m, r)
        BY <1>5, <3>1 DEF Stamps
      <3>3. QED
        BY <1>5, <3>1, <3>2 DEF Before
    <2>5. QED
      BY <2>1, <2>2, <2>3, <2>4
  <1>6. QED
    BY <1>1, <1>4, <1>5 DEF Sorted

\* The first report comes before the others.
LEMMA HeadStamps ==
  ASSUME NEW m \in Mods, NEW q \in Seq(Reports), q # <<>>, Head(q).mod = m
  PROVE  /\ Head(q).ts \in Stamps(m, q)
         /\ Sorted(m, q) => \A x \in Stamps(m, q) : Later(Head(q).ts, x)
         /\ Sorted(m, q) => Before({Head(q).ts}, Stamps(m, Tail(q)))
  <1>1. Head(q) = q[1] /\ DOMAIN q = 1..Len(q) /\ Len(q) \in Nat \ {0} /\ 1 \in DOMAIN q
    BY HeadFacts
  <1>2. Head(q).ts \in Stamps(m, q)
    BY <1>1 DEF Stamps
  <1>3. ASSUME Sorted(m, q), NEW x \in Stamps(m, q) PROVE Later(Head(q).ts, x)
    <2>1. PICK i \in DOMAIN q : q[i].mod = m /\ x = q[i].ts
      BY DEF Stamps
    <2>2. CASE i = 1
      <3>1. x \in Int
        BY <2>1, QueueFacts
      <3>2. QED
        BY <1>1, <2>1, <2>2, <3>1, LaterFacts
    <2>3. CASE i # 1
      BY <1>1, <1>3, <2>1, <2>3 DEF Sorted
    <2>4. QED
      BY <2>2, <2>3
  <1>4. Stamps(m, Tail(q)) \subseteq Stamps(m, q)
    BY WithinTail, WithinFacts, HeadFacts
  <1>5. QED
    BY <1>2, <1>3, <1>4 DEF Before

-----------------------------------------------------------------------------
(* The queues of a module, from the rows X to the agent.                    *)

LEMMA BeforeFacts ==
  ASSUME NEW S, NEW T, NEW S1 \in SUBSET S, NEW T1 \in SUBSET T, Before(S, T)
  PROVE  Before(S1, T1)
  BY DEF Before

\* Nothing moves, and something may be gone.
LEMMA OrderedWithin ==
  ASSUME NEW m \in Mods, NEW X,
         NEW a \in Seq(Reports), NEW b \in Seq(Reports), NEW c \in Seq(Reports),
         NEW d \in Seq(Reports), NEW a1 \in Seq(Reports), NEW b1 \in Seq(Reports),
         NEW c1 \in Seq(Reports), NEW d1 \in Seq(Reports),
         Within(m, a1, a), Within(m, b1, b), Within(m, c1, c), Within(m, d1, d),
         Ordered(m, X, a, b, c, d)
  PROVE  /\ Ordered(m, X, a1, b1, c1, d1)
         /\ AllStamps(m, X, a1, b1, c1, d1) \subseteq AllStamps(m, X, a, b, c, d)
  <1>1. /\ Stamps(m, a1) \subseteq Stamps(m, a) /\ Stamps(m, b1) \subseteq Stamps(m, b)
        /\ Stamps(m, c1) \subseteq Stamps(m, c) /\ Stamps(m, d1) \subseteq Stamps(m, d)
    BY WithinFacts
  <1>2. Sorted(m, a1) /\ Sorted(m, b1) /\ Sorted(m, c1) /\ Sorted(m, d1)
    BY WithinFacts DEF Ordered
  <1>3. /\ Before(X, Stamps(m, a1)) /\ Before(X, Stamps(m, b1))
        /\ Before(X, Stamps(m, c1)) /\ Before(X, Stamps(m, d1))
    BY <1>1 DEF Ordered, Before
  <1>4. /\ Before(Stamps(m, a1), Stamps(m, b1)) /\ Before(Stamps(m, a1), Stamps(m, c1))
        /\ Before(Stamps(m, a1), Stamps(m, d1)) /\ Before(Stamps(m, b1), Stamps(m, c1))
        /\ Before(Stamps(m, b1), Stamps(m, d1)) /\ Before(Stamps(m, c1), Stamps(m, d1))
    BY <1>1 DEF Ordered, Before
  <1>5. QED
    BY <1>1, <1>2, <1>3, <1>4 DEF Ordered, AllStamps

LEMMA EmptyQueue ==
  ASSUME NEW m
  PROVE  <<>> \in Seq(Reports) /\ Stamps(m, <<>>) = {} /\ Sorted(m, <<>>)
  BY EmptySeq DEF Stamps, Sorted

\* A thread takes its queue.
LEMMA OrderedTake ==
  ASSUME NEW m \in Mods, NEW X, NEW b \in Seq(Reports), NEW c \in Seq(Reports),
         NEW d \in Seq(Reports), Ordered(m, X, <<>>, b, c, d)
  PROVE  /\ Ordered(m, X, b, <<>>, c, d)
         /\ AllStamps(m, X, b, <<>>, c, d) = AllStamps(m, X, <<>>, b, c, d)
  BY EmptyQueue DEF Ordered, Before, AllStamps

\* The main thread gives the thread the first report c has.
LEMMA OrderedPass ==
  ASSUME NEW m \in Mods, NEW X, NEW a \in Seq(Reports), NEW b \in Seq(Reports),
         NEW c \in Seq(Reports), NEW d \in Seq(Reports), c # <<>>, Head(c).mod = m,
         Ordered(m, X, a, b, c, d)
  PROVE  /\ Ordered(m, X, a, Append(b, Head(c)), Tail(c), d)
         /\ AllStamps(m, X, a, Append(b, Head(c)), Tail(c), d)
               \subseteq AllStamps(m, X, a, b, c, d)
  <1>1. PICK e \in Reports : e = Head(c)
    BY HeadFacts
  <1>2. /\ e.mod = m /\ e.ts \in Stamps(m, c) /\ Before({e.ts}, Stamps(m, Tail(c)))
    BY <1>1, HeadStamps DEF Ordered
  <1>3. Stamps(m, Tail(c)) \subseteq Stamps(m, c) /\ Sorted(m, Tail(c))
    BY HeadFacts, WithinTail, WithinFacts DEF Ordered
  <1>4. Before(Stamps(m, b), {e.ts})
    BY <1>2 DEF Ordered, Before
  <1>5. /\ Stamps(m, Append(b, e)) = Stamps(m, b) \cup {e.ts}
        /\ Sorted(m, Append(b, e))
    BY <1>2, <1>4, AppendStamps DEF Ordered
  <1>6. Ordered(m, X, a, Append(b, e), Tail(c), d)
    BY <1>2, <1>3, <1>5 DEF Ordered, Before
  <1>7. QED
    BY <1>1, <1>2, <1>3, <1>5, <1>6 DEF AllStamps

\* The client sends its queue.
LEMMA OrderedSend ==
  ASSUME NEW m \in Mods, NEW X, NEW a \in Seq(Reports), NEW b \in Seq(Reports),
         NEW c \in Seq(Reports), NEW d \in Seq(Reports), Ordered(m, X, a, b, c, d)
  PROVE  /\ Ordered(m, X, a, b, c \o d, <<>>)
         /\ AllStamps(m, X, a, b, c \o d, <<>>) \subseteq AllStamps(m, X, a, b, c, d)
  <1>1. /\ Stamps(m, c \o d) \subseteq Stamps(m, c) \cup Stamps(m, d)
        /\ Sorted(m, c \o d)
    BY ConcatStamps DEF Ordered
  <1>2. Stamps(m, <<>>) = {} /\ Sorted(m, <<>>)
    BY EmptyQueue
  <1>3. Ordered(m, X, a, b, c \o d, <<>>)
    BY <1>1, <1>2 DEF Ordered, Before
  <1>4. QED
    BY <1>1, <1>2, <1>3 DEF AllStamps

\* A report e is made.
LEMMA OrderedMake ==
  ASSUME NEW m \in Mods, NEW X, NEW a \in Seq(Reports), NEW b \in Seq(Reports),
         NEW c \in Seq(Reports), NEW d \in Seq(Reports), NEW e \in Reports, e.mod = m,
         Ordered(m, X, a, b, c, d), \A x \in AllStamps(m, X, a, b, c, d) : Later(x, e.ts)
  PROVE  Ordered(m, X, a, b, c, Append(d, e))
  <1>1. Before(Stamps(m, d), {e.ts})
    BY DEF AllStamps, Before
  <1>2. /\ Stamps(m, Append(d, e)) = Stamps(m, d) \cup {e.ts}
        /\ Sorted(m, Append(d, e))
    BY <1>1, AppendStamps DEF Ordered
  <1>3. QED
    BY <1>2 DEF Ordered, Before, AllStamps

LEMMA MadeStamps ==
  ASSUME NEW m \in Mods, NEW X, NEW a, NEW b, NEW c, NEW d \in Seq(Reports),
         NEW e \in Reports, e.mod = m
  PROVE  AllStamps(m, X, a, b, c, Append(d, e)) = AllStamps(m, X, a, b, c, d) \cup {e.ts}
  <1>1. Stamps(m, Append(d, e)) = Stamps(m, d) \cup {e.ts}
    BY AppendStamps
  <1>2. QED
    BY <1>1 DEF AllStamps

\* The first report of a is written for the host h.
LEMMA OrderedWrite ==
  ASSUME NEW m \in Mods, NEW X, NEW Y, NEW a \in Seq(Reports), NEW b \in Seq(Reports),
         NEW c \in Seq(Reports), NEW d \in Seq(Reports), NEW h,
         a # <<>>, Head(a).mod = m, Ordered(m, X, a, b, c, d), Y \subseteq X \cup {Head(a).ts}
  PROVE  /\ Ordered(m, Y, Done(a, h), b, c, d)
         /\ AllStamps(m, Y, Done(a, h), b, c, d) \subseteq AllStamps(m, X, a, b, c, d)
  <1>1. /\ Stamps(m, Done(a, h)) \subseteq Stamps(m, a) /\ Sorted(m, Done(a, h))
    BY DoneFacts, WithinFacts DEF Ordered
  <1>2. /\ Head(a).ts \in Stamps(m, a)
        /\ \A x \in Stamps(m, a) : Later(Head(a).ts, x)
    BY HeadStamps DEF Ordered
  <1>3. /\ Before(Y, Stamps(m, Done(a, h))) /\ Before(Y, Stamps(m, b))
        /\ Before(Y, Stamps(m, c)) /\ Before(Y, Stamps(m, d))
    BY <1>1, <1>2 DEF Ordered, Before
  <1>4. /\ Before(Stamps(m, Done(a, h)), Stamps(m, b))
        /\ Before(Stamps(m, Done(a, h)), Stamps(m, c))
        /\ Before(Stamps(m, Done(a, h)), Stamps(m, d))
    BY <1>1 DEF Ordered, Before
  <1>5. Ordered(m, Y, Done(a, h), b, c, d)
    BY <1>1, <1>3, <1>4 DEF Ordered
  <1>6. QED
    BY <1>1, <1>2, <1>5 DEF AllStamps

-----------------------------------------------------------------------------
(* The state stays well formed.                                             *)

LEMMA EntriesType ==
  ASSUME NEW q \in Seq(Reports)
  PROVE  EntriesIn(q) \subseteq Entries
  <1>1. \A r \in ToSet(q) : r \in Reports
    BY QueueFacts DEF ToSet
  <1>2. \A r \in Reports : EntriesOf(r) \subseteq Entries
    BY DEF EntriesOf, Entries, Reports
  <1>3. QED
    BY <1>1, <1>2 DEF EntriesIn

LEMMA FaultType ==
  ASSUME TypeOK, Fault
  PROVE  faults' \in 0..MaxFault
  <1>1. faults \in 0..MaxFault /\ MaxFault \in Nat
    BY DEF TypeOK
  <1>2. QED
    BY <1>1 DEF Fault

LEMMA TickType ==
  ASSUME TypeOK, Tick
  PROVE  TypeOK'
  <1>1. now' \in 0..MaxNow
    <2>1. MaxNow \in Nat /\ now \in 0..MaxNow
      BY DEF TypeOK
    <2>2. QED
      BY <2>1 DEF Tick
  <1>2. QED
    BY <1>1 DEF Tick, TypeOK, reporterVars

LEMMA UpdateType ==
  ASSUME TypeOK, NEW m \in Mods, NEW S \in SUBSET HostsOf(m), Update(m, S)
  PROVE  TypeOK'
  <1>1. changes' \in 0..MaxChange
    <2>1. MaxChange \in Nat /\ changes \in 0..MaxChange
      BY DEF TypeOK
    <2>2. QED
      BY <2>1 DEF Update
  <1>2. route' \in [Mods -> SUBSET Hosts] /\ lstRptTime' \in [Mods -> 0..MaxNow]
    BY DEF Update, TypeOK
  <1>3. QED
    BY <1>1, <1>2 DEF Update, TypeOK, reporterVars

\* A report that is made.
LEMMA MakeFacts ==
  ASSUME TypeOK, NEW m \in Mods, Report2Rpter(m)
  PROVE  \/ UNCHANGED vars
         \/ /\ route[m] # {} /\ now - lstRptTime[m] >= ReportTimo
            /\ lstRptTime' = [lstRptTime EXCEPT ![m] = now]
            /\ now' \in 0..MaxNow /\ now' >= now /\ now' <= now + 1
            /\ \E e \in Reports : /\ e.mod = m /\ e.ts = now' /\ e = Report(m, now')
                                  /\ reptQueue' = Append(reptQueue, e)
            /\ last' = [last EXCEPT ![m] = Report(m, now')]
            /\ UNCHANGED <<route, changes, connected, wire, reporterVars, lost, faults>>
  <1>1. CASE route[m] # {} /\ now - lstRptTime[m] >= ReportTimo
    <2>1. now \in 0..MaxNow /\ MaxNow \in Nat /\ route[m] \in SUBSET Hosts
      BY DEF TypeOK
    <2>2. now' \in {now, now + 1} /\ now' \in 0..MaxNow
      BY <1>1 DEF Report2Rpter
    <2>3. now' >= now /\ now' <= now + 1
      BY <2>1, <2>2
    <2>4. Report(m, now') \in Reports /\ Report(m, now').mod = m /\ Report(m, now').ts = now'
      BY <2>1, <2>2 DEF Report, Reports
    <2>5. QED
      BY <1>1, <2>2, <2>3, <2>4 DEF Report2Rpter
  <1>2. QED
    BY <1>1 DEF Report2Rpter

LEMMA StutterType ==
  ASSUME TypeOK, UNCHANGED vars
  PROVE  TypeOK'
  BY DEF TypeOK, vars, agentVars, reporterVars

LEMMA Report2RpterType ==
  ASSUME TypeOK, NEW m \in Mods, Report2Rpter(m)
  PROVE  TypeOK'
  <1>1. CASE /\ lstRptTime' = [lstRptTime EXCEPT ![m] = now]
             /\ now' \in 0..MaxNow
             /\ \E e \in Reports : /\ e = Report(m, now')
                                   /\ reptQueue' = Append(reptQueue, e)
             /\ last' = [last EXCEPT ![m] = Report(m, now')]
             /\ UNCHANGED <<route, changes, connected, wire, reporterVars, lost, faults>>
    <2>1. PICK e \in Reports : e = Report(m, now') /\ reptQueue' = Append(reptQueue, e)
      BY <1>1
    <2>2. reptQueue' \in Seq(Reports)
      BY <2>1, AppendProperties DEF TypeOK
    <2>3. lstRptTime' \in [Mods -> 0..MaxNow]
      BY <1>1 DEF TypeOK
    <2>4. e \in [mod : Mods, ts : Never..MaxNow, hosts : SUBSET Hosts]
      BY DEF Reports, Never
    <2>5. last' \in [Mods -> [mod : Mods, ts : Never..MaxNow, hosts : SUBSET Hosts]]
      BY <1>1, <2>1, <2>4 DEF TypeOK
    <2>6. QED
      BY <1>1, <2>2, <2>3, <2>5 DEF TypeOK, reporterVars
  <1>2. QED
    BY <1>1, MakeFacts, StutterType

\* Sending what is in the queue, or losing it.
LEMMA NewReportReqType ==
  ASSUME TypeOK, NewReportReq
  PROVE  TypeOK'
  <1>1. <<>> \in Seq(Reports)
    BY EmptySeq
  <1>2. wire \in Seq(Reports) /\ reptQueue \in Seq(Reports)
    BY DEF TypeOK
  <1>3. wire \o reptQueue \in Seq(Reports) /\ EntriesIn(reptQueue) \subseteq Entries
    BY <1>2, ConcatProperties, EntriesType
  <1>4. wire' \in Seq(Reports) /\ lost' \subseteq Entries
    BY <1>2, <1>3 DEF NewReportReq, Lose, TypeOK
  <1>5. QED
    BY <1>1, <1>4 DEF NewReportReq, TypeOK, agentVars, reporterVars

LEMMA ConnectType ==
  ASSUME TypeOK, Connect
  PROVE  TypeOK'
  BY DEF Connect, TypeOK, agentVars, reporterVars

LEMMA DisconnectType ==
  ASSUME TypeOK, Disconnect
  PROVE  TypeOK'
  <1>1. faults' \in 0..MaxFault
    BY FaultType DEF Disconnect
  <1>2. wire \in Seq(Reports) /\ lost \subseteq Entries
    BY DEF TypeOK
  <1>3. PICK n \in 0..Len(wire) : /\ wire' = SubSeq(wire, 1, n)
                                  /\ Lose(SubSeq(wire, n + 1, Len(wire)))
    BY DEF Disconnect
  <1>4. wire' \in Seq(Reports) /\ lost' \subseteq Entries
    BY <1>2, <1>3, WithinPrefix, EntriesType DEF Lose
  <1>5. QED
    BY <1>1, <1>4 DEF Disconnect, TypeOK, agentVars, reporterVars

LEMMA AgentCrashType ==
  ASSUME TypeOK, AgentCrash
  PROVE  TypeOK'
  <1>1. faults' \in 0..MaxFault
    BY FaultType DEF AgentCrash
  <1>2. wire \in Seq(Reports) /\ reptQueue \in Seq(Reports) /\ lost \subseteq Entries
    BY DEF TypeOK
  <1>3. PICK n \in 0..Len(wire) :
           /\ wire' = SubSeq(wire, 1, n)
           /\ Lose(SubSeq(wire, n + 1, Len(wire)) \o reptQueue)
    BY DEF AgentCrash
  <1>4. SubSeq(wire, 1, n) \in Seq(Reports) /\ SubSeq(wire, n + 1, Len(wire)) \in Seq(Reports)
    BY <1>2, WithinPrefix
  <1>5. SubSeq(wire, n + 1, Len(wire)) \o reptQueue \in Seq(Reports)
    BY <1>2, <1>4, ConcatProperties
  <1>6. wire' \in Seq(Reports) /\ lost' \subseteq Entries
    BY <1>2, <1>3, <1>4, <1>5, EntriesType DEF Lose
  <1>7. reptQueue' \in Seq(Reports)
    BY EmptySeq DEF AgentCrash
  <1>8. route' \in [Mods -> SUBSET Hosts] /\ lstRptTime' \in [Mods -> 0..MaxNow]
    BY DEF AgentCrash
  <1>9. QED
    BY <1>1, <1>6, <1>7, <1>8 DEF AgentCrash, TypeOK, reporterVars

\* The main thread has the report p.
LEMMA PassFacts ==
  ASSUME TypeOK, ReportStatus
  PROVE  \E p \in Reports :
            /\ wire # <<>> /\ p = Head(wire) /\ p.mod \in Mods /\ HashTo(p.mod) \in Threads
            /\ wire' = Tail(wire) /\ wire' \in Seq(Reports)
            /\ rptQueues' = [rptQueues EXCEPT ![HashTo(p.mod)] =
                                Append(rptQueues[HashTo(p.mod)], p)]
  <1>1. wire \in Seq(Reports) /\ wire # <<>>
    BY DEF TypeOK, ReportStatus
  <1>2. PICK p \in Reports : p = Head(wire)
    BY <1>1, HeadFacts
  <1>3. p.mod \in Mods /\ HashTo(p.mod) \in Threads
    BY DEF Reports
  <1>4. QED
    BY <1>1, <1>2, <1>3, HeadFacts DEF ReportStatus

LEMMA ReportStatusType ==
  ASSUME TypeOK, ReportStatus
  PROVE  TypeOK'
  <1>1. PICK p \in Reports :
            /\ HashTo(p.mod) \in Threads /\ wire' \in Seq(Reports)
            /\ rptQueues' = [rptQueues EXCEPT ![HashTo(p.mod)] =
                                Append(rptQueues[HashTo(p.mod)], p)]
    BY PassFacts
  <1>2. PICK t \in Threads : t = HashTo(p.mod)
    BY <1>1
  <1>3. Append(rptQueues[t], p) \in Seq(Reports)
    BY AppendProperties DEF TypeOK
  <1>4. rptQueues' \in [Threads -> Seq(Reports)]
    BY <1>1, <1>2, <1>3 DEF TypeOK
  <1>5. QED
    BY <1>1, <1>4 DEF ReportStatus, TypeOK, agentVars

LEMMA RecvMsgType ==
  ASSUME TypeOK, NEW t \in Threads, RecvMsg(t)
  PROVE  TypeOK'
  <1>1. /\ rptQueues' \in [Threads -> Seq(Reports)]
        /\ queries' \in [Threads -> Seq(Reports)]
    BY EmptySeq DEF RecvMsg, TypeOK
  <1>2. QED
    BY <1>1 DEF RecvMsg, TypeOK, agentVars

\* The thread t has done a query for the host h of the report r.
LEMMA QueryFacts ==
  ASSUME TypeOK, NEW t \in Threads, Query(t)
  PROVE  \E r \in Reports, h \in Hosts :
            /\ queries[t] # <<>> /\ r = Head(queries[t]) /\ h \in r.hosts
            /\ queries' = [queries EXCEPT ![t] = Done(queries[t], h)]
            /\ queries' \in [Threads -> Seq(Reports)]
            /\ row' \in [Mods -> [Columns -> Never..MaxNow]]
            /\ Store(r, h) \/ UNCHANGED row
            /\ (UNCHANGED <<lost, faults>>)
                 \/ (Fault /\ lost' = lost \cup {<<r.mod, r.ts, h>>})
  <1>1. queries[t] \in Seq(Reports) /\ queries[t] # <<>>
    BY DEF TypeOK, Query
  <1>2. PICK r \in Reports : r = Head(queries[t])
    BY <1>1, HeadFacts
  <1>3. PICK h \in r.hosts :
              /\ queries' = [queries EXCEPT ![t] = Done(queries[t], h)]
              /\ Store(r, h) \/ UNCHANGED row
              /\ (UNCHANGED <<lost, faults>>)
                   \/ (Fault /\ lost' = lost \cup {<<r.mod, r.ts, h>>})
    BY <1>2 DEF Query
  <1>4. h \in Hosts
    BY DEF Reports
  <1>5. Done(queries[t], h) \in Seq(Reports)
    BY <1>1, DoneFacts
  <1>6. queries' \in [Threads -> Seq(Reports)]
    BY <1>3, <1>5 DEF TypeOK
  <1>7. row' \in [Mods -> [Columns -> Never..MaxNow]]
    <2>1. row \in [Mods -> [Columns -> Never..MaxNow]]
      BY DEF TypeOK
    <2>2. r.mod \in Mods /\ r.ts \in Never..MaxNow /\ Column(h) \in Columns
      BY <1>4 DEF Reports, Never
    <2>3. CASE Store(r, h)
      BY <2>1, <2>2, <2>3 DEF Store
    <2>4. QED
      BY <1>3, <2>1, <2>3
  <1>8. QED
    BY <1>1, <1>2, <1>3, <1>4, <1>6, <1>7

LEMMA QueryType ==
  ASSUME TypeOK, NEW t \in Threads, Query(t)
  PROVE  TypeOK'
  <1>1. PICK r \in Reports, h \in Hosts :
            /\ queries' \in [Threads -> Seq(Reports)]
            /\ row' \in [Mods -> [Columns -> Never..MaxNow]]
            /\ (UNCHANGED <<lost, faults>>)
                 \/ (Fault /\ lost' = lost \cup {<<r.mod, r.ts, h>>})
    BY QueryFacts
  <1>2. <<r.mod, r.ts, h>> \in Entries
    BY DEF Entries, Reports
  <1>3. lost' \subseteq Entries /\ faults' \in 0..MaxFault
    BY <1>1, <1>2, FaultType DEF TypeOK
  <1>4. QED
    BY <1>1, <1>3 DEF Query, TypeOK, agentVars

LEMMA ReporterCrashType ==
  ASSUME TypeOK, ReporterCrash
  PROVE  TypeOK'
  <1>1. faults' \in 0..MaxFault
    BY FaultType DEF ReporterCrash
  <1>2. /\ rptQueues' \in [Threads -> Seq(Reports)]
        /\ queries' \in [Threads -> Seq(Reports)] /\ wire' \in Seq(Reports)
    BY EmptySeq DEF ReporterCrash
  <1>3. EntriesIn(wire) \subseteq Entries
    BY EntriesType DEF TypeOK
  <1>4. \A t \in Threads : EntriesIn(rptQueues[t]) \cup EntriesIn(queries[t]) \subseteq Entries
    BY EntriesType DEF TypeOK
  <1>5. lost' \subseteq Entries
    <2>1. lost' = lost \cup EntriesIn(wire)
                    \cup UNION {EntriesIn(rptQueues[t]) \cup EntriesIn(queries[t]) : t \in Threads}
      BY DEF ReporterCrash
    <2>2. lost \subseteq Entries
      BY DEF TypeOK
    <2>3. QED
      BY <1>3, <1>4, <2>1, <2>2
  <1>6. QED
    BY <1>1, <1>2, <1>5 DEF ReporterCrash, TypeOK, agentVars

LEMMA TypeNext == TypeOK /\ [Next]_vars => TypeOK'
  BY TickType, UpdateType, Report2RpterType, NewReportReqType, ConnectType,
     DisconnectType, AgentCrashType, ReportStatusType, RecvMsgType, QueryType,
     ReporterCrashType, StutterType DEF Next

LEMMA TypeInit == Init => TypeOK
  <1> SUFFICES ASSUME Init PROVE TypeOK
    OBVIOUS
  <1>1. <<>> \in Seq(Reports)
    BY EmptySeq
  <1>2. /\ reptQueue \in Seq(Reports) /\ wire \in Seq(Reports)
        /\ rptQueues \in [Threads -> Seq(Reports)] /\ queries \in [Threads -> Seq(Reports)]
    BY <1>1 DEF Init
  <1>3. Never \in Never..MaxNow /\ 0 \in 0..MaxNow
    BY DEF Never
  <1>4. /\ now \in 0..MaxNow /\ route \in [Mods -> SUBSET Hosts]
        /\ lstRptTime \in [Mods -> 0..MaxNow]
    BY <1>3 DEF Init
  <1>5. row \in [Mods -> [Columns -> Never..MaxNow]]
    BY <1>3 DEF Init
  <1>6. last \in [Mods -> [mod : Mods, ts : Never..MaxNow, hosts : SUBSET Hosts]]
    BY <1>3 DEF Init
  <1>7. /\ lost \subseteq Entries /\ connected \in BOOLEAN
        /\ changes \in 0..MaxChange /\ faults \in 0..MaxFault
    <2>1. lost = {} /\ connected = FALSE /\ changes = 0 /\ faults = 0
      BY DEF Init
    <2>2. 0 \in 0..MaxChange /\ 0 \in 0..MaxFault
      OBVIOUS
    <2>3. QED
      BY <2>1, <2>2
  <1>8. QED
    BY <1>2, <1>4, <1>5, <1>6, <1>7 DEF TypeOK

-----------------------------------------------------------------------------
(* Reports stay in line.                                                    *)

LEMMA LineTypes ==
  ASSUME TypeOK, NEW m \in Mods
  PROVE  /\ HashTo(m) \in Threads /\ wire \in Seq(Reports) /\ reptQueue \in Seq(Reports)
         /\ \A t \in Threads : queries[t] \in Seq(Reports) /\ rptQueues[t] \in Seq(Reports)
         /\ LineStamps(m) \subseteq 0..MaxNow
  <1>1. /\ HashTo(m) \in Threads /\ wire \in Seq(Reports) /\ reptQueue \in Seq(Reports)
        /\ \A t \in Threads : queries[t] \in Seq(Reports) /\ rptQueues[t] \in Seq(Reports)
    BY DEF TypeOK
  <1>2. RowStamps(m) \subseteq 0..MaxNow
    <2>1. \A c \in Columns : row[m][c] \in Never..MaxNow
      BY DEF TypeOK
    <2>2. QED
      BY <2>1 DEF RowStamps, Never
  <1>3. QED
    BY <1>1, <1>2, QueueFacts DEF LineStamps, AllStamps

\* What lies in the past of the next report goes on to.
PastKept(m) == \A x \in 0..MaxNow : Past(m, x) => Past(m, x)'

LEMMA InLineIf ==
  ASSUME TypeOK, NEW m \in Mods, InLine(m), PastKept(m), Line(m)',
         LineStamps(m)' \subseteq LineStamps(m)
  PROVE  InLine(m)'
  BY LineTypes DEF InLine, PastKept

\* A step in which the reports of m only disappear, and its rows stay.
LEMMA InLineWithin ==
  ASSUME TypeOK, TypeOK', NEW m \in Mods, InLine(m), PastKept(m), row'[m] = row[m],
         Within(m, queries'[HashTo(m)], queries[HashTo(m)]),
         Within(m, rptQueues'[HashTo(m)], rptQueues[HashTo(m)]),
         Within(m, wire', wire), Within(m, reptQueue', reptQueue)
  PROVE  InLine(m)'
  <1>1. PICK t \in Threads : t = HashTo(m)
    OBVIOUS
  <1>2. PICK a \in Seq(Reports), b \in Seq(Reports), c \in Seq(Reports), d \in Seq(Reports) :
           a = queries[t] /\ b = rptQueues[t] /\ c = wire /\ d = reptQueue
    BY DEF TypeOK
  <1>3. PICK a1 \in Seq(Reports), b1 \in Seq(Reports), c1 \in Seq(Reports),
             d1 \in Seq(Reports) :
           a1 = queries'[t] /\ b1 = rptQueues'[t] /\ c1 = wire' /\ d1 = reptQueue'
    BY DEF TypeOK
  <1>4. PICK X : X = RowStamps(m)
    OBVIOUS
  <1>5. RowStamps(m)' = X
    BY <1>4 DEF RowStamps
  <1>6. Ordered(m, X, a, b, c, d)
    BY <1>1, <1>2, <1>4 DEF InLine, Line
  <1>7. Within(m, a1, a) /\ Within(m, b1, b) /\ Within(m, c1, c) /\ Within(m, d1, d)
    BY <1>1, <1>2, <1>3
  <1>8. /\ Ordered(m, X, a1, b1, c1, d1)
        /\ AllStamps(m, X, a1, b1, c1, d1) \subseteq AllStamps(m, X, a, b, c, d)
    BY <1>6, <1>7, OrderedWithin
  <1>9. Line(m)' /\ LineStamps(m)' = AllStamps(m, X, a1, b1, c1, d1)
    BY <1>1, <1>3, <1>5, <1>8 DEF Line, LineStamps
  <1>10. LineStamps(m) = AllStamps(m, X, a, b, c, d)
    BY <1>1, <1>2, <1>4 DEF LineStamps
  <1>11. QED
    BY <1>8, <1>9, <1>10, InLineIf

LEMMA SameWithin ==
  ASSUME TypeOK, NEW m \in Mods
  PROVE  /\ queries' = queries => Within(m, queries'[HashTo(m)], queries[HashTo(m)])
         /\ rptQueues' = rptQueues => Within(m, rptQueues'[HashTo(m)], rptQueues[HashTo(m)])
         /\ wire' = wire => Within(m, wire', wire)
         /\ reptQueue' = reptQueue => Within(m, reptQueue', reptQueue)
  BY LineTypes, WithinSame

\* The clock goes on, and lstRptTime is set to a time that is not past.
LEMMA PastKeptIf ==
  ASSUME TypeOK, TypeOK', NEW m \in Mods, now' >= now,
         \/ route'[m] = {}
         \/ lstRptTime'[m] = now
         \/ route[m] # {} /\ lstRptTime'[m] = lstRptTime[m]
  PROVE  PastKept(m)
  <1>1. now \in 0..MaxNow /\ now' \in 0..MaxNow /\ MaxNow \in Nat
    BY DEF TypeOK
  <1>2. CASE route'[m] = {}
    BY <1>1, <1>2 DEF PastKept, Past
  <1>3. CASE lstRptTime'[m] = now
    BY <1>1, <1>3 DEF PastKept, Past
  <1>4. CASE route[m] # {} /\ lstRptTime'[m] = lstRptTime[m]
    BY <1>1, <1>4 DEF PastKept, Past
  <1>5. QED
    BY <1>2, <1>3, <1>4

LEMMA PastSame ==
  ASSUME TypeOK, TypeOK', NEW m \in Mods, now' >= now,
         route'[m] = route[m], lstRptTime'[m] = lstRptTime[m]
  PROVE  PastKept(m)
  BY PastKeptIf

LEMMA PastUnchanged ==
  ASSUME TypeOK, TypeOK', NEW m \in Mods, UNCHANGED agentVars
  PROVE  PastKept(m)
  <1>1. now \in Int
    BY DEF TypeOK
  <1>2. now' >= now
    BY <1>1 DEF agentVars
  <1>3. QED
    BY <1>2, PastSame DEF agentVars

LEMMA TickLine ==
  ASSUME TypeOK, TypeOK', NEW m \in Mods, InLine(m), Tick
  PROVE  InLine(m)'
  <1>1. now' >= now
    <2>1. now \in Nat
      BY DEF TypeOK
    <2>2. QED
      BY <2>1 DEF Tick
  <1>2. PastKept(m)
    BY <1>1, PastSame DEF Tick
  <1>3. QED
    BY <1>2, SameWithin, InLineWithin DEF Tick, reporterVars

LEMMA UpdateLine ==
  ASSUME TypeOK, TypeOK', NEW m \in Mods, InLine(m),
         NEW n \in Mods, NEW S \in SUBSET HostsOf(n), Update(n, S)
  PROVE  InLine(m)'
  <1>1. now' >= now
    <2>1. now \in Int
      BY DEF TypeOK
    <2>2. QED
      BY <2>1 DEF Update
  <1>2. lstRptTime' = [lstRptTime EXCEPT ![n] = IF route[n] = {} THEN now ELSE lstRptTime[n]]
        /\ route' = [route EXCEPT ![n] = S]
    BY DEF Update
  <1>3. PastKept(m)
    <2>1. CASE n = m
      BY <1>1, <1>2, <2>1, PastKeptIf DEF TypeOK
    <2>2. CASE n # m
      BY <1>1, <1>2, <2>2, PastSame DEF TypeOK
    <2>3. QED
      BY <2>1, <2>2
  <1>4. QED
    BY <1>3, SameWithin, InLineWithin DEF Update, reporterVars

LEMMA StutterLine ==
  ASSUME TypeOK, TypeOK', NEW m \in Mods, InLine(m), UNCHANGED vars
  PROVE  InLine(m)'
  BY PastUnchanged, SameWithin, InLineWithin DEF vars, reporterVars

\* Whatever is in line is ReportTimo - 1 older than the report that is made.
LEMMA Report2RpterLine ==
  ASSUME TypeOK, TypeOK', NEW m \in Mods, InLine(m), NEW n \in Mods, Report2Rpter(n)
  PROVE  InLine(m)'
  <1>1. CASE UNCHANGED vars
    BY <1>1, StutterLine
  <1>2. ASSUME route[n] # {}, now - lstRptTime[n] >= ReportTimo,
               lstRptTime' = [lstRptTime EXCEPT ![n] = now],
               now' >= now, now' <= now + 1,
               NEW e \in Reports, e.mod = n, e.ts = now', reptQueue' = Append(reptQueue, e),
               UNCHANGED <<route, wire, reporterVars>>
        PROVE  InLine(m)'
    <2>1. CASE n # m
      <3>1. PastKept(m)
        BY <1>2, <2>1, PastSame DEF TypeOK
      <3>2. Within(m, reptQueue', reptQueue)
        BY <1>2, <2>1, LineTypes, WithinAppend
      <3>3. QED
        BY <1>2, <3>1, <3>2, SameWithin, InLineWithin DEF reporterVars
    <2>2. CASE n = m
      <3>1. PICK t \in Threads : t = HashTo(m)
        OBVIOUS
      <3>2. PICK a \in Seq(Reports), b \in Seq(Reports), c \in Seq(Reports),
                 d \in Seq(Reports) :
               a = queries[t] /\ b = rptQueues[t] /\ c = wire /\ d = reptQueue
        BY DEF TypeOK
      <3>3. PICK X : X = RowStamps(m)
        OBVIOUS
      <3>4. /\ Ordered(m, X, a, b, c, d) /\ LineStamps(m) = AllStamps(m, X, a, b, c, d)
            /\ \A x \in AllStamps(m, X, a, b, c, d) : Past(m, x)
        BY <3>1, <3>2, <3>3 DEF InLine, Line, LineStamps
      <3>5. /\ now \in Nat /\ now' \in Nat /\ lstRptTime[m] \in Nat /\ ReportTimo \in Nat
            /\ lstRptTime'[m] = now
        BY <1>2, <2>2 DEF TypeOK
      <3>6. \A x \in AllStamps(m, X, a, b, c, d) : Later(x, e.ts)
        <4>1. ASSUME NEW x \in AllStamps(m, X, a, b, c, d) PROVE Later(x, e.ts)
          <5>1. x \in Int /\ x <= lstRptTime[m] + 1
            BY <1>2, <2>2, <3>4, <4>1, LineTypes DEF Past
          <5>2. PICK l \in Int, z \in Int, y \in Int :
                   l = lstRptTime[m] /\ z = now /\ y = now'
            BY <3>5
          <5>3. z - l >= ReportTimo /\ y >= z /\ x <= l + 1
            BY <1>2, <2>2, <5>1, <5>2
          <5>4. Later(x, y)
            BY <5>1, <5>3, LaterIf
          <5>5. QED
            BY <1>2, <5>2, <5>4
        <4>2. QED
          BY <4>1
      <3>7. /\ Ordered(m, X, a, b, c, Append(d, e))
            /\ AllStamps(m, X, a, b, c, Append(d, e)) = AllStamps(m, X, a, b, c, d) \cup {e.ts}
        <4>1. e.mod = m
          BY <1>2, <2>2
        <4>2. Ordered(m, X, a, b, c, d)
          BY <3>4
        <4>3. /\ m \in Mods /\ a \in Seq(Reports) /\ b \in Seq(Reports)
              /\ c \in Seq(Reports) /\ d \in Seq(Reports) /\ e \in Reports
          BY <1>2
        <4>4. Ordered(m, X, a, b, c, Append(d, e))
          BY <3>6, <4>1, <4>2, <4>3, OrderedMake
        <4>5. AllStamps(m, X, a, b, c, Append(d, e)) = AllStamps(m, X, a, b, c, d) \cup {e.ts}
          BY <4>1, <4>3, MadeStamps
        <4>6. QED
          BY <4>4, <4>5
      <3>8. RowStamps(m)' = X
        BY <1>2, <3>3 DEF RowStamps, reporterVars
      <3>9. Line(m)' /\ LineStamps(m)' = AllStamps(m, X, a, b, c, Append(d, e))
        BY <1>2, <3>1, <3>2, <3>7, <3>8 DEF Line, LineStamps, reporterVars
      <3>10. ASSUME NEW x \in LineStamps(m)' PROVE Past(m, x)'
        <4>1. CASE x = e.ts
          BY <1>2, <3>5, <4>1 DEF Past
        <4>2. CASE x \in LineStamps(m)
          <5>1. x \in 0..MaxNow /\ x <= now
            BY <3>4, <4>2, LineTypes DEF Past
          <5>2. QED
            BY <1>2, <3>5, <5>1 DEF Past
        <4>3. QED
          BY <3>4, <3>7, <3>9, <4>1, <4>2
      <3>11. QED
        BY <3>9, <3>10 DEF InLine
    <2>3. QED
      BY <2>1, <2>2
  <1>3. QED
    BY <1>1, <1>2, MakeFacts

LEMMA NewReportReqLine ==
  ASSUME TypeOK, TypeOK', NEW m \in Mods, InLine(m), NewReportReq
  PROVE  InLine(m)'
  <1>1. PastKept(m)
    BY PastUnchanged DEF NewReportReq
  <1>2. reptQueue' = <<>> /\ UNCHANGED reporterVars
    BY DEF NewReportReq
  <1>3. CASE wire' = wire
    BY <1>1, <1>2, <1>3, SameWithin, WithinEmpty, InLineWithin DEF reporterVars
  <1>4. CASE wire' = wire \o reptQueue
    <2>1. PICK t \in Threads : t = HashTo(m)
      OBVIOUS
    <2>2. PICK a \in Seq(Reports), b \in Seq(Reports), c \in Seq(Reports),
               d \in Seq(Reports) :
             a = queries[t] /\ b = rptQueues[t] /\ c = wire /\ d = reptQueue
      BY DEF TypeOK
    <2>3. PICK X : X = RowStamps(m)
      OBVIOUS
    <2>4. Ordered(m, X, a, b, c, d) /\ LineStamps(m) = AllStamps(m, X, a, b, c, d)
      BY <2>1, <2>2, <2>3 DEF InLine, Line, LineStamps
    <2>5. /\ Ordered(m, X, a, b, c \o d, <<>>)
          /\ AllStamps(m, X, a, b, c \o d, <<>>) \subseteq AllStamps(m, X, a, b, c, d)
      BY <2>4, OrderedSend
    <2>6. RowStamps(m)' = X
      BY <1>2, <2>3 DEF RowStamps, reporterVars
    <2>7. Line(m)' /\ LineStamps(m)' = AllStamps(m, X, a, b, c \o d, <<>>)
      BY <1>2, <1>4, <2>1, <2>2, <2>5, <2>6 DEF Line, LineStamps, reporterVars
    <2>8. QED
      BY <1>1, <2>4, <2>5, <2>7, InLineIf
  <1>5. QED
    BY <1>3, <1>4 DEF NewReportReq

LEMMA ConnectLine ==
  ASSUME TypeOK, TypeOK', NEW m \in Mods, InLine(m), Connect
  PROVE  InLine(m)'
  BY PastUnchanged, SameWithin, InLineWithin DEF Connect, reporterVars

LEMMA DisconnectLine ==
  ASSUME TypeOK, TypeOK', NEW m \in Mods, InLine(m), Disconnect
  PROVE  InLine(m)'
  <1>1. PICK n \in 0..Len(wire) : wire' = SubSeq(wire, 1, n)
    BY DEF Disconnect
  <1>2. Within(m, wire', wire)
    BY <1>1, LineTypes, WithinPrefix
  <1>3. QED
    BY <1>2, PastUnchanged, SameWithin, InLineWithin DEF Disconnect, reporterVars

LEMMA AgentCrashLine ==
  ASSUME TypeOK, TypeOK', NEW m \in Mods, InLine(m), AgentCrash
  PROVE  InLine(m)'
  <1>1. PICK n \in 0..Len(wire) : wire' = SubSeq(wire, 1, n)
    BY DEF AgentCrash
  <1>2. Within(m, wire', wire)
    BY <1>1, LineTypes, WithinPrefix
  <1>3. now' >= now
    <2>1. now \in Int
      BY DEF TypeOK
    <2>2. QED
      BY <2>1 DEF AgentCrash
  <1>4. route'[m] = {}
    BY DEF AgentCrash
  <1>5. PastKept(m)
    BY <1>3, <1>4, PastKeptIf
  <1>6. QED
    BY <1>2, <1>5, SameWithin, WithinEmpty, InLineWithin DEF AgentCrash, reporterVars

LEMMA ReportStatusLine ==
  ASSUME TypeOK, TypeOK', NEW m \in Mods, InLine(m), ReportStatus
  PROVE  InLine(m)'
  <1>1. PICK p \in Reports :
            /\ wire # <<>> /\ p = Head(wire) /\ p.mod \in Mods /\ HashTo(p.mod) \in Threads
            /\ wire' = Tail(wire)
            /\ rptQueues' = [rptQueues EXCEPT ![HashTo(p.mod)] =
                                Append(rptQueues[HashTo(p.mod)], p)]
    BY PassFacts
  <1>2. PastKept(m)
    BY PastUnchanged DEF ReportStatus
  <1>3. row' = row /\ queries' = queries /\ reptQueue' = reptQueue
    BY DEF ReportStatus
  <1>4. PICK t \in Threads : t = HashTo(m)
    OBVIOUS
  <1>5. CASE p.mod # m
    <2>1. Within(m, wire', wire)
      BY <1>1, LineTypes, WithinTail
    <2>2. Within(m, rptQueues'[t], rptQueues[t])
      <3>1. rptQueues[t] \in Seq(Reports)
        BY LineTypes
      <3>2. CASE HashTo(p.mod) = t
        <4>1. rptQueues'[t] = Append(rptQueues[t], p)
          BY <1>1, <3>2 DEF TypeOK
        <4>2. QED
          BY <1>5, <3>1, <4>1, WithinAppend
      <3>3. CASE HashTo(p.mod) # t
        <4>1. rptQueues'[t] = rptQueues[t]
          BY <1>1, <3>3 DEF TypeOK
        <4>2. QED
          BY <3>1, <4>1, WithinSame
      <3>4. QED
        BY <3>2, <3>3
    <2>3. QED
      BY <1>2, <1>3, <1>4, <2>1, <2>2, SameWithin, InLineWithin
  <1>6. CASE p.mod = m
    <2>1. PICK a \in Seq(Reports), b \in Seq(Reports), c \in Seq(Reports),
               d \in Seq(Reports) :
             a = queries[t] /\ b = rptQueues[t] /\ c = wire /\ d = reptQueue
      BY DEF TypeOK
    <2>2. PICK X : X = RowStamps(m)
      OBVIOUS
    <2>3. Ordered(m, X, a, b, c, d) /\ LineStamps(m) = AllStamps(m, X, a, b, c, d)
      BY <1>4, <2>1, <2>2 DEF InLine, Line, LineStamps
    <2>4. c # <<>> /\ Head(c).mod = m
      BY <1>1, <1>6, <2>1
    <2>5. /\ Ordered(m, X, a, Append(b, Head(c)), Tail(c), d)
          /\ AllStamps(m, X, a, Append(b, Head(c)), Tail(c), d)
                \subseteq AllStamps(m, X, a, b, c, d)
      BY <2>3, <2>4, OrderedPass
    <2>6. RowStamps(m)' = X
      BY <1>3, <2>2 DEF RowStamps
    <2>7. rptQueues'[t] = Append(b, Head(c)) /\ wire' = Tail(c)
      BY <1>1, <1>4, <1>6, <2>1 DEF TypeOK
    <2>8. /\ Line(m)'
          /\ LineStamps(m)' = AllStamps(m, X, a, Append(b, Head(c)), Tail(c), d)
      BY <1>3, <1>4, <2>1, <2>5, <2>6, <2>7 DEF Line, LineStamps
    <2>9. QED
      BY <1>2, <2>3, <2>5, <2>8, InLineIf
  <1>7. QED
    BY <1>5, <1>6

LEMMA RecvMsgLine ==
  ASSUME TypeOK, TypeOK', NEW m \in Mods, InLine(m), NEW u \in Threads, RecvMsg(u)
  PROVE  InLine(m)'
  <1>1. /\ queries[u] = <<>>
        /\ rptQueues' = [rptQueues EXCEPT ![u] = <<>>]
        /\ queries' = [queries EXCEPT ![u] = rptQueues[u]]
        /\ row' = row /\ wire' = wire /\ reptQueue' = reptQueue
    BY DEF RecvMsg
  <1>2. PastKept(m)
    BY PastUnchanged DEF RecvMsg
  <1>3. PICK t \in Threads : t = HashTo(m)
    OBVIOUS
  <1>4. CASE u # t
    <2>1. rptQueues'[t] = rptQueues[t] /\ queries'[t] = queries[t]
      BY <1>1, <1>4 DEF TypeOK
    <2>2. Within(m, queries'[t], queries[t]) /\ Within(m, rptQueues'[t], rptQueues[t])
      BY <2>1, LineTypes, WithinSame
    <2>3. QED
      BY <1>1, <1>2, <1>3, <2>2, SameWithin, InLineWithin
  <1>5. CASE u = t
    <2>1. PICK b \in Seq(Reports), c \in Seq(Reports), d \in Seq(Reports) :
             b = rptQueues[t] /\ c = wire /\ d = reptQueue
      BY DEF TypeOK
    <2>2. PICK X : X = RowStamps(m)
      OBVIOUS
    <2>3. Ordered(m, X, <<>>, b, c, d) /\ LineStamps(m) = AllStamps(m, X, <<>>, b, c, d)
      BY <1>1, <1>3, <1>5, <2>1, <2>2 DEF InLine, Line, LineStamps
    <2>4. /\ Ordered(m, X, b, <<>>, c, d)
          /\ AllStamps(m, X, b, <<>>, c, d) = AllStamps(m, X, <<>>, b, c, d)
      BY <2>3, OrderedTake
    <2>5. RowStamps(m)' = X
      BY <1>1, <2>2 DEF RowStamps
    <2>6. rptQueues'[t] = <<>> /\ queries'[t] = b
      BY <1>1, <1>5, <2>1 DEF TypeOK
    <2>7. Line(m)' /\ LineStamps(m)' = AllStamps(m, X, b, <<>>, c, d)
      BY <1>1, <1>3, <2>1, <2>4, <2>5, <2>6 DEF Line, LineStamps
    <2>8. QED
      BY <1>2, <2>3, <2>4, <2>7, InLineIf
  <1>6. QED
    BY <1>4, <1>5

LEMMA ReporterCrashLine ==
  ASSUME TypeOK, TypeOK', NEW m \in Mods, InLine(m), ReporterCrash
  PROVE  InLine(m)'
  <1>1. PastKept(m)
    BY PastUnchanged DEF ReporterCrash
  <1>2. /\ row' = row /\ wire' = <<>> /\ reptQueue' = reptQueue
        /\ queries'[HashTo(m)] = <<>> /\ rptQueues'[HashTo(m)] = <<>>
    BY DEF ReporterCrash
  <1>3. QED
    BY <1>1, <1>2, WithinEmpty, SameWithin, InLineWithin

\* A query writes the first report of its thread, which is in front of its
\* module's line.
LEMMA QueryLine ==
  ASSUME TypeOK, TypeOK', OwnThread, NEW m \in Mods, InLine(m), NEW u \in Threads, Query(u)
  PROVE  InLine(m)'
  <1>1. PICK r \in Reports, h \in Hosts :
            /\ queries[u] # <<>> /\ r = Head(queries[u])
            /\ queries' = [queries EXCEPT ![u] = Done(queries[u], h)]
            /\ Store(r, h) \/ UNCHANGED row
    BY QueryFacts
  <1>2. PastKept(m)
    BY PastUnchanged DEF Query
  <1>3. wire' = wire /\ reptQueue' = reptQueue /\ rptQueues' = rptQueues
    BY DEF Query
  <1>4. PICK t \in Threads : t = HashTo(m)
    OBVIOUS
  <1>5. HashTo(r.mod) = u
    <2>1. queries[u] \in Seq(Reports)
      BY LineTypes
    <2>2. r = queries[u][1] /\ 1 \in DOMAIN queries[u]
      BY <1>1, <2>1, HeadFacts
    <2>3. QED
      BY <2>2 DEF OwnThread
  <1>6. r.mod \in Mods /\ r.ts \in 0..MaxNow /\ Column(h) \in Columns
    BY DEF Reports
  <1>7. CASE r.mod # m
    <2>1. row'[m] = row[m]
      BY <1>1, <1>6, <1>7 DEF Store, TypeOK
    <2>2. Within(m, queries'[t], queries[t])
      <3>1. queries[t] \in Seq(Reports) /\ queries[u] \in Seq(Reports)
        BY LineTypes
      <3>2. CASE u = t
        <4>1. PICK q \in Seq(Reports) : q = queries[t]
          BY <3>1
        <4>2. queries'[t] = Done(q, h) /\ q # <<>>
          BY <1>1, <3>2, <4>1 DEF TypeOK
        <4>3. Within(m, Done(q, h), q)
          BY <4>2, DoneFacts
        <4>4. QED
          BY <4>1, <4>2, <4>3
      <3>3. CASE u # t
        <4>1. queries'[t] = queries[t]
          BY <1>1, <3>3 DEF TypeOK
        <4>2. QED
          BY <3>1, <4>1, WithinSame
      <3>4. QED
        BY <3>2, <3>3
    <2>3. QED
      BY <1>2, <1>3, <1>4, <2>1, <2>2, SameWithin, InLineWithin
  <1>8. CASE r.mod = m
    <2>1. u = t
      BY <1>4, <1>5, <1>8
    <2>2. PICK a \in Seq(Reports), b \in Seq(Reports), c \in Seq(Reports),
               d \in Seq(Reports) :
             a = queries[t] /\ b = rptQueues[t] /\ c = wire /\ d = reptQueue
      BY DEF TypeOK
    <2>3. PICK X, Y : X = RowStamps(m) /\ Y = RowStamps(m)'
      OBVIOUS
    <2>4. Ordered(m, X, a, b, c, d) /\ LineStamps(m) = AllStamps(m, X, a, b, c, d)
      BY <1>4, <2>2, <2>3 DEF InLine, Line, LineStamps
    <2>5. a # <<>> /\ Head(a) = r /\ Head(a).mod = m
      BY <1>1, <1>8, <2>1, <2>2
    <2>6. Y \subseteq X \cup {Head(a).ts}
      <3>1. CASE UNCHANGED row
        BY <2>3, <3>1 DEF RowStamps
      <3>2. CASE Store(r, h)
        <4>1. PICK R \in [Columns -> Never..MaxNow] : R = row[m]
          BY DEF TypeOK
        <4>2. row'[m] = [R EXCEPT ![Column(h)] = r.ts]
          BY <1>8, <3>2, <4>1 DEF Store, TypeOK
        <4>3. \A e \in Columns : row'[m][e] = R[e] \/ row'[m][e] = r.ts
          BY <4>2
        <4>4. QED
          BY <2>3, <2>5, <4>1, <4>3 DEF RowStamps
      <3>3. QED
        BY <1>1, <3>1, <3>2
    <2>7. /\ Ordered(m, Y, Done(a, h), b, c, d)
          /\ AllStamps(m, Y, Done(a, h), b, c, d) \subseteq AllStamps(m, X, a, b, c, d)
      BY <2>4, <2>5, <2>6, OrderedWrite
    <2>8. queries'[t] = Done(a, h)
      BY <1>1, <2>1, <2>2 DEF TypeOK
    <2>9. Line(m)' /\ LineStamps(m)' = AllStamps(m, Y, Done(a, h), b, c, d)
      BY <1>3, <1>4, <2>2, <2>3, <2>7, <2>8 DEF Line, LineStamps
    <2>10. QED
      BY <1>2, <2>4, <2>7, <2>9, InLineIf
  <1>9. QED
    BY <1>7, <1>8

LEMMA LineNext ==
  ASSUME TypeOK, TypeOK', OwnThread, NEW m \in Mods, InLine(m), [Next]_vars
  PROVE  InLine(m)'
  BY TickLine, UpdateLine, Report2RpterLine, NewReportReqLine, ConnectLine,
     DisconnectLine, AgentCrashLine, ReportStatusLine, RecvMsgLine, QueryLine,
     ReporterCrashLine, StutterLine DEF Next

-----------------------------------------------------------------------------
(* A thread keeps to its modules.                                           *)

LEMMA ReportStatusOwn ==
  ASSUME TypeOK, OwnThread, ReportStatus
  PROVE  OwnThread'
  <1>1. PICK p \in Reports :
            /\ HashTo(p.mod) \in Threads
            /\ rptQueues' = [rptQueues EXCEPT ![HashTo(p.mod)] =
                                Append(rptQueues[HashTo(p.mod)], p)]
    BY PassFacts
  <1>2. queries' = queries
    BY DEF ReportStatus
  <1>3. PICK u \in Threads : u = HashTo(p.mod)
    BY <1>1
  <1>4. ASSUME NEW t \in Threads, NEW i \in DOMAIN rptQueues'[t]
        PROVE  HashTo(rptQueues'[t][i].mod) = t
    <2>1. CASE t # u
      <3>1. rptQueues'[t] = rptQueues[t]
        BY <1>1, <1>3, <2>1 DEF TypeOK
      <3>2. QED
        BY <1>4, <3>1 DEF OwnThread
    <2>2. CASE t = u
      <3>1. PICK q \in Seq(Reports) : q = rptQueues[t]
        BY DEF TypeOK
      <3>2. rptQueues'[t] = Append(q, p)
        BY <1>1, <1>3, <2>2, <3>1 DEF TypeOK
      <3>3. /\ Append(q, p) \in Seq(Reports) /\ Len(Append(q, p)) = Len(q) + 1
            /\ \A j \in 1..Len(q) : Append(q, p)[j] = q[j]
            /\ Append(q, p)[Len(q) + 1] = p /\ Len(q) \in Nat /\ DOMAIN q = 1..Len(q)
        BY AppendProperties, LenProperties
      <3>4. i \in 1..(Len(q) + 1)
        BY <1>4, <3>2, <3>3, LenProperties
      <3>5. CASE i = Len(q) + 1
        BY <1>3, <2>2, <3>2, <3>3, <3>5
      <3>6. CASE i # Len(q) + 1
        <4>1. i \in DOMAIN q
          BY <3>3, <3>4, <3>6
        <4>2. rptQueues'[t][i] = rptQueues[t][i] /\ i \in DOMAIN rptQueues[t]
          BY <3>1, <3>2, <3>3, <4>1
        <4>3. QED
          BY <4>2 DEF OwnThread
      <3>7. QED
        BY <3>5, <3>6
    <2>3. QED
      BY <2>1, <2>2
  <1>5. QED
    BY <1>2, <1>4 DEF OwnThread

LEMMA RecvMsgOwn ==
  ASSUME TypeOK, OwnThread, NEW u \in Threads, RecvMsg(u)
  PROVE  OwnThread'
  <1>1. \A t \in Threads : /\ rptQueues'[t] = rptQueues[t] \/ rptQueues'[t] = <<>>
                           /\ queries'[t] = queries[t] \/ queries'[t] = rptQueues[t]
    BY DEF RecvMsg, TypeOK
  <1>2. DOMAIN <<>> = {}
    OBVIOUS
  <1>3. QED
    BY <1>1, <1>2 DEF OwnThread

LEMMA QueryOwn ==
  ASSUME TypeOK, OwnThread, NEW u \in Threads, Query(u)
  PROVE  OwnThread'
  <1>1. PICK h \in Hosts :
            queries[u] # <<>> /\ queries' = [queries EXCEPT ![u] = Done(queries[u], h)]
    BY QueryFacts
  <1>2. rptQueues' = rptQueues
    BY DEF Query
  <1>3. ASSUME NEW t \in Threads, NEW i \in DOMAIN queries'[t]
        PROVE  HashTo(queries'[t][i].mod) = t
    <2>1. CASE t # u
      <3>1. queries'[t] = queries[t]
        BY <1>1, <2>1 DEF TypeOK
      <3>2. QED
        BY <1>3, <3>1 DEF OwnThread
    <2>2. CASE t = u
      <3>1. PICK q \in Seq(Reports) : q = queries[t]
        BY DEF TypeOK
      <3>2. queries'[t] = Done(q, h) /\ q # <<>>
        BY <1>1, <2>2, <3>1 DEF TypeOK
      <3>3. ModsOf(Done(q, h)) \subseteq ModsOf(q)
        BY <3>2, DoneFacts
      <3>4. PICK j \in DOMAIN q : Done(q, h)[i].mod = q[j].mod
        BY <1>3, <3>2, <3>3 DEF ModsOf
      <3>5. QED
        BY <3>1, <3>2, <3>4 DEF OwnThread
    <2>3. QED
      BY <2>1, <2>2
  <1>4. QED
    BY <1>2, <1>3 DEF OwnThread

LEMMA ReporterCrashOwn ==
  ASSUME ReporterCrash
  PROVE  OwnThread'
  <1>1. \A t \in Threads : rptQueues'[t] = <<>> /\ queries'[t] = <<>>
    BY DEF ReporterCrash
  <1>2. DOMAIN <<>> = {}
    OBVIOUS
  <1>3. QED
    BY <1>1, <1>2 DEF OwnThread

LEMMA SameOwn ==
  ASSUME OwnThread, rptQueues' = rptQueues, queries' = queries
  PROVE  OwnThread'
  BY DEF OwnThread

LEMMA OwnNext ==
  ASSUME TypeOK, OwnThread, [Next]_vars
  PROVE  OwnThread'
  <1>1. CASE UNCHANGED reporterVars
    BY <1>1, SameOwn DEF reporterVars
  <1>2. CASE \E m \in Mods : Report2Rpter(m)
    BY <1>2, SameOwn, MakeFacts DEF vars, reporterVars
  <1>3. CASE \E m \in Mods : \E S \in SUBSET HostsOf(m) : Update(m, S)
    BY <1>3, SameOwn DEF Update, reporterVars
  <1>4. CASE Tick \/ NewReportReq \/ Connect \/ Disconnect \/ AgentCrash \/ UNCHANGED vars
    <2>1. UNCHANGED reporterVars
      BY <1>4 DEF Tick, NewReportReq, Connect, Disconnect, AgentCrash, vars
    <2>2. QED
      BY <1>1, <2>1
  <1>5. QED
    BY <1>2, <1>3, <1>4, ReportStatusOwn, RecvMsgOwn, QueryOwn, ReporterCrashOwn DEF Next

-----------------------------------------------------------------------------
(* The theorems.                                                            *)

LEMMA IInvNext == IInv /\ [Next]_vars => IInv'
  <1> SUFFICES ASSUME IInv, [Next]_vars PROVE IInv'
    OBVIOUS
  <1>1. TypeOK /\ OwnThread /\ \A m \in Mods : InLine(m)
    BY DEF IInv
  <1>2. TypeOK'
    BY <1>1, TypeNext
  <1>3. OwnThread'
    BY <1>1, OwnNext
  <1>4. ASSUME NEW m \in Mods PROVE InLine(m)'
    BY <1>1, <1>2, LineNext
  <1>5. QED
    BY <1>2, <1>3, <1>4 DEF IInv

LEMMA IInvInit == Init => IInv
  <1> SUFFICES ASSUME Init PROVE IInv
    OBVIOUS
  <1>1. /\ reptQueue = <<>> /\ wire = <<>>
        /\ \A t \in Threads : rptQueues[t] = <<>> /\ queries[t] = <<>>
        /\ \A m \in Mods, c \in Columns : row[m][c] = Never
    BY DEF Init
  <1>2. OwnThread
    <2>1. DOMAIN <<>> = {}
      OBVIOUS
    <2>2. QED
      BY <1>1, <2>1 DEF OwnThread
  <1>3. ASSUME NEW m \in Mods PROVE InLine(m)
    <2>1. RowStamps(m) = {}
      BY <1>1 DEF RowStamps
    <2>2. Stamps(m, <<>>) = {} /\ Sorted(m, <<>>)
      BY EmptyQueue
    <2>3. queries[HashTo(m)] = <<>> /\ rptQueues[HashTo(m)] = <<>>
      BY <1>1
    <2>4. Ordered(m, {}, <<>>, <<>>, <<>>, <<>>)
      BY <2>2 DEF Ordered, Before
    <2>5. AllStamps(m, {}, <<>>, <<>>, <<>>, <<>>) = {}
      BY <2>2 DEF AllStamps
    <2>6. QED
      BY <1>1, <2>1, <2>3, <2>4, <2>5 DEF InLine, Line, LineStamps
  <1>4. QED
    BY <1>2, <1>3, TypeInit DEF IInv

LEMMA Inductive == Spec => []IInv
  BY IInvInit, IInvNext, PTL DEF Spec

\* The agent's queue, the connection, the reporter's queues and the table are
\* well formed (RptClient.cc, reporter/src/Server.cc, CallStatis.cc).
THEOREM ReporterTypeCorrect == Spec => []TypeOK
  <1>1. IInv => TypeOK
    BY DEF IInv
  <1>2. QED
    BY <1>1, Inductive, PTL

\* Only a query changes a row, to a report in front of all that is in line.
LEMMA RowChange ==
  ASSUME IInv, [Next]_vars, NEW m \in Mods, NEW c \in Columns,
         row'[m][c] # row[m][c], row[m][c] # Never
  PROVE  row'[m][c] - row[m][c] >= ReportTimo - 1
  <1>1. TypeOK /\ OwnThread /\ InLine(m)
    BY DEF IInv
  <1>2. \/ UNCHANGED row
        \/ \E t \in Threads : Query(t)
    <2>1. CASE \E n \in Mods : Report2Rpter(n)
      BY <1>1, <2>1, MakeFacts DEF vars, reporterVars
    <2>2. CASE \E n \in Mods : \E S \in SUBSET HostsOf(n) : Update(n, S)
      BY <2>2 DEF Update, reporterVars
    <2>3. CASE \/ Tick \/ NewReportReq \/ Connect \/ Disconnect \/ AgentCrash
               \/ ReportStatus \/ ReporterCrash \/ UNCHANGED vars
      BY <2>3 DEF Tick, NewReportReq, Connect, Disconnect, AgentCrash, ReportStatus,
                  ReporterCrash, vars, reporterVars
    <2>4. CASE \E t \in Threads : RecvMsg(t)
      BY <2>4 DEF RecvMsg
    <2>5. QED
      BY <2>1, <2>2, <2>3, <2>4 DEF Next
  <1>3. PICK u \in Threads : Query(u)
    BY <1>2
  <1>4. PICK r \in Reports, h \in Hosts :
            /\ queries[u] # <<>> /\ r = Head(queries[u])
            /\ Store(r, h) \/ UNCHANGED row
    BY <1>1, <1>3, QueryFacts
  <1>5. Store(r, h) /\ r.mod \in Mods /\ Column(h) \in Columns
    BY <1>4 DEF Reports
  <1>6. PICK R \in [Mods -> [Columns -> Never..MaxNow]] : R = row
    BY <1>1 DEF TypeOK
  <1>7. r.mod = m
    <2>1. CASE r.mod # m
      <3>1. row'[m] = R[m]
        BY <1>5, <1>6, <2>1 DEF Store
      <3>2. QED
        BY <1>6, <3>1
    <2>2. QED
      BY <2>1
  <1>8. row'[m][c] = r.ts
    <2>1. PICK Q \in [Columns -> Never..MaxNow] : Q = row[m]
      BY <1>6
    <2>2. row'[m] = [Q EXCEPT ![Column(h)] = r.ts]
      BY <1>5, <1>6, <1>7, <2>1 DEF Store
    <2>3. CASE c # Column(h)
      BY <2>1, <2>2, <2>3
    <2>4. CASE c = Column(h)
      BY <2>2, <2>4, <1>5
    <2>5. QED
      BY <2>3, <2>4
  <1>9. PICK q \in Seq(Reports) : q = queries[u]
    BY <1>1 DEF TypeOK
  <1>10. u = HashTo(m)
    <2>1. r = q[1] /\ 1 \in DOMAIN q
      BY <1>4, <1>9, HeadFacts
    <2>2. QED
      BY <1>1, <1>7, <1>9, <2>1 DEF OwnThread
  <1>11. r.ts \in Stamps(m, q)
    BY <1>4, <1>7, <1>9, HeadStamps
  <1>12. row[m][c] \in RowStamps(m)
    BY DEF RowStamps
  <1>13. Before(RowStamps(m), Stamps(m, q))
    BY <1>1, <1>9, <1>10 DEF InLine, Line, Ordered
  <1>14. Later(row[m][c], r.ts)
    BY <1>11, <1>12, <1>13 DEF Before
  <1>15. QED
    BY <1>8, <1>14 DEF Later

\* The rows of a module never go back to an older report, whatever threads,
\* connections, queries and processes do in between (RouteLb.cc:606-645,
\* reporter/src/Server.cc:20-34, CallStatis.cc:32-51).
THEOREM ReporterRowsAdvance == Spec => RowsAdvance
  <1>1. ASSUME IInv, [Next]_vars
        PROVE  [\A m \in Mods, c \in Columns :
                   row'[m][c] # row[m][c] /\ row[m][c] # Never
                      => row'[m][c] - row[m][c] >= ReportTimo - 1]_vars
    BY <1>1, RowChange
  <1>2. QED
    BY <1>1, Inductive, PTL DEF Spec, RowsAdvance

==============================================================================
