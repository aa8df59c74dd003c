------------------------------ MODULE SocketProofs ------------------------------
(***************************************************************************)
(* Theorem on ApiClient: what apiGetHost gets over the network answers its *)
(* own request.  The sequence number is all that tells an answer from a    *)
(* late one, and it wraps: the proof counts how old a packet can become on *)
(* a socket on which every packet too many has cost a timeout.             *)
(***************************************************************************)
EXTENDS ApiProofs

USE ApiClientAssumption

-----------------------------------------------------------------------------
(* The packets between a request and its reading, oldest first.            *)

Total == Len(inbox) + Len(requests)
At(k) == IF k <= Len(inbox) THEN inbox[k] ELSE requests[k - Len(inbox)]

\* How many GetHostReq have been sent since the one with the number n.
Lag(n) == IF n < seq THEN seq - n - 1 ELSE seq + SeqLim - n - 1

\* A call that waits has one packet of its own; any other has cost a fault.
Spare == IF Waiting THEN 0 ELSE 1

\* Those behind a packet have cost faults, and so have those ahead of it.
InPlace(k) ==
    At(k).kind = "host" =>
        /\ k + Lag(At(k).seq) + Spare <= faults + 1
        /\ call.op = "host" /\ Lag(At(k).seq) = 0 => k = Total /\ At(k).mod = call.mod

Line ==
    /\ Total + Spare <= faults + 1
    /\ \A k \in 1..Total : InPlace(k)
    /\ call.op = "host" => Lag(call.seq) = 0

-----------------------------------------------------------------------------
(* Types.                                                                  *)

LineTypeOK ==
    /\ Total \in Nat /\ Spare \in 0..1 /\ faults \in 0..MaxFault
    /\ MaxFault \in Nat /\ SeqLim \in Nat \ {0} /\ seq \in 0..(SeqLim - 1)
    /\ \A k \in 1..Total : At(k).kind = "host" => At(k).seq \in 0..(SeqLim - 1)
    /\ call.op = "host" => call.seq \in 0..(SeqLim - 1)
    /\ \A n \in 0..(SeqLim - 1) : Lag(n) \in 0..(SeqLim - 1)

LEMMA LineTypes == TypeOK => LineTypeOK
  <1> SUFFICES ASSUME TypeOK PROVE LineTypeOK
    OBVIOUS
  <1>1. /\ faults \in 0..MaxFault /\ MaxFault \in Nat /\ SeqLim \in Nat \ {0}
        /\ seq \in 0..(SeqLim - 1) /\ call \in Calls
    BY DEF TypeOK
  <1>2. /\ Len(inbox) \in Nat /\ Len(requests) \in Nat
        /\ \A i \in 1..Len(inbox) : inbox[i] \in Packets
        /\ \A i \in 1..Len(requests) : requests[i] \in Requests
    BY QueueTypes
  <1>3. Total \in Nat /\ Spare \in 0..1
    BY <1>2 DEF Total, Spare
  <1>4. ASSUME NEW k \in 1..Total, At(k).kind = "host"
        PROVE  At(k).seq \in 0..(SeqLim - 1)
    <2>1. CASE k <= Len(inbox)
      <3>1. At(k) = inbox[k] /\ k \in 1..Len(inbox)
        BY <1>2, <2>1 DEF At, Total
      <3>2. inbox[k] \in Packets
        BY <1>2, <3>1
      <3>3. QED
        BY <1>4, <3>1, <3>2 DEF Packets
    <2>2. CASE ~(k <= Len(inbox))
      <3>1. At(k) = requests[k - Len(inbox)] /\ k - Len(inbox) \in 1..Len(requests)
        BY <1>2, <2>2 DEF At, Total
      <3>2. requests[k - Len(inbox)] \in Requests
        BY <1>2, <3>1
      <3>3. QED
        BY <1>4, <3>1, <3>2 DEF Requests
    <2>3. QED
      BY <2>1, <2>2
  <1>5. call.op = "host" => call.seq \in 0..(SeqLim - 1)
    BY <1>1 DEF Calls, Idle, Gone
  <1>6. \A n \in 0..(SeqLim - 1) : Lag(n) \in 0..(SeqLim - 1)
    BY <1>1 DEF Lag
  <1>7. QED
    BY <1>1, <1>3, <1>4, <1>5, <1>6 DEF LineTypeOK

LEMMA LineTypesNext == TypeOK' => LineTypeOK'
  BY LineTypes, PTL

-----------------------------------------------------------------------------
(* What steps do to the line.                                              *)

LEMMA Budget ==
  ASSUME NEW k \in Int, NEW j \in Int, NEW lag \in Int, NEW d \in Int,
         NEW spare \in Int, NEW spare1 \in Int, NEW f \in Int, NEW f1 \in Int,
         k + d <= j, j + lag + spare <= f + 1, spare1 - f1 <= spare - f + d
  PROVE  k + lag + spare1 <= f1 + 1
  OBVIOUS

SamePacket(p, q) == p.kind = q.kind /\ (q.kind = "host" => p.seq = q.seq /\ p.mod = q.mod)

\* Every packet of the new line is one of the old line, at least d places on.
Advanced(d) ==
    /\ seq' = seq
    /\ Total' + d <= Total
    /\ \A k \in 1..Total' : \E j \in 1..Total :
          SamePacket(At(k)', At(j)) /\ k + d <= j /\ (j = Total => k = Total')

\* A step that sends nothing, and costs a place or a fault if it ends a call.
LEMMA AdvancedLine ==
  ASSUME TypeOK, TypeOK', Line, NEW d \in 0..1, Advanced(d),
         Total = 0 \/ Spare' - faults' <= Spare - faults + d,
         call'.op = "host" => call.op = "host" /\ call'.seq = call.seq /\ call'.mod = call.mod
  PROVE  Line'
  <1>1. /\ Total \in Nat /\ Spare \in 0..1 /\ faults \in Nat
        /\ \A k \in 1..Total : At(k).kind = "host" => Lag(At(k).seq) \in Nat
    BY LineTypes DEF LineTypeOK
  <1>2. Total' \in Nat /\ Spare' \in 0..1 /\ faults' \in Nat
    BY LineTypesNext DEF LineTypeOK
  <1>3. \A n : Lag(n)' = Lag(n)
    BY DEF Advanced, Lag
  <1>4. Total' + Spare' <= faults' + 1
    <2>1. PICK t \in Nat, t1 \in Nat, sp \in 0..1, sp1 \in 0..1, f \in Nat, f1 \in Nat :
            /\ t = Total /\ t1 = Total' /\ sp = Spare /\ sp1 = Spare'
            /\ f = faults /\ f1 = faults'
      BY <1>1, <1>2
    <2>2. t1 + d <= t /\ t + sp <= f + 1 /\ (t = 0 \/ sp1 - f1 <= sp - f + d)
      BY <2>1 DEF Line, Advanced
    <2>3. t1 + sp1 <= f1 + 1
      BY <2>2
    <2>4. QED
      BY <2>1, <2>3
  <1>5. ASSUME NEW k \in 1..Total' PROVE InPlace(k)'
    <2>1. PICK j \in 1..Total :
            SamePacket(At(k)', At(j)) /\ k + d <= j /\ (j = Total => k = Total')
      BY DEF Advanced
    <2>2. SUFFICES ASSUME At(k)'.kind = "host" PROVE InPlace(k)'
      BY DEF InPlace
    <2>3. /\ At(j).kind = "host" /\ At(k)'.seq = At(j).seq /\ At(k)'.mod = At(j).mod
          /\ Lag(At(j).seq) \in Nat
      BY <1>1, <2>1, <2>2 DEF SamePacket
    <2>4. Lag(At(k).seq)' = Lag(At(j).seq)
      BY <1>3, <2>3
    <2>5. /\ j + Lag(At(j).seq) + Spare <= faults + 1
          /\ call.op = "host" /\ Lag(At(j).seq) = 0 => j = Total /\ At(j).mod = call.mod
      BY <2>3 DEF Line, InPlace
    <2>6. k + Lag(At(j).seq) + Spare' <= faults' + 1
      <3>1. /\ k + d <= j /\ k \in Int /\ j \in Int /\ d \in Int
            /\ Lag(At(j).seq) \in Int
            /\ Spare \in Int /\ Spare' \in Int /\ faults \in Int /\ faults' \in Int
        BY <1>1, <1>2, <2>1, <2>3
      <3>2. Total # 0
        BY <1>1
      <3>3. QED
        BY <2>5, <2>3, <3>1, <3>2, Budget
    <2>7. QED
      BY <2>1, <2>3, <2>4, <2>5, <2>6 DEF InPlace
  <1>6. call'.op = "host" => Lag(call.seq)' = 0
    BY <1>3 DEF Line
  <1>7. QED
    BY <1>4, <1>5, <1>6 DEF Line

\* A request r joins what is left of the line when d packets have been read.
Sends(r, d) ==
    /\ Total' + d = Total + 1
    /\ At(Total)' = r
    /\ \A k \in 1..(Total - d) : At(k)' = At(k + d)

\* A GetHostReq joins the line, and the call waits for its answer.
Asking(r) ==
    /\ call'.op = "host" /\ call'.seq = seq /\ seq' = (seq + 1) % SeqLim
    /\ r.kind = "host" /\ r.seq = seq /\ r.mod = call'.mod

LEMMA AskLine ==
  ASSUME MaxFault < SeqLim, TypeOK, TypeOK', Line, NEW r, Asking(r),
         NEW d \in 0..1, d <= Total, Sends(r, d),
         Total = 0 \/ 1 - faults' <= Spare - faults + d
  PROVE  Line'
  <1>1. /\ MaxFault \in Nat /\ SeqLim \in Nat \ {0}
        /\ \A k \in 1..Total : At(k).kind = "host" => At(k).seq \in 0..(SeqLim - 1)
    BY LineTypes DEF LineTypeOK
  <1>2. PICK tot \in Nat, spare \in 0..1, f \in 0..MaxFault, s \in 0..(SeqLim - 1) :
          tot = Total /\ spare = Spare /\ f = faults /\ s = seq
    BY LineTypes DEF LineTypeOK
  <1>3. PICK tot1 \in Nat, f1 \in 0..MaxFault : tot1 = Total' /\ f1 = faults'
    BY LineTypesNext DEF LineTypeOK
  <1>4. /\ call'.op = "host" /\ call'.seq = s /\ seq' = (s + 1) % SeqLim
        /\ r.kind = "host" /\ r.seq = s /\ r.mod = call'.mod
    BY <1>2 DEF Asking
  <1>5. seq' = IF s + 1 = SeqLim THEN 0 ELSE s + 1
    BY <1>1, <1>4
  <1>6. Lag(s)' = 0
    BY <1>1, <1>5 DEF Lag
  <1>7. ASSUME NEW n \in 0..(SeqLim - 1), Lag(n) + 1 < SeqLim
        PROVE  Lag(n)' = Lag(n) + 1
    BY <1>1, <1>2, <1>5, <1>7 DEF Lag
  <1>8. Spare' = 0
    BY <1>4 DEF Spare, Waiting, Idle, Gone
  <1>9. tot1 + d = tot + 1 /\ d <= tot /\ (tot = 0 \/ 1 - f1 <= spare - f + d)
    BY <1>2, <1>3 DEF Sends
  <1>10. At(tot1)' = r /\ \A k \in 1..(tot - d) : At(k)' = At(k + d)
    BY <1>2, <1>3 DEF Sends
  <1>11. tot + spare <= f + 1 /\ \A k \in 1..tot : InPlace(k)
    BY <1>2 DEF Line
  <1>12. tot1 <= f1 + 1
    BY <1>9, <1>11
  <1>13. Total' + Spare' <= faults' + 1
    <2>1. tot1 + 0 <= f1 + 1
      BY <1>12
    <2>2. QED
      BY <1>3, <1>8, <2>1
  <1>14. ASSUME NEW k \in 1..tot1, At(k)'.kind = "host" PROVE InPlace(k)'
    <2>1. CASE k = tot1
      <3>1. Lag(At(k).seq)' = 0
        BY <1>4, <1>6, <1>10, <2>1
      <3>2. k + 0 + 0 <= f1 + 1
        BY <1>12, <2>1
      <3>3. At(k)'.mod = call'.mod
        BY <1>4, <1>10, <2>1
      <3>4. QED
        BY <1>3, <1>8, <2>1, <3>1, <3>2, <3>3 DEF InPlace
    <2>2. CASE k # tot1
      <3>1. k \in 1..(tot - d) /\ k + d \in 1..tot
        BY <1>9, <2>2
      <3>2. At(k)' = At(k + d)
        BY <1>10, <3>1
      <3>3. PICK n \in 0..(SeqLim - 1) : n = At(k + d).seq
        BY <1>1, <1>2, <1>14, <3>1, <3>2
      <3>4. PICK lag \in Nat : lag = Lag(n)
        BY LineTypes DEF LineTypeOK
      <3>5. k + d + lag + spare <= f + 1
        BY <1>2, <1>11, <1>14, <3>1, <3>2, <3>3, <3>4 DEF InPlace
      <3>6. lag + 1 < SeqLim /\ k + (lag + 1) + 0 <= f1 + 1
        BY <1>1, <1>9, <3>1, <3>5
      <3>7. Lag(n)' = lag + 1
        BY <1>7, <3>4, <3>6
      <3>8. Lag(At(k).seq)' = lag + 1
        BY <3>2, <3>3, <3>7
      <3>9. lag + 1 # 0
        OBVIOUS
      <3>10. QED
        BY <1>3, <1>8, <3>6, <3>8, <3>9 DEF InPlace
    <2>3. QED
      BY <2>1, <2>2
  <1>15. \A k \in 1..Total' : InPlace(k)'
    BY <1>3, <1>14 DEF InPlace
  <1>16. Lag(call.seq)' = 0
    BY <1>4, <1>6
  <1>17. QED
    BY <1>13, <1>15, <1>16 DEF Line

\* A request of another kind joins the line when no call waits.
LEMMA QueryLine ==
  ASSUME TypeOK, TypeOK', Line, NEW r, r.kind # "host", Sends(r, 0), seq' = seq,
         Spare = 1, faults' = faults, call'.op \notin {"host", "idle", "gone"}
  PROVE  Line'
  <1>1. PICK tot \in Nat, f \in Nat : tot = Total /\ f = faults
    BY LineTypes DEF LineTypeOK
  <1>2. PICK tot1 \in Nat : tot1 = Total'
    BY LineTypesNext DEF LineTypeOK
  <1>3. tot1 = tot + 1 /\ At(tot1)' = r /\ \A k \in 1..tot : At(k)' = At(k)
    <2>1. tot1 + 0 = tot + 1 /\ At(tot1)' = r /\ \A k \in 1..(tot - 0) : At(k)' = At(k + 0)
      BY <1>1, <1>2 DEF Sends
    <2>2. QED
      BY <2>1
  <1>4. tot + 1 <= f + 1 /\ \A k \in 1..tot : InPlace(k)
    BY <1>1 DEF Line
  <1>5. Spare' = 0
    BY DEF Spare, Waiting, Idle, Gone
  <1>6. tot1 + 0 <= f + 1
    BY <1>3, <1>4
  <1>7. \A n : Lag(n)' = Lag(n)
    BY DEF Lag
  <1>8. ASSUME NEW k \in 1..tot1, At(k)'.kind = "host" PROVE InPlace(k)'
    <2>1. k \in 1..tot
      BY <1>3, <1>8
    <2>2. At(k)' = At(k) /\ InPlace(k)
      BY <1>3, <1>4, <2>1
    <2>3. PICK n \in 0..(SeqLim - 1), lag \in Nat : n = At(k).seq /\ lag = Lag(n)
      BY <1>1, <1>8, <2>1, <2>2, LineTypes DEF LineTypeOK
    <2>4. k + lag + 1 <= f + 1
      BY <1>1, <1>8, <2>2, <2>3 DEF InPlace
    <2>5. k + lag + 0 <= f + 1
      BY <1>3, <2>1, <2>4
    <2>6. Lag(At(k).seq)' = lag
      BY <1>7, <2>2, <2>3
    <2>7. QED
      BY <1>1, <1>5, <2>5, <2>6 DEF InPlace
  <1>9. QED
    BY <1>1, <1>2, <1>5, <1>6, <1>8 DEF Line, InPlace

-----------------------------------------------------------------------------
(* The moves.                                                              *)

LEMMA LineParts ==
  ASSUME TypeOK
  PROVE  /\ inbox \in Seq(Packets) /\ requests \in Seq(Requests)
         /\ Len(inbox) \in Nat /\ Len(requests) \in Nat
         /\ \A k \in 1..Total : k <= Len(inbox) \/ k - Len(inbox) \in 1..Len(requests)
  <1>1. Len(inbox) \in Nat /\ Len(requests) \in Nat
    BY QueueTypes
  <1>2. QED
    BY <1>1 DEF TypeOK, Total

\* A packet is read.
LEMMA TakeMoves ==
  ASSUME TypeOK, Take
  PROVE  /\ Len(inbox) \in Nat \ {0} /\ Len(inbox') = Len(inbox) - 1
         /\ \A i \in 1..(Len(inbox) - 1) : inbox'[i] = inbox[i + 1]
  <1>1. /\ inbox' \in Seq(Packets) /\ Len(inbox) \in Nat \ {0}
        /\ DOMAIN inbox' = 1..(Len(inbox) - 1)
        /\ \A i \in 1..(Len(inbox) - 1) : inbox'[i] = inbox[i + 1]
    BY TakeFacts
  <1>2. DOMAIN inbox' = 1..Len(inbox') /\ Len(inbox') \in Nat
    BY <1>1, LenProperties
  <1>3. Len(inbox') = Len(inbox) - 1
    BY <1>1, <1>2
  <1>4. QED
    BY <1>1, <1>3

LEMMA TakeAdvances ==
  ASSUME TypeOK, Take, requests' = requests, seq' = seq
  PROVE  Advanced(1)
  <1>1. PICK a \in Nat \ {0}, b \in Nat : a = Len(inbox) /\ b = Len(requests)
    BY TakeMoves, LineParts
  <1>2. Total = a + b /\ Total' = a - 1 + b
    BY <1>1, TakeMoves DEF Total
  <1>3. ASSUME NEW k \in 1..(a - 1 + b) PROVE At(k)' = At(k + 1)
    <2>1. CASE k <= a - 1
      BY <1>1, <2>1, TakeMoves DEF At
    <2>2. CASE ~(k <= a - 1)
      <3>1. /\ Len(inbox') = a - 1 /\ a - 1 \in Nat /\ Len(inbox) = a
            /\ ~(k <= a - 1) /\ ~(k + 1 <= a)
        BY <1>1, <2>2, TakeMoves
      <3>2. At(k)' = requests[k - (a - 1)] /\ At(k + 1) = requests[(k + 1) - a]
        BY <3>1 DEF At
      <3>3. k - (a - 1) = (k + 1) - a
        BY <1>1
      <3>4. QED
        BY <3>2, <3>3
    <2>3. QED
      BY <2>1, <2>2
  <1>4. ASSUME NEW k \in 1..Total'
        PROVE  \E j \in 1..Total :
                  SamePacket(At(k)', At(j)) /\ k + 1 <= j /\ (j = Total => k = Total')
    <2>1. k \in 1..(a - 1 + b) /\ k + 1 \in 1..Total /\ (k + 1 = Total => k = Total')
      BY <1>1, <1>2
    <2>2. SamePacket(At(k)', At(k + 1)) /\ k + 1 <= k + 1
      BY <1>3, <2>1 DEF SamePacket
    <2>3. QED
      BY <2>1, <2>2
  <1>5. Total' + 1 <= Total
    BY <1>1, <1>2
  <1>6. QED
    BY <1>4, <1>5 DEF Advanced

\* A request joins the line, and before that a packet may have been read.
LEMMA SendMoves ==
  ASSUME TypeOK, TypeOK', NEW r \in Requests, requests' = Append(requests, r), NEW d \in 0..1,
         d = 0 => inbox' = inbox, d = 1 => Take
  PROVE  Sends(r, d) /\ d <= Total
  <1>1. PICK a \in Nat, b \in Nat, a1 \in Nat :
          a = Len(inbox) /\ b = Len(requests) /\ a1 = Len(inbox')
    <2>1. inbox' \in Seq(Packets)
      BY DEF TypeOK
    <2>2. QED
      BY <2>1, LineParts, LenProperties
  <1>2. a1 + d = a /\ \A i \in 1..a1 : inbox'[i] = inbox[i + d]
    BY <1>1, TakeMoves
  <1>3. /\ Len(requests') = b + 1 /\ requests'[b + 1] = r
        /\ \A i \in 1..b : requests'[i] = requests[i]
    BY <1>1, LineParts, AppendProperties
  <1>4. Total = a + b /\ Total' = a1 + (b + 1)
    BY <1>1, <1>3 DEF Total
  <1>5. At(Total)' = r
    <2>1. PICK k \in Nat : k = Total'
      BY <1>4
    <2>2. ~(k <= a1) /\ k - a1 = b + 1
      BY <1>4, <2>1
    <2>3. At(k)' = r
      BY <1>1, <1>3, <2>2 DEF At
    <2>4. QED
      BY <2>1, <2>3
  <1>6. ASSUME NEW k \in 1..(Total - d) PROVE At(k)' = At(k + d)
    <2>1. CASE k <= a1
      <3>1. k \in 1..a1 /\ k + d <= a
        BY <1>2, <2>1
      <3>2. QED
        BY <1>1, <1>2, <3>1 DEF At
    <2>2. CASE ~(k <= a1)
      <3>1. ~(k + d <= a) /\ k - a1 = (k + d) - a /\ k - a1 \in 1..b
        BY <1>2, <1>4, <2>2
      <3>2. At(k)' = requests'[k - a1] /\ At(k + d) = requests[(k + d) - a]
        BY <1>1, <2>2, <3>1 DEF At
      <3>3. QED
        BY <1>3, <3>1, <3>2
    <2>3. QED
      BY <2>1, <2>2
  <1>7. Total' + d = Total + 1 /\ d <= Total
    BY <1>2, <1>4
  <1>8. QED
    BY <1>5, <1>6, <1>7 DEF Sends

\* Nothing moves.
LEMMA StillAdvances ==
  ASSUME TypeOK, UNCHANGED <<inbox, requests, seq>>
  PROVE  Advanced(0)
  <1>1. PICK t \in Nat : t = Total /\ t = Total'
    BY LineTypes DEF LineTypeOK, Total
  <1>2. ASSUME NEW k \in 1..t PROVE SamePacket(At(k)', At(k)) /\ k + 0 <= k
    BY DEF At, SamePacket
  <1>3. t + 0 <= t
    OBVIOUS
  <1>4. QED
    BY <1>1, <1>2, <1>3 DEF Advanced

\* An answer takes the place of its request.
LEMMA AnswerSame ==
  ASSUME NEW r \in Requests, NEW p \in Answers(r)
  PROVE  SamePacket(p, r)
  <1>1. r.kind \in {"cache", "host", "route"}
    BY DEF Requests
  <1>2. CASE r.kind = "cache"
    <2>1. p = CacheAnswer(r)
      BY <1>2 DEF Answers
    <2>2. p.kind = "cache"
      BY <2>1 DEF CacheAnswer
    <2>3. QED
      BY <1>2, <2>2 DEF SamePacket
  <1>3. CASE r.kind = "host"
    <2>1. p \in HostAnswers(r)
      BY <1>3 DEF Answers
    <2>2. p.kind = "host" /\ p.seq = r.seq /\ p.mod = r.mod
      BY <2>1 DEF HostAnswers
    <2>3. QED
      BY <1>3, <2>2 DEF SamePacket
  <1>4. CASE r.kind = "route"
    <2>1. p = r
      BY <1>4 DEF Answers
    <2>2. QED
      BY <2>1 DEF SamePacket
  <1>5. QED
    BY <1>1, <1>2, <1>3, <1>4

LEMMA AgentServeAdvances ==
  ASSUME TypeOK, AgentServe
  PROVE  Advanced(0)
  <1>1. PICK a \in Nat, b \in Nat : a = Len(inbox) /\ b = Len(requests)
    BY LineParts
  <1>2. PICK r \in Requests : r = Head(requests) /\ requests # <<>>
    BY LineParts, TailFacts DEF AgentServe
  <1>3. PICK p \in Answers(r) : inbox' = Append(inbox, p)
    BY <1>2 DEF AgentServe
  <1>4. SamePacket(p, r)
    BY <1>3, AnswerSame
  <1>5. /\ r = requests[1] /\ b # 0 /\ Len(requests') = b - 1
        /\ \A i \in 1..(b - 1) : requests'[i] = requests[i + 1]
    <2>1. requests' = Tail(requests) /\ requests \in Seq(Requests)
      BY LineParts DEF AgentServe
    <2>2. /\ Head(requests) = requests[1] /\ b \in Nat \ {0}
          /\ DOMAIN requests' = 1..(b - 1) /\ requests' \in Seq(Requests)
          /\ \A i \in 1..(b - 1) : requests'[i] = requests[i + 1]
      BY <1>1, <1>2, <2>1, TailFacts
    <2>3. Len(requests') = b - 1
      <3>1. DOMAIN requests' = 1..Len(requests') /\ Len(requests') \in Nat
        BY <2>2, LenProperties
      <3>2. QED
        BY <2>2, <3>1
    <2>4. QED
      BY <1>2, <2>2, <2>3
  <1>6. /\ Len(inbox') = a + 1 /\ inbox'[a + 1] = p
        /\ \A i \in 1..a : inbox'[i] = inbox[i]
    <2>1. PICK q : q = inbox /\ q \in Seq(Packets)
      BY LineParts
    <2>2. p \in Packets
      BY <1>3, AnswersType
    <2>3. inbox' = Append(q, p) /\ Len(q) = a
      BY <1>1, <1>3, <2>1
    <2>4. QED
      BY <2>1, <2>2, <2>3, AppendProperties
  <1>7. Total = a + b /\ Total' = (a + 1) + (b - 1)
    BY <1>1, <1>5, <1>6 DEF Total
  <1>8. ASSUME NEW k \in 1..(a + b) PROVE SamePacket(At(k)', At(k))
    <2>1. CASE k <= a
      <3>1. At(k)' = inbox[k] /\ At(k) = inbox[k]
        BY <1>1, <1>6, <2>1 DEF At
      <3>2. QED
        BY <3>1 DEF SamePacket
    <2>2. CASE k = a + 1
      <3>1. ~(k <= a) /\ k <= a + 1 /\ k - a = 1
        BY <2>2
      <3>2. At(k)' = p /\ At(k) = r
        BY <1>1, <1>5, <1>6, <2>2, <3>1 DEF At
      <3>3. QED
        BY <1>4, <3>2
    <2>3. CASE k > a + 1
      <3>1. ~(k <= a) /\ ~(k <= a + 1) /\ k - (a + 1) \in 1..(b - 1)
            /\ (k - (a + 1)) + 1 = k - a
        BY <2>3
      <3>2. At(k)' = requests'[k - (a + 1)] /\ At(k) = requests[k - a]
        BY <1>1, <1>6, <3>1 DEF At
      <3>3. At(k)' = At(k)
        BY <1>5, <3>1, <3>2
      <3>4. QED
        BY <3>3 DEF SamePacket
    <2>4. QED
      BY <2>1, <2>2, <2>3
  <1>9. PICK t \in Nat : t = a + b /\ t = Total /\ t = Total'
    BY <1>7
  <1>10. seq' = seq
    BY DEF AgentServe, clientVars
  <1>11. \A k \in 1..t : SamePacket(At(k)', At(k)) /\ k + 0 <= k
    BY <1>8, <1>9
  <1>12. t + 0 <= t
    OBVIOUS
  <1>13. QED
    BY <1>9, <1>10, <1>11, <1>12 DEF Advanced

LEMMA LoseAdvances ==
  ASSUME TypeOK, Lose
  PROVE  Advanced(0)
  <1>1. CASE inbox # <<>> /\ inbox' = Tail(inbox) /\ UNCHANGED requests
    <2>1. Advanced(1)
      BY <1>1, TakeAdvances DEF Lose, Take, clientVars
    <2>2. Total \in Nat /\ Total' \in Nat
      <3>1. Total \in Nat /\ Len(inbox) \in Nat \ {0} /\ Len(inbox') = Len(inbox) - 1
            /\ Len(requests) \in Nat
        BY <1>1, TakeMoves, LineTypes, LineParts DEF Take, LineTypeOK
      <3>2. QED
        BY <1>1, <3>1 DEF Total
    <2>3. PICK t \in Nat, t1 \in Nat : t = Total /\ t1 = Total'
      BY <2>2
    <2>4. t1 + 0 <= t
      <3>1. t1 + 1 <= t
        BY <2>1, <2>3 DEF Advanced
      <3>2. QED
        BY <3>1
    <2>5. ASSUME NEW k \in 1..t1
          PROVE  \E j \in 1..t :
                    SamePacket(At(k)', At(j)) /\ k + 0 <= j /\ (j = t => k = t1)
      BY <2>1, <2>3 DEF Advanced
    <2>6. QED
      BY <2>1, <2>3, <2>4, <2>5 DEF Advanced
  <1>2. CASE requests # <<>> /\ requests' = Tail(requests) /\ UNCHANGED inbox
    <2>1. PICK a \in Nat, b \in Nat : a = Len(inbox) /\ b = Len(requests)
      BY LineParts
    <2>2. /\ b # 0 /\ Len(requests') = b - 1
          /\ \A i \in 1..(b - 1) : requests'[i] = requests[i + 1]
      <3>1. requests \in Seq(Requests)
        BY LineParts
      <3>2. /\ b \in Nat \ {0} /\ DOMAIN requests' = 1..(b - 1) /\ requests' \in Seq(Requests)
            /\ \A i \in 1..(b - 1) : requests'[i] = requests[i + 1]
        BY <1>2, <2>1, <3>1, TailFacts
      <3>3. DOMAIN requests' = 1..Len(requests') /\ Len(requests') \in Nat
        BY <3>2, LenProperties
      <3>4. QED
        BY <3>2, <3>3
    <2>3. PICK t \in Nat, t1 \in Nat : t = Total /\ t1 = Total' /\ t = a + b /\ t1 = a + (b - 1)
      <3>1. Total = a + b /\ Total' = a + (b - 1)
        BY <1>2, <2>1, <2>2 DEF Total
      <3>2. a + b \in Nat /\ a + (b - 1) \in Nat
        BY <2>2
      <3>3. QED
        BY <3>1, <3>2
    <2>4. ASSUME NEW k \in 1..t1
          PROVE  \E j \in 1..t :
                    SamePacket(At(k)', At(j)) /\ k + 0 <= j /\ (j = t => k = t1)
      <3>1. CASE k <= a
        <4>1. At(k)' = At(k)
          BY <1>2, <2>1, <3>1 DEF At
        <4>2. k \in 1..t /\ k + 0 <= k /\ k # t
          BY <2>3
        <4>3. QED
          BY <4>1, <4>2 DEF SamePacket
      <3>2. CASE ~(k <= a)
        <4>1. ~(k + 1 <= a) /\ k - a \in 1..(b - 1) /\ (k - a) + 1 = (k + 1) - a
          BY <2>3, <3>2
        <4>2. At(k)' = requests'[k - a] /\ At(k + 1) = requests[(k + 1) - a]
          BY <1>2, <2>1, <3>2, <4>1 DEF At
        <4>3. At(k)' = At(k + 1)
          BY <2>2, <4>1, <4>2
        <4>4. k + 1 \in 1..t /\ k + 0 <= k + 1 /\ (k + 1 = t => k = t1)
          BY <2>3
        <4>5. QED
          BY <4>3, <4>4 DEF SamePacket
      <3>3. QED
        BY <3>1, <3>2
    <2>5. t1 + 0 <= t /\ seq' = seq
      BY <2>3 DEF Lose, clientVars
    <2>6. QED
      BY <2>3, <2>4, <2>5 DEF Advanced
  <1>3. QED
    BY <1>1, <1>2 DEF Lose

-----------------------------------------------------------------------------
(* Every step keeps the line.                                              *)

\* The call is over, or it goes on with a GetHostReq of its own.
Ended == call' = Idle /\ UNCHANGED <<requests, seq>>

LEMMA ServeEnds ==
  ASSUME NEW m, NEW item, Serve(m, item)
  PROVE  Ended \/ Ask(m)
  BY DEF Serve, Ended, Return

LEMMA AskAsks ==
  ASSUME TypeOK, NEW m \in Mods, Ask(m)
  PROVE  /\ HostReq(m, seq) \in Requests /\ Asking(HostReq(m, seq))
         /\ requests' = Append(requests, HostReq(m, seq))
  BY DEF Ask, Asking, HostReq, Requests, TypeOK

LEMMA SpareFacts ==
  /\ Ready => Spare = 1
  /\ Waiting => Spare = 0
  /\ call' = Idle => Spare' = 1 /\ call'.op # "host"
  BY DEF Ready, Waiting, Spare, Idle, Gone

\* What a packet read, or a fault, pays for.
LEMMA Paid ==
  ASSUME TypeOK, TypeOK', NEW d \in 0..1, faults' = faults, Spare = 1 \/ d = 1 \/ Spare' = 0
  PROVE  Spare' - faults' <= Spare - faults + d
  <1>1. PICK f \in Nat, sp \in 0..1 : f = faults /\ sp = Spare
    BY LineTypes DEF LineTypeOK
  <1>2. PICK sp1 \in 0..1 : sp1 = Spare'
    BY LineTypesNext DEF LineTypeOK
  <1>3. sp = 1 \/ d = 1 \/ sp1 = 0
    BY <1>1, <1>2
  <1>4. sp1 - f <= sp - f + d
    BY <1>3
  <1>5. QED
    BY <1>1, <1>2, <1>4

\* A request of a call that has read d packets.
LEMMA AskKeepsLine ==
  ASSUME MaxFault < SeqLim, TypeOK, TypeOK', Line, NEW m \in Mods, Ask(m),
         NEW d \in 0..1, d = 0 => inbox' = inbox, d = 1 => Take,
         Total = 0 \/ 1 - faults' <= Spare - faults + d
  PROVE  Line'
  <1>1. PICK r \in Requests : Asking(r) /\ requests' = Append(requests, r)
    BY AskAsks
  <1>2. Sends(r, d) /\ d <= Total
    BY <1>1, SendMoves
  <1>3. QED
    BY <1>1, <1>2, AskLine

\* Nothing moves and no call ends.
LEMMA StillKeepsLine ==
  ASSUME TypeOK, TypeOK', Line, UNCHANGED <<inbox, requests, seq, faults>>,
         Spare = 1 \/ Spare' = 0,
         call'.op = "host" => call.op = "host" /\ call'.seq = call.seq /\ call'.mod = call.mod
  PROVE  Line'
  <1>1. Advanced(0)
    BY StillAdvances
  <1>2. Spare' - faults' <= Spare - faults + 0
    BY Paid
  <1>3. QED
    BY <1>1, <1>2, AdvancedLine

LEMMA ServeReadyKeepsLine ==
  ASSUME MaxFault < SeqLim, TypeOK, TypeOK', Line, NEW m \in Mods, NEW item, Serve(m, item),
         Ready, UNCHANGED <<inbox, faults>>
  PROVE  Line'
  <1>1. CASE Ended
    BY <1>1, SpareFacts, StillKeepsLine DEF Ended
  <1>2. CASE Ask(m)
    <2>1. PICK f \in Nat : f = faults
      BY LineTypes DEF LineTypeOK
    <2>2. 1 - f <= 1 - f + 0
      OBVIOUS
    <2>3. 1 - faults' <= Spare - faults + 0
      BY <2>1, <2>2, SpareFacts
    <2>4. QED
      BY <1>2, <2>3, AskKeepsLine
  <1>3. QED
    BY <1>1, <1>2, ServeEnds

LEMMA QueryKeepsLine ==
  ASSUME TypeOK, TypeOK', Line, Ready, NEW r \in Requests, r.kind # "host",
         requests' = Append(requests, r), UNCHANGED <<inbox, seq, faults>>,
         call'.op \notin {"host", "idle", "gone"}
  PROVE  Line'
  <1>1. Sends(r, 0)
    BY SendMoves
  <1>2. QED
    BY <1>1, SpareFacts, QueryLine

LEMMA GetHostKeepsLine ==
  ASSUME MaxFault < SeqLim, TypeOK, TypeOK', Line, NEW m \in Mods, ApiGetHost(m)
  PROVE  Line'
  <1>1. CASE cache[m] = NoItem /\ Query(m, "fetch", Absent)
    <2>1. CacheReq(m, Absent) \in Requests /\ CacheReq(m, Absent).kind # "host"
      BY DEF CacheReq, Requests, Absent
    <2>2. QED
      BY <1>1, <2>1, QueryKeepsLine DEF Query, ApiGetHost
  <1>2. CASE cache[m] # NoItem /\ Query(m, "refresh", cache[m].version)
    <2>1. cache[m] \in Item
      BY <1>2 DEF TypeOK
    <2>2. cache[m].version \in -1..MaxChange
      BY <2>1 DEF Item
    <2>3. CacheReq(m, cache[m].version) \in Requests
          /\ CacheReq(m, cache[m].version).kind # "host"
      BY <2>2 DEF CacheReq, Requests
    <2>4. QED
      BY <1>2, <2>3, QueryKeepsLine DEF Query, ApiGetHost
  <1>3. CASE Serve(m, cache[m])
    BY <1>3, ServeReadyKeepsLine DEF ApiGetHost
  <1>4. QED
    BY <1>1, <1>2, <1>3 DEF ApiGetHost

LEMMA QuietKeepsLine ==
  ASSUME TypeOK, TypeOK', Line, NEW m \in Mods,
         \/ ApiGetHostStatic(m) \/ (\E h \in HostsOf(m), r \in {0, 1} : ApiReportRes(m, h, r))
         \/ (\E S \in SUBSET HostsOf(m), ov \in BOOLEAN : AgentChange(m, S, ov))
  PROVE  Line'
  <1>1. CASE ApiGetHostStatic(m)
    BY <1>1, SpareFacts, StillKeepsLine DEF ApiGetHostStatic, Return, netVars
  <1>2. CASE \E h \in HostsOf(m), r \in {0, 1} : ApiReportRes(m, h, r)
    <2>1. Ready /\ call' = call /\ UNCHANGED <<inbox, requests, seq, faults>>
      BY <1>2 DEF ApiReportRes, netVars
    <2>2. QED
      BY <2>1, SpareFacts, StillKeepsLine
  <1>3. CASE \E S \in SUBSET HostsOf(m), ov \in BOOLEAN : AgentChange(m, S, ov)
    <2>1. call' = call /\ UNCHANGED <<inbox, requests, seq, faults>>
      BY <1>3 DEF AgentChange, netVars, clientVars
    <2>2. Spare \in 0..1 /\ Spare' = Spare
      BY <2>1 DEF Spare, Waiting
    <2>3. QED
      BY <2>1, <2>2, StillKeepsLine
  <1>4. QED
    BY <1>1, <1>2, <1>3

LEMMA GetRouteKeepsLine ==
  ASSUME TypeOK, TypeOK', Line, NEW m \in Mods, ApiGetRoute(m)
  PROVE  Line'
  <1>1. RouteReq(m) \in Requests /\ RouteReq(m).kind # "host"
    BY DEF RouteReq, Requests
  <1>2. QED
    BY <1>1, QueryKeepsLine DEF ApiGetRoute

\* A packet is read, and the call ends or goes on.
LEMMA TakeKeepsLine ==
  ASSUME TypeOK, TypeOK', Line, Take, UNCHANGED <<requests, seq, faults>>,
         call'.op = "host" => call.op = "host" /\ call'.seq = call.seq /\ call'.mod = call.mod
  PROVE  Line'
  <1>1. Advanced(1)
    BY TakeAdvances
  <1>2. Spare' - faults' <= Spare - faults + 1
    BY Paid
  <1>3. QED
    BY <1>1, <1>2, AdvancedLine

LEMMA RecvRoute4CacheKeepsLine ==
  ASSUME MaxFault < SeqLim, TypeOK, TypeOK', Line, RecvRoute4Cache
  PROVE  Line'
  <1>1. Waiting /\ Take /\ faults' = faults /\ call.op \in {"fetch", "refresh"}
    BY DEF RecvRoute4Cache
  <1>2. call.mod \in Mods
    BY <1>1, CallFields DEF TypeOK
  <1>3. Ended \/ Ask(call.mod)
    BY ServeEnds DEF RecvRoute4Cache, Ended, Return
  <1>4. CASE Ended
    BY <1>1, <1>4, SpareFacts, TakeKeepsLine DEF Ended
  <1>5. CASE Ask(call.mod)
    <2>1. PICK f \in Nat : f = faults
      BY LineTypes DEF LineTypeOK
    <2>2. 1 - f <= 0 - f + 1
      OBVIOUS
    <2>3. 1 - faults' <= Spare - faults + 1
      BY <1>1, <2>1, <2>2, SpareFacts
    <2>4. QED
      BY <1>1, <1>2, <1>5, <2>3, AskKeepsLine
  <1>6. QED
    BY <1>3, <1>4, <1>5

LEMMA RecvHostKeepsLine ==
  ASSUME TypeOK, TypeOK', Line, RecvHost
  PROVE  Line'
  <1>1. Take /\ UNCHANGED <<requests, seq, faults>> /\ call.op = "host"
    BY DEF RecvHost
  <1>2. call' = Idle \/ call' = [call EXCEPT !.again = TRUE]
    BY DEF RecvHost, Return
  <1>3. call'.op = "host" => call'.seq = call.seq /\ call'.mod = call.mod
    <2>1. CASE call' = Idle
      BY <2>1, SpareFacts
    <2>2. CASE call' = [call EXCEPT !.again = TRUE]
      <3>1. call \in Calls
        BY DEF TypeOK
      <3>2. call \in [op : {"host"}, mod : Mods, seq : 0..(SeqLim - 1), again : BOOLEAN]
        BY <1>1, <3>1 DEF Calls, Idle, Gone
      <3>3. QED
        BY <2>2, <3>2
    <2>3. QED
      BY <1>2, <2>1, <2>2
  <1>4. QED
    BY <1>1, <1>3, TakeKeepsLine

LEMMA RecvRouteKeepsLine ==
  ASSUME TypeOK, TypeOK', Line, RecvRoute
  PROVE  Line'
  BY SpareFacts, TakeKeepsLine DEF RecvRoute, Return

LEMMA TimeoutKeepsLine ==
  ASSUME MaxFault < SeqLim, TypeOK, TypeOK', Line, Timeout
  PROVE  Line'
  <1>1. /\ Waiting /\ inbox = <<>> /\ inbox' = inbox
        /\ requests = <<>> \/ faults' = faults + 1
    BY DEF Timeout, Fault
  <1>2. Total = 0 \/ 1 - faults' <= Spare - faults + 0
    <2>1. CASE requests = <<>>
      BY <1>1, <2>1 DEF Total
    <2>2. CASE faults' = faults + 1
      <3>1. PICK f \in Nat : f = faults
        BY LineTypes DEF LineTypeOK
      <3>2. 1 - (f + 1) <= 0 - f + 0
        OBVIOUS
      <3>3. QED
        BY <1>1, <2>2, <3>1, <3>2, SpareFacts
    <2>3. QED
      BY <1>1, <2>1, <2>2
  <1>3. Ended \/ (call.op = "refresh" /\ Ask(call.mod))
    BY ServeEnds DEF Timeout, Ended, Return
  <1>4. CASE Ended
    <2>1. Advanced(0)
      BY <1>1, <1>4, StillAdvances DEF Ended
    <2>2. Spare' = 1 /\ call'.op # "host"
      BY <1>4, SpareFacts DEF Ended
    <2>3. Total = 0 \/ Spare' - faults' <= Spare - faults + 0
      BY <1>2, <2>2
    <2>4. QED
      BY <2>1, <2>2, <2>3, AdvancedLine
  <1>5. CASE call.op = "refresh" /\ Ask(call.mod)
    <2>1. call.mod \in Mods
      BY <1>5, CallFields DEF TypeOK
    <2>2. QED
      BY <1>1, <1>2, <1>5, <2>1, AskKeepsLine
  <1>6. QED
    BY <1>3, <1>4, <1>5

LEMMA ExitKeepsLine ==
  ASSUME TypeOK, TypeOK', Line, Exit
  PROVE  Line'
  <1>1. call'.op # "host"
    BY DEF Exit, Gone
  <1>2. QED
    BY <1>1, SpareFacts, StillKeepsLine DEF Exit, netVars

LEMMA SocketKeepsLine ==
  ASSUME TypeOK, TypeOK', Line, AgentServe \/ Lose
  PROVE  Line'
  <1>1. Advanced(0) /\ call' = call
    BY AgentServeAdvances, LoseAdvances DEF AgentServe, Lose, clientVars
  <1>2. faults' = faults \/ faults' = faults + 1
    BY DEF AgentServe, Lose, Fault
  <1>3. PICK f \in Nat, sp \in 0..1 : f = faults /\ sp = Spare
    BY LineTypes DEF LineTypeOK
  <1>4. Spare' = sp
    BY <1>1, <1>3 DEF Spare, Waiting
  <1>5. sp - f <= sp - f + 0 /\ sp - (f + 1) <= sp - f + 0
    OBVIOUS
  <1>6. Spare' - faults' <= Spare - faults + 0
    BY <1>2, <1>3, <1>4, <1>5
  <1>7. QED
    BY <1>1, <1>6, AdvancedLine

LEMMA TickKeepsLine ==
  ASSUME TypeOK, TypeOK', Line, Tick
  PROVE  Line'
  <1>1. UNCHANGED <<inbox, requests, seq, faults>>
    BY DEF Tick, netVars
  <1>2. CASE call' = call
    <2>1. Spare \in 0..1 /\ Spare' = Spare
      BY <1>2 DEF Spare, Waiting
    <2>2. QED
      BY <1>1, <1>2, <2>1, StillKeepsLine
  <1>3. CASE call.op \in {"fetch", "refresh"} /\ call' = [call EXCEPT !.age = 1]
    <2>1. call \in [op : {"fetch", "refresh"}, mod : Mods, age : 0..1]
      BY <1>3 DEF TypeOK, Calls, Idle, Gone
    <2>2. call'.op \in {"fetch", "refresh"}
      BY <1>3, <2>1
    <2>3. Spare' = 0 /\ call'.op # "host"
      BY <2>2 DEF Spare, Waiting, Idle, Gone
    <2>4. QED
      BY <1>1, <2>3, StillKeepsLine
  <1>4. QED
    BY <1>2, <1>3 DEF Tick

LEMMA NextKeepsLine ==
  ASSUME MaxFault < SeqLim, TypeOK, TypeOK', Line, [Next]_vars
  PROVE  Line'
  <1>1. CASE Next
    BY <1>1, GetHostKeepsLine, QuietKeepsLine, GetRouteKeepsLine,
       RecvRoute4CacheKeepsLine, RecvHostKeepsLine, RecvRouteKeepsLine,
       TimeoutKeepsLine, ExitKeepsLine, SocketKeepsLine, TickKeepsLine DEF Next
  <1>2. CASE UNCHANGED vars
    <2>1. call' = call /\ UNCHANGED <<inbox, requests, seq, faults>>
      BY <1>2 DEF vars, clientVars, netVars
    <2>2. Spare \in 0..1 /\ Spare' = Spare
      BY <2>1 DEF Spare, Waiting
    <2>3. QED
      BY <2>1, <2>2, StillKeepsLine
  <1>3. QED
    BY <1>1, <1>2

LEMMA InitLine ==
  ASSUME Init
  PROVE  Line
  <1>1. Total = 0 /\ Spare = 1 /\ faults = 0 /\ call.op # "host"
    BY DEF Init, Total, Spare, Waiting, Idle
  <1>2. QED
    BY <1>1 DEF Line

-----------------------------------------------------------------------------
(* The theorem.                                                            *)

\* An answer that ends a GetHostReq is the youngest packet, and the oldest.
LEMMA EndedByLast ==
  ASSUME TypeOK, Line, [Next]_vars, call.op = "host", call' = Idle, ret' # Failed
  PROVE  requests' = <<>> /\ inbox' = <<>> /\ Head(inbox).mod = call.mod
  <1>1. RecvHost
    <2>1. Next /\ ~Ready /\ call' # call
      BY DEF vars, clientVars, Ready, Idle
    <2>2. ASSUME NEW m \in Mods
          PROVE  /\ ~ApiGetHost(m) /\ ~ApiGetHostStatic(m) /\ ~ApiGetRoute(m)
                 /\ ~\E h \in HostsOf(m), r \in {0, 1} : ApiReportRes(m, h, r)
      BY <2>1 DEF ApiGetHost, ApiGetHostStatic, ApiGetRoute, ApiReportRes
    <2>3. ASSUME NEW m \in Mods, NEW S \in SUBSET HostsOf(m), NEW ov \in BOOLEAN
          PROVE  ~AgentChange(m, S, ov)
      BY <2>1 DEF AgentChange, clientVars
    <2>4. ~RecvRoute4Cache /\ ~RecvRoute /\ ~Exit
      BY <2>1 DEF RecvRoute4Cache, RecvRoute, Exit
    <2>5. ~Timeout
      <3>1. ASSUME Timeout PROVE ret' = Failed
        BY <3>1 DEF Timeout, Return
      <3>2. QED
        BY <3>1
    <2>6. ~AgentServe /\ ~Lose /\ ~Tick
      BY <2>1 DEF AgentServe, Lose, Tick, clientVars
    <2>7. QED
      BY <2>1, <2>2, <2>3, <2>4, <2>5, <2>6 DEF Next
  <1>2. PICK p : /\ p = Head(inbox) /\ Take /\ requests' = requests
                 /\ p.kind = "host" /\ p.seq = call.seq
    BY <1>1 DEF RecvHost, Return, Readable, AnswersCall, Idle
  <1>3. PICK a \in Nat \ {0}, b \in Nat : a = Len(inbox) /\ b = Len(requests)
    BY <1>2, TakeMoves, LineParts
  <1>4. At(1) = p /\ Total = a + b
    <2>1. Head(inbox) = inbox[1]
      BY <1>2, LineParts, TailFacts DEF Take
    <2>2. 1 <= a
      OBVIOUS
    <2>3. QED
      BY <1>2, <1>3, <2>1, <2>2 DEF At, Total
  <1>5. InPlace(1) /\ Lag(call.seq) = 0
    <2>1. 1 \in 1..(a + b)
      BY <1>3
    <2>2. QED
      BY <1>4, <2>1 DEF Line
  <1>6. 1 = a + b /\ p.mod = call.mod
    BY <1>2, <1>4, <1>5 DEF InPlace
  <1>7. b = 0 /\ a - 1 = 0
    BY <1>3, <1>6
  <1>8. requests' = <<>>
    BY <1>2, <1>3, <1>7, LineParts, EmptySeq
  <1>9. inbox' = <<>>
    <2>1. inbox' \in Seq(Packets)
      BY <1>2, TakeFacts
    <2>2. Len(inbox') = 0
      BY <1>2, <1>3, <1>7, TakeMoves
    <2>3. QED
      BY <2>1, <2>2, EmptySeq
  <1>10. QED
    BY <1>2, <1>6, <1>8, <1>9

\* The answer apiGetHost returns was given to its own request, for its own
\* module, with nothing left on the socket, as long as the timeouts are fewer than the numbers
\* _seqid can take: a late answer that is told by its number never meets a
\* call that has the same number again.
THEOREM AnswersAreFresh ==
  ASSUME MaxFault < SeqLim
  PROVE  Spec => FreshAnswer
  <1>1. Init => Line
    BY InitLine
  <1>2. TypeOK /\ TypeOK' /\ Line /\ [Next]_vars => Line'
    BY NextKeepsLine
  <1>3. TypeOK /\ Line /\ [Next]_vars
          => [call.op = "host" /\ call' = Idle /\ ret' # Failed
                 => requests' = <<>> /\ inbox' = <<>> /\ Head(inbox).mod = call.mod]_vars
    BY EndedByLast
  <1>4. Spec => []TypeOK
    BY ApiTypeCorrect
  <1>5. QED
    BY <1>1, <1>2, <1>3, <1>4, PTL DEF Spec, FreshAnswer

==============================================================================
