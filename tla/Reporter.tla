------------------------------ MODULE Reporter ------------------------------
(***************************************************************************)
(* The way of a status report: the agent's report2Rpter, the queue and the *)
(* thread that sends it (RptClient.cc), the connection, the reporter with  *)
(* its queue per thread (reporter/src/Server.cc), the threads that write   *)
(* to MySQL (CallStatis.cc), and the rows of ServerCallStatus.             *)
(*                                                                         *)
(* A report is [mod, ts, hosts]: the counters in it are abstracted to its  *)
(* ts.  Rows are per caller, so one agent is enough.  The old connection   *)
(* of an agent is read to its end before a new one: reports of a module    *)
(* are at least ReportTimo apart, and the reporter's main thread only      *)
(* hands them on.                                                          *)
(***************************************************************************)
EXTENDS Integers, Sequences, SequencesExt

CONSTANTS
    Mods,        \* the modules
    Hosts,       \* the hosts routes are made of
    HostsOf(_),  \* the hosts a module may have
    Columns,     \* the values of the columns ip and port
    Column(_),   \* of a host: those over 2^31 - 1 all get the largest int(11)
    Threads,     \* of the reporter
    HashTo(_),   \* HASHTO(&key, threadCnt)
    ReportTimo,  \* seconds between two reports of a module
    MaxNow,      \* bound: the last second
    MaxChange,   \* bound: changes of routes
    MaxFault     \* bound: crashes, broken connections and failed queries

ASSUME ReporterAssumption ==
    /\ \A m \in Mods : HostsOf(m) \subseteq Hosts /\ HashTo(m) \in Threads
    /\ \A h \in Hosts : Column(h) \in Columns
    /\ ReportTimo \in Nat \ {0}
    /\ {MaxNow, MaxChange, MaxFault} \subseteq Nat

VARIABLES
    now,        \* the clock
    route,      \* the agent's hosts of a module
    lstRptTime, \* of the LB of the module
    reptQueue,  \* from the UDP threads to the reporter client
    connected,  \* that client has its connection
    wire,       \* the reports on the connection
    rptQueues,  \* in the reporter, per thread
    queries,    \* per thread: the reports it has taken, with the hosts still to write
    row,        \* ServerCallStatus: the ts per module and columns
    last,       \* history: the last report of each module
    lost,       \* history: what was not written, <<mod, ts, host>>
    changes, faults

agentVars    == <<now, route, lstRptTime, changes>>
reporterVars == <<rptQueues, queries, row>>
vars         == <<agentVars, reptQueue, connected, wire, reporterVars, last, lost, faults>>

Never == -1

Report(m, ts) == [mod |-> m, ts |-> ts, hosts |-> route[m]]

\* What a report would write, and the reports of a queue.
EntriesOf(r) == {<<r.mod, r.ts, h>> : h \in r.hosts}
EntriesIn(q) == UNION {EntriesOf(r) : r \in ToSet(q)}

Lose(q) == lost' = lost \cup EntriesIn(q)

Init ==
    /\ now = 0
    /\ route = [m \in Mods |-> {}] /\ lstRptTime = [m \in Mods |-> 0]
    /\ reptQueue = <<>> /\ connected = FALSE /\ wire = <<>>
    /\ rptQueues = [t \in Threads |-> <<>>] /\ queries = [t \in Threads |-> <<>>]
    /\ row = [m \in Mods |-> [c \in Columns |-> Never]]
    /\ last = [m \in Mods |-> [mod |-> m, ts |-> Never, hosts |-> {}]]
    /\ lost = {}
    /\ changes = 0 /\ faults = 0

Fault == faults < MaxFault /\ faults' = faults + 1

-----------------------------------------------------------------------------
(* The agent.                                                              *)

Tick ==
    /\ now < MaxNow
    /\ now' = now + 1
    /\ UNCHANGED <<route, lstRptTime, changes, reptQueue, connected, wire,
                   reporterVars, last, lost, faults>>

\* LB::update, and the deletion of the LB when the route is empty.
Update(m, S) ==
    /\ changes < MaxChange /\ S # route[m]
    /\ changes' = changes + 1
    /\ route' = [route EXCEPT ![m] = S]
    /\ lstRptTime' = [lstRptTime EXCEPT ![m] = IF route[m] = {} THEN now ELSE @]
    /\ UNCHANGED <<now, reptQueue, connected, wire, reporterVars, last, lost, faults>>

\* Mutant of Report2Rpter: the report is for the period to come.
ReportAhead(m) ==
    IF route[m] # {} /\ now - lstRptTime[m] >= ReportTimo
    THEN LET r == Report(m, now + ReportTimo)
         IN  /\ lstRptTime' = [lstRptTime EXCEPT ![m] = now]
             /\ reptQueue' = Append(reptQueue, r)
             /\ last' = [last EXCEPT ![m] = r]
             /\ UNCHANGED <<now, route, changes, connected, wire, reporterVars, lost, faults>>
    ELSE UNCHANGED vars

\* After a result has been counted.  The clock is read again for the report: a
\* second may have passed.
Report2Rpter(m) ==
    IF route[m] # {} /\ now - lstRptTime[m] >= ReportTimo
    THEN /\ lstRptTime' = [lstRptTime EXCEPT ![m] = now]
         /\ now' \in {now, now + 1} \cap (0..MaxNow)
         /\ reptQueue' = Append(reptQueue, Report(m, now'))
         /\ last' = [last EXCEPT ![m] = Report(m, now')]
         /\ UNCHANGED <<route, changes, connected, wire, reporterVars, lost, faults>>
    ELSE UNCHANGED vars

\* Mutant of NewReportReq: only the first of the batch is sent.
NewReportFirst ==
    /\ reptQueue # <<>>
    /\ reptQueue' = <<>>
    /\ IF connected THEN wire' = Append(wire, Head(reptQueue)) /\ UNCHANGED lost
                    ELSE Lose(reptQueue) /\ UNCHANGED wire
    /\ UNCHANGED <<agentVars, connected, reporterVars, last, faults>>

\* The client sends all that is in the queue; without a connection it is gone.
NewReportReq ==
    /\ reptQueue # <<>>
    /\ reptQueue' = <<>>
    /\ IF connected THEN wire' = wire \o reptQueue /\ UNCHANGED lost
                    ELSE Lose(reptQueue) /\ UNCHANGED wire
    /\ UNCHANGED <<agentVars, connected, reporterVars, last, faults>>

Connect ==
    /\ ~connected
    /\ connected' = TRUE
    /\ UNCHANGED <<agentVars, reptQueue, wire, reporterVars, last, lost, faults>>

\* The connection breaks: the reporter gets the reports up to some point.
Disconnect ==
    /\ connected /\ Fault
    /\ connected' = FALSE
    /\ \E n \in 0..Len(wire) :
          /\ wire' = SubSeq(wire, 1, n)
          /\ Lose(SubSeq(wire, n + 1, Len(wire)))
    /\ UNCHANGED <<agentVars, reptQueue, reporterVars, last>>

\* The agent dies and is started again, with no routes.
AgentCrash ==
    /\ Fault
    /\ route' = [m \in Mods |-> {}] /\ lstRptTime' = [m \in Mods |-> 0]
    /\ reptQueue' = <<>> /\ connected' = FALSE
    /\ \E n \in 0..Len(wire) :
          /\ wire' = SubSeq(wire, 1, n)
          /\ Lose(SubSeq(wire, n + 1, Len(wire)) \o reptQueue)
    /\ UNCHANGED <<now, changes, reporterVars, last>>

-----------------------------------------------------------------------------
(* The reporter.                                                           *)

\* Mutant of ReportStatus: any thread is given the report.
ReportStatusAny ==
    /\ wire # <<>>
    /\ wire' = Tail(wire)
    /\ \E t \in Threads : rptQueues' = [rptQueues EXCEPT ![t] = Append(@, Head(wire))]
    /\ UNCHANGED <<agentVars, reptQueue, connected, queries, row, last, lost, faults>>

\* The main thread gives a report to the thread of its module.
ReportStatus ==
    /\ wire # <<>>
    /\ wire' = Tail(wire)
    /\ rptQueues' = [rptQueues EXCEPT ![HashTo(Head(wire).mod)] = Append(@, Head(wire))]
    /\ UNCHANGED <<agentVars, reptQueue, connected, queries, row, last, lost, faults>>

\* newReportReq of a thread takes what is in its queue.
RecvMsg(t) ==
    /\ queries[t] = <<>> /\ rptQueues[t] # <<>>
    /\ rptQueues' = [rptQueues EXCEPT ![t] = <<>>]
    /\ queries' = [queries EXCEPT ![t] = rptQueues[t]]
    /\ UNCHANGED <<agentVars, reptQueue, connected, wire, row, last, lost, faults>>

Store(r, h) == row' = [row EXCEPT ![r.mod][Column(h)] = r.ts]

\* The queue q once the host h of its first report is done.
Done(q, h) ==
    IF Head(q).hosts = {h} THEN Tail(q) ELSE <<[Head(q) EXCEPT !.hosts = @ \ {h}]>> \o Tail(q)

\* The next query, for some host that the report still has; one that fails may
\* have been done all the same.
Query(t) ==
    /\ queries[t] # <<>>
    /\ LET r == Head(queries[t])
       IN  \E h \in r.hosts :
              /\ queries' = [queries EXCEPT ![t] = Done(queries[t], h)]
              /\ \/ Store(r, h) /\ UNCHANGED <<lost, faults>>
                 \/ /\ Fault
                    /\ lost' = lost \cup {<<r.mod, r.ts, h>>}
                    /\ Store(r, h) \/ UNCHANGED row
    /\ UNCHANGED <<agentVars, reptQueue, connected, wire, rptQueues, last>>

\* The reporter dies, with its queues and connections, and is started again.
ReporterCrash ==
    /\ Fault
    /\ connected' = FALSE /\ wire' = <<>>
    /\ rptQueues' = [t \in Threads |-> <<>>] /\ queries' = [t \in Threads |-> <<>>]
    /\ lost' = lost \cup EntriesIn(wire)
                    \cup UNION {EntriesIn(rptQueues[t]) \cup EntriesIn(queries[t]) : t \in Threads}
    /\ UNCHANGED <<agentVars, reptQueue, row, last>>

Next ==
    \/ Tick \/ NewReportReq \/ Connect \/ Disconnect \/ AgentCrash
    \/ \E m \in Mods :
          \/ Report2Rpter(m)
          \/ \E S \in SUBSET HostsOf(m) : Update(m, S)
    \/ ReportStatus \/ ReporterCrash
    \/ \E t \in Threads : RecvMsg(t) \/ Query(t)

\* The event loops run the callbacks of what has arrived.
Fairness ==
    /\ WF_vars(NewReportReq) /\ WF_vars(ReportStatus)
    /\ \A t \in Threads : WF_vars(RecvMsg(t)) /\ WF_vars(Query(t))

Spec == Init /\ [][Next]_vars /\ Fairness

-----------------------------------------------------------------------------
(* Properties.                                                             *)

Reports == [mod : Mods, ts : 0..MaxNow, hosts : SUBSET Hosts]
Entries == Mods \X (0..MaxNow) \X Hosts

\* The agent, the connection, the reporter and the table are well formed.
TypeOK ==
    /\ now \in 0..MaxNow
    /\ route \in [Mods -> SUBSET Hosts] /\ lstRptTime \in [Mods -> 0..MaxNow]
    /\ reptQueue \in Seq(Reports) /\ wire \in Seq(Reports)
    /\ connected \in BOOLEAN
    /\ rptQueues \in [Threads -> Seq(Reports)]
    /\ queries \in [Threads -> Seq(Reports)]
    /\ row \in [Mods -> [Columns -> Never..MaxNow]]
    /\ last \in [Mods -> [mod : Mods, ts : Never..MaxNow, hosts : SUBSET Hosts]]
    /\ lost \subseteq Entries
    /\ changes \in 0..MaxChange /\ faults \in 0..MaxFault

\* The rows of a module never go back to an older report, whatever threads,
\* connections and processes do in between, and are ReportTimo apart (a second
\* less if the clock ticks while a report is made), also when the agent has
\* been restarted or has got the module anew (RouteLb.cc:541).
RowsAdvance ==
    [][\A m \in Mods, c \in Columns :
          row'[m][c] # row[m][c] /\ row[m][c] # Never
             => row'[m][c] - row[m][c] >= ReportTimo - 1]_vars

\* In the end the row of every host of a module's last report is that report,
\* unless the report met no connection, a crash or a failing query.
RowsCatchUp ==
    <>[](\A m \in Mods : \A h \in last[m].hosts :
            \/ row[m][Column(h)] = last[m].ts
            \/ <<m, last[m].ts, h>> \in lost)
=============================================================================
