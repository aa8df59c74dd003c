----------------------------- MODULE Dispatcher -----------------------------
(***************************************************************************)
(* What the load balancer of one module promises its clients, without      *)
(* lists, counters, windows or batches: the route is split into idle and   *)
(* overloaded hosts; a request is answered by a host of the route, and     *)
(* refused only when every host is overloaded and the refusals since the   *)
(* last host handed out are within the probe period; only a report moves a *)
(* host from one side to the other, one host at a time; a new route keeps  *)
(* the judgement of every host that stays and trusts every host that joins.*)
(***************************************************************************)
EXTENDS Naturals

CONSTANTS Hosts, ProbeNum

NoReply  == [kind |-> "none"]
OVERLOAD == [kind |-> "overload"]
Serve(h) == [kind |-> "host", host |-> h]

VARIABLES
    idle,     \* hosts trusted with requests
    down,     \* hosts that get a request only as a probe
    patience, \* answers still allowed before an overloaded host gets a probe
    answer    \* the reply given in the last step

vars == <<idle, down, patience, answer>>

Init ==
    /\ idle = {} /\ down = {}
    /\ patience = ProbeNum
    /\ answer = NoReply

\* An idle host is handed out; while some host is down that uses up patience.
Dispatch(h) ==
    /\ h \in idle
    /\ answer' = Serve(h)
    /\ IF down = {} THEN patience' = ProbeNum
                    ELSE patience > 0 /\ patience' = patience - 1
    /\ UNCHANGED <<idle, down>>

Probe(h) ==
    /\ h \in down
    /\ patience = 0
    /\ answer' = Serve(h)
    /\ patience' = ProbeNum
    /\ UNCHANGED <<idle, down>>

Refuse ==
    /\ idle = {} /\ down # {}
    /\ patience > 0 /\ patience' = patience - 1
    /\ answer' = OVERLOAD
    /\ UNCHANGED <<idle, down>>

\* A host changes sides on a report.
Judge(h) ==
    /\ \/ h \in idle /\ idle' = idle \ {h} /\ down' = down \cup {h}
       \/ h \in down /\ down' = down \ {h} /\ idle' = idle \cup {h}
    /\ answer' = NoReply
    /\ UNCHANGED patience

NewRoute(S) ==
    /\ idle' = S \ down
    /\ down' = down \cap S
    /\ patience' = IF S = {} THEN ProbeNum ELSE patience
    /\ answer' = NoReply

\* A step the client sees nothing of.
Quiet == answer' = NoReply /\ UNCHANGED <<idle, down, patience>>

Next ==
    \/ \E h \in Hosts : Dispatch(h) \/ Probe(h) \/ Judge(h)
    \/ Refuse
    \/ \E S \in SUBSET Hosts : NewRoute(S)
    \/ Quiet

Spec == Init /\ [][Next]_vars
=============================================================================
