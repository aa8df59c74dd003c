------------------------------ MODULE RouteFeed ------------------------------
(***************************************************************************)
(* What the dnsserver promises the agents, and what module RouteLB assumes *)
(* of it: every message carries the route that is visible when it is sent; *)
(* who subscribes when a change is filed gets it pushed; a filed push is   *)
(* neither forgotten nor invented; and a connection that is lost loses all *)
(* of its subscriptions, and no other does, before there is a new one with *)
(* its descriptor.  Pushes stay filed under the descriptor, and others are *)
(* still filed until the last subscription is gone.                        *)
(***************************************************************************)
CONSTANTS
    Mods,    \* the modules
    Hosts,   \* the hosts routes are made of
    Fds,     \* the connections
    Untold,  \* nothing has been sent yet
    Told(_)  \* a route that has been sent

VARIABLES
    dns,     \* the visible routes
    subs,    \* the subscriptions <<connection, module>>
    filed,   \* the pushes to be sent
    gone,    \* the connections that have been lost and not yet cleared
    told     \* what was last sent to each subscription

feed == <<dns, subs, filed, gone, told>>

Pairs == Fds \X Mods

Init ==
    /\ dns \in [Mods -> SUBSET Hosts]
    /\ subs = {} /\ filed = {} /\ gone = {}
    /\ told = [p \in Pairs |-> Untold]

\* RouteLB's DnsChange, for as many modules as a reload finds.
Change ==
    /\ dns' \in [Mods -> SUBSET Hosts]
    /\ UNCHANGED <<subs, filed, gone, told>>

\* RouteLB's DnsFile.
File ==
    /\ \E M \in SUBSET Mods : filed' = filed \cup {p \in subs : p[2] \in M}
    /\ UNCHANGED <<dns, subs, gone, told>>

\* The two halves of RouteLB's DnsAnswer ...
Subscribe(p) ==
    /\ p[1] \notin gone
    /\ subs' = subs \cup {p}
    /\ UNCHANGED <<dns, filed, gone, told>>

Say(p) == told' = [told EXCEPT ![p] = Told(dns[p[2]])]

Answer(p) ==
    /\ p \in subs /\ p[1] \notin gone
    /\ Say(p)
    /\ UNCHANGED <<dns, subs, filed, gone>>

\* ... and its DnsPush.  The push may have been filed again in the meantime, and
\* it may have been filed for an earlier connection.
DnsPush(p) ==
    /\ p \in filed /\ p[1] \notin gone
    /\ filed' \in {filed, filed \ {p}}
    /\ IF p \in subs THEN Say(p) ELSE UNCHANGED told
    /\ UNCHANGED <<dns, subs, gone>>

\* RouteLB's Disconnect, its DnsUnsubscribe, and the end of clearSubscribe.
Disconnect(fd) ==
    /\ fd \notin gone /\ gone' = gone \cup {fd}
    /\ told' = [p \in Pairs |-> IF p[1] = fd THEN Untold ELSE told[p]]
    /\ UNCHANGED <<dns, subs, filed>>

Unsubscribe(p) ==
    /\ p[1] \in gone
    /\ subs' = subs \ {p}
    /\ UNCHANGED <<dns, filed, gone, told>>

Cleared(fd) ==
    /\ fd \in gone /\ gone' = gone \ {fd}
    /\ \A p \in subs : p[1] # fd
    /\ UNCHANGED <<dns, subs, filed, told>>

Next ==
    \/ Change \/ File
    \/ \E p \in Pairs : Subscribe(p) \/ Answer(p) \/ DnsPush(p) \/ Unsubscribe(p)
    \/ \E fd \in Fds : Disconnect(fd) \/ Cleared(fd)

Spec == Init /\ [][Next]_feed
=============================================================================
