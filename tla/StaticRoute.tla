---------------------------- MODULE StaticRoute -----------------------------
(***************************************************************************)
(* What a client does when the agent is dead, and how it knows: the        *)
(* agent's heartbeat in shared memory (HeartBeat.h, lbagent/src/Server.cc),*)
(* the routes it writes to /tmp/backupRoute.dat.N every minute             *)
(* (persistRoute), and the clients' StaticRoute (StaticRoute.h and .py).   *)
(*                                                                         *)
(* A route is a set of lines <<module, host>>; the UDP thread s of the     *)
(* agent keeps the lines of its own modules and writes the file s.  stdio  *)
(* hands a long file to the kernel in blocks, which do not end where lines *)
(* do: what is left when the agent dies in between may end in half a line. *)
(* Reading the three files is one step: while the agent is dead they do not*)
(* change, and it writes none in the minute after it has started.  When a  *)
(* live agent is taken for dead, each file is read in a state it passes.   *)
(***************************************************************************)
EXTENDS Integers

CONSTANTS
    Shards,      \* the UDP threads of the agent, in the order of their files
    Lines(_),    \* the lines <<module, host>> the file of a thread may have
    Threshold,   \* DEAD_THRESHOLD, in seconds
    Jitter,      \* how late, in seconds, a beat of a running agent may be
    Wide,        \* 2^64, where unsigned arithmetic wraps
    Torn,        \* half a line, read as a line
    NoFile,      \* instead of a line: there is no such file
    Nobody,      \* instead of a line: no host
    MaxNow,      \* bound: the last second of the clock
    MaxStep,     \* bound: seconds the clock is set back
    MaxChange,   \* bound: changes of the agent's routes
    MaxCrash,    \* bound: deaths of the agent
    MaxFail      \* bound: writes to a file that fail

AllLines == UNION {Lines(s) : s \in Shards}

ASSUME StaticRouteAssumption ==
    /\ Shards \subseteq Nat
    /\ {Threshold, Jitter, MaxNow, MaxStep, MaxChange, MaxCrash, MaxFail} \subseteq Nat
    /\ Wide \in Nat /\ Wide > MaxNow
    /\ Jitter < Threshold
    /\ Torn # Nobody /\ {Torn, Nobody} \cap AllLines = {}

VARIABLES
    now,      \* the clock
    up,       \* the agent runs
    beat,     \* *_hb
    down,     \* history: the seconds since the agent died
    steps,    \* history: the seconds the clock has been set back
    routes,   \* per thread: the lines of its _routeMap
    file,     \* per thread: its file
    writing,  \* per thread: what persistRoute is doing
    language, \* of the client
    look,     \* what the client has read in die()
    table,    \* the client's _route
    given,    \* the line the static host of the last call was taken from
    seen,     \* history: what has been in a file since the client saw the agent alive
    steady,   \* history: the lines that have been in their file ever since then
    changes, crashes, fails

timeVars   == <<now, down, steps>>
agentVars  == <<up, beat, routes, changes, crashes>>
fileVars   == <<file, writing, fails>>
histVars   == <<seen, steady>>
clientVars == <<language, look, table, given>>
vars       == <<timeVars, agentVars, fileVars, clientVars, histVars>>

\* A file: absent, or its lines and whether it ends in half a line.
Missing      == [there |-> FALSE, lines |-> {}, torn |-> FALSE]
File(L, t)   == [there |-> TRUE, lines |-> L, torn |-> t]

\* persistRoute: not running, the file truncated, or its lines being written.
Resting    == [at |-> "rest"]
Opened     == [at |-> "opened"]
Flushing(L) == [at |-> "flush", left |-> L]

NotLooking == [at |-> "rest", live |-> FALSE, down |-> 0]

Init ==
    /\ now = 0 /\ down = 0 /\ steps = 0
    /\ up = TRUE /\ beat = 0
    /\ routes = [s \in Shards |-> {}]
    /\ file = [s \in Shards |-> Missing]
    /\ writing = [s \in Shards |-> Resting]
    /\ language \in {"C++", "Python"}
    /\ look = NotLooking /\ table = {} /\ given = Nobody
    /\ seen = {NoFile} /\ steady = {}
    /\ changes = 0 /\ crashes = 0 /\ fails = 0

-----------------------------------------------------------------------------
(* The agent.                                                              *)

\* Mutant of RecordTs: it is a second ahead of the clock.
RecordAhead ==
    /\ up /\ beat # now
    /\ beat' = now + 1
    /\ UNCHANGED <<timeVars, up, routes, changes, crashes, fileVars,
                   clientVars, histVars>>

\* The timer of the main thread.
RecordTs ==
    /\ up /\ beat # now
    /\ beat' = now
    /\ UNCHANGED <<timeVars, up, routes, changes, crashes, fileVars,
                   clientVars, histVars>>

\* The routes of a thread change: new answers and pushes of the dnsserver.
Learn(s, L) ==
    /\ up /\ changes < MaxChange
    /\ changes' = changes + 1
    /\ routes' = [routes EXCEPT ![s] = L]
    /\ UNCHANGED <<timeVars, up, beat, crashes, fileVars, clientVars, histVars>>

\* What a client reads in a file, and what it finds in the others.
Text(f) == f.lines \cup (IF f.torn THEN {Torn} ELSE {})

SetFile(s, f) ==
    /\ file' = [file EXCEPT ![s] = f]
    /\ seen' = seen \cup Text(f)
    /\ steady' = steady \ (Lines(s) \ f.lines)

\* fopen(..., "w").  When it fails the file stays as it is for another minute.
PersistOpen(s) ==
    /\ up /\ writing[s] = Resting
    /\ writing' = [writing EXCEPT ![s] = Opened]
    /\ SetFile(s, File({}, FALSE))
    /\ UNCHANGED <<timeVars, agentVars, fails, clientVars>>

\* The lines are printed, under the mutex, into the buffer of the file.
PersistPrint(s) ==
    /\ up /\ writing[s] = Opened
    /\ writing' = [writing EXCEPT ![s] = Flushing(routes[s])]
    /\ UNCHANGED <<timeVars, agentVars, file, fails, clientVars, histVars>>

\* A block, or with fclose the rest of the buffer, goes to the file.
PersistFlush(s) ==
    /\ up /\ writing[s].at = "flush"
    /\ \E left \in SUBSET writing[s].left, torn \in BOOLEAN :
          /\ left # {} => left # writing[s].left
          /\ torn => left # {}
          /\ SetFile(s, File(file[s].lines \cup (writing[s].left \ left), torn))
          /\ writing' = [writing EXCEPT ![s] = IF left = {} THEN Resting ELSE Flushing(left)]
    /\ UNCHANGED <<timeVars, agentVars, fails, clientVars>>

\* A write of fprintf or fclose fails, on a full disk.  Nobody looks: a part of
\* the block, or nothing, gets to the file, nothing of the rest does by fclose,
\* and that is the file for a minute.
PersistFails(s) ==
    /\ up /\ writing[s].at = "flush" /\ fails < MaxFail
    /\ fails' = fails + 1
    /\ \E kept \in SUBSET writing[s].left, torn \in BOOLEAN :
          /\ kept # writing[s].left
          /\ SetFile(s, File(file[s].lines \cup kept, torn))
    /\ writing' = [writing EXCEPT ![s] = Resting]
    /\ UNCHANGED <<timeVars, agentVars, clientVars>>

\* The agent dies: what is in buffers is lost, the shared memory stays.
Crash ==
    /\ up /\ crashes < MaxCrash
    /\ crashes' = crashes + 1
    /\ up' = FALSE
    /\ routes' = [s \in Shards |-> {}]
    /\ writing' = [s \in Shards |-> Resting]
    /\ look' = [look EXCEPT !.live = FALSE]
    /\ UNCHANGED <<timeVars, beat, changes, file, fails, language, table, given, histVars>>

\* HeartBeat(true).
Restart ==
    /\ ~up
    /\ up' = TRUE /\ beat' = now /\ down' = 0
    /\ look' = [look EXCEPT !.down = 0]
    /\ UNCHANGED <<now, steps, routes, changes, crashes, fileVars, language, table, given, histVars>>

\* A second passes, in which a running agent has beaten, or is a little late.
Tick ==
    /\ now < MaxNow
    /\ up => now - beat <= Jitter
    /\ now' = now + 1
    /\ down' = IF up THEN 0 ELSE down + 1
    /\ UNCHANGED <<steps, agentVars, fileVars, clientVars, histVars>>

\* The clock is set back by a second.
SetBack ==
    /\ now > 0 /\ steps < MaxStep
    /\ steps' = steps + 1
    /\ now' = now - 1
    /\ UNCHANGED <<down, agentVars, fileVars, clientVars, histVars>>

-----------------------------------------------------------------------------
(* The client: the beginning of apiGetHost.                                *)

\* die() reads the clock and the beat; C++ leaves open which it reads first.
\* Of the first reading, live tells whether the agent has run ever since, began
\* and steps are the state of the clock at it, and down is how long the agent had
\* been dead by then if it still is (0 if not).
LookAt(first, value) ==
    /\ look = NotLooking
    /\ look' = [at |-> first, value |-> value, live |-> up, down |-> down,
                began |-> now, steps |-> steps]
    /\ given' = Nobody
    /\ UNCHANGED <<timeVars, agentVars, fileVars, language, table, histVars>>

LookAtClock == LookAt("clock", now)

LookAtBeat == language = "C++" /\ LookAt("beat", beat)

\* Mutants of Dead: the threshold itself is dead; dead agents are missed.
DeadEarly(t, b) ==
    IF language = "C++" THEN (t - b) % Wide >= Threshold ELSE t - b >= Threshold

DeadLate(t, b) ==
    IF language = "C++" THEN (t - b) % Wide > 2 * Threshold ELSE t - b > 2 * Threshold

\* The comparison: long minus uint64_t is unsigned.
Dead(t, b) ==
    IF language = "C++" THEN (t - b) % Wide > Threshold ELSE t - b > Threshold

Time == IF look.at = "clock" THEN look.value ELSE now
Beat == IF look.at = "clock" THEN beat ELSE look.value

\* Mutant of FreeData: the table is kept.
FreeNothing == UNCHANGED table

FreeData == table' = {}

OnDisk  == UNION {Text(file[s]) : s \in Shards}
Written == UNION {file[s].lines : s \in Shards}

\* The agent is alive: freeData, and the agent is asked (module ApiClient).
FindAlive ==
    /\ look # NotLooking /\ ~Dead(Time, Beat)
    /\ look' = NotLooking
    /\ FreeData
    /\ seen' = OnDisk \cup {NoFile : s \in {r \in Shards : ~file[r].there}}
    /\ steady' = Written
    /\ UNCHANGED <<timeVars, agentVars, fileVars, language, given>>

\* Mutant of Stopping: the C++ client stops as well.
StoppingBoth ==
    {s \in Shards : /\ ~file[s].there \/ file[s].torn
                    /\ \A r \in Shards : r < s => file[r].there}

\* The Python client stops at a file it cannot open, and may at half a line:
\* that call fails, and the next one finds what has been read so far.
Stopping ==
    {s \in Shards : /\ language = "Python"
                    /\ ~file[s].there \/ file[s].torn
                    /\ \A r \in Shards : r < s => file[r].there}

Partial ==
    {[lines |-> file[s].lines \cup UNION {Text(file[r]) : r \in {q \in Shards : q < s}},
      fails |-> TRUE] : s \in Stopping}

Complete ==
    IF language = "C++" \/ \A s \in Shards : file[s].there
    THEN {[lines |-> OnDisk, fails |-> FALSE]} ELSE {}

Loads ==
    IF table # {} THEN {[lines |-> table, fails |-> FALSE]} ELSE Partial \cup Complete

\* Half a line may stand for any module.
LinesOf(m, L) == {l \in L : l = Torn \/ l[1] = m}

\* StaticRoute::getHost.
GetHost(m) ==
    /\ look # NotLooking /\ Dead(Time, Beat)
    /\ look' = NotLooking
    /\ \E load \in Loads :
          /\ table' = load.lines
          /\ \/ load.fails /\ given' = Nobody
             \/ ~load.fails /\ LinesOf(m, load.lines) \subseteq {Torn} /\ given' = Nobody
             \/ ~load.fails /\ given' \in LinesOf(m, load.lines)
    /\ UNCHANGED <<timeVars, agentVars, fileVars, language, histVars>>

Modules == {l[1] : l \in AllLines}

Next ==
    \/ RecordTs \/ Crash \/ Restart \/ Tick \/ SetBack
    \/ \E s \in Shards :
          \/ \E L \in SUBSET Lines(s) : Learn(s, L)
          \/ PersistOpen(s) \/ PersistPrint(s)
          \/ PersistFlush(s) \/ PersistFails(s)
    \/ LookAtClock \/ LookAtBeat \/ FindAlive
    \/ \E m \in Modules : GetHost(m)

Spec == Init /\ [][Next]_vars

-----------------------------------------------------------------------------
(* Properties.                                                             *)

Files  == [there : BOOLEAN, lines : SUBSET AllLines, torn : BOOLEAN]
Phases == {Resting, Opened} \cup [at : {"flush"}, left : SUBSET AllLines]
Looks  == {NotLooking}
          \cup [at : {"clock", "beat"}, value : 0..MaxNow, live : BOOLEAN,
               down : 0..(MaxNow + MaxStep), began : 0..MaxNow, steps : 0..MaxStep]

\* The agent, its files and the client are well formed; nothing but lines and
\* one torn line per file ever gets into a file or a table.
TypeOK ==
    /\ now \in 0..MaxNow /\ down \in 0..(MaxNow + MaxStep) /\ steps \in 0..MaxStep
    /\ up \in BOOLEAN /\ beat \in 0..MaxNow
    /\ routes \in [Shards -> SUBSET AllLines]
    /\ file \in [Shards -> Files] /\ writing \in [Shards -> Phases]
    /\ language \in {"C++", "Python"} /\ look \in Looks
    /\ table \subseteq AllLines \cup {Torn}
    /\ given \in AllLines \cup {Torn, Nobody}
    /\ seen \subseteq AllLines \cup {Torn, NoFile} /\ steady \subseteq AllLines
    /\ changes \in 0..MaxChange /\ crashes \in 0..MaxCrash /\ fails \in 0..MaxFail

SaysAlive == look # NotLooking /\ look' = NotLooking /\ ~Dead(Time, Beat)
SaysDead  == look # NotLooking /\ look' = NotLooking /\ Dead(Time, Beat)

\* HeartBeat.h:47.  An agent that has been running, its beats no more than
\* Jitter late, is found dead by a C++ client only, and only when the second
\* has changed between its two readings or the clock has been set back behind
\* the beat, where the unsigned difference wraps; or by any client between whose
\* readings the clock has been set back by more than the threshold.
LiveAgentUsed ==
    [][SaysDead /\ look.live
          => \/ language = "C++" /\ (now # look.began \/ Beat > Time)
             \/ steps - look.steps > Threshold]_vars

\* An agent that has been dead since the first reading is not found alive once
\* it has been dead for longer than the threshold, and the seconds the clock has
\* been set back, when the clock is read.
DeadNoticed ==
    [][SaysAlive /\ ~up
          => (IF look.at = "clock" THEN look.down ELSE down) <= Threshold + steps]_vars

\* The client's table is a cache of files: a line it serves has been in a file
\* at some time after it last saw the agent alive.
StaticFresh ==
    [][SaysDead => given' \in seen \cup {Nobody}]_vars

\* And it is a cache that misses nothing: asked for a module, a client finds a
\* host if a line of that module has been in its file ever since the client last
\* saw the agent alive, whatever happens to the other files and other lines: the
\* agent dies while it writes them, a write fails, the client has read them at
\* any time in between.  Not so the Python client once a file has been missing or
\* has ended in half a line, which it may stop at (StaticRoute.py:14).
StaticComplete ==
    [][\A m \in Modules : GetHost(m) /\ given' = Nobody
          => \/ LinesOf(m, steady) = {}
             \/ language = "Python" /\ {Torn, NoFile} \cap seen # {}]_vars
=============================================================================
