---------------------------- MODULE StaticProofs ----------------------------
(***************************************************************************)
(* Theorems on StaticRoute: its state is well formed, a client serves      *)
(* nothing of an earlier outage and withholds nothing that has been in its *)
(* file all the time, and what it makes of the heartbeat.                  *)
(***************************************************************************)
EXTENDS StaticRoute, TLAPS

\* The agent's time of death is in the bounds of the clock.
DownInv == down <= now + steps

TypeInv == TypeOK /\ DownInv

\* What the files and the client's table hold has been seen.
SeenInv == OnDisk \subseteq seen /\ table \subseteq seen

\* A thread has, writes and has written lines of its own file only.
OwnLines ==
    /\ \A s \in Shards : routes[s] \subseteq Lines(s) /\ file[s].lines \subseteq Lines(s)
    /\ \A s \in Shards : writing[s].at = "flush" => writing[s].left \subseteq Lines(s)

\* A file that is missing now has been missing.
GapsInv == \A s \in Shards : ~file[s].there => NoFile \in seen

\* What a Python client may stop at.
Damaged == language = "Python" /\ {Torn, NoFile} \cap seen # {}

\* The steady lines are in the files, and in a table that has been read.
SteadyInv == steady \subseteq Written /\ (table = {} \/ steady \subseteq table \/ Damaged)

FilesInv == SeenInv /\ OwnLines /\ GapsInv /\ SteadyInv

\* The beat is as old as the agent is dead, or fresh.
HeartInv ==
    /\ up => down = 0
    /\ down <= now - beat + steps
    /\ up => now - beat <= Jitter + 1

\* What the first reading of a client is worth by now.
ClockInv ==
    look.at = "clock" =>
       /\ look.value = look.began /\ look.value + look.steps <= now + steps
       /\ look.down = 0 \/ (~up /\ look.down <= look.value - beat + steps)
       /\ look.live => \/ look.value - beat <= Jitter + 1
                       \/ look.value - beat <= steps - look.steps

BeatInv ==
    look.at = "beat" =>
       /\ down <= now - look.value + steps
       /\ look.live => look.began - look.value <= Jitter + 1

LookInv ==
    /\ look.live => up
    /\ ClockInv /\ BeatInv
    /\ look.at = "beat" => language = "C++"

IInv == TypeInv /\ FilesInv /\ HeartInv /\ LookInv

USE StaticRouteAssumption

LEMMA LinesAreLines == \A s \in Shards : Lines(s) \subseteq AllLines
  BY DEF AllLines

LEMMA FileIsFile ==
  ASSUME NEW L \in SUBSET AllLines, NEW t \in BOOLEAN
  PROVE  File(L, t) \in Files /\ File(L, t).lines = L /\ File(L, t).torn = t
  BY DEF File, Files

LEMMA InitTypeInv == Init => TypeInv
  <1> SUFFICES ASSUME Init PROVE TypeInv
    OBVIOUS
  <1>1. Missing \in Files /\ Resting \in Phases /\ NotLooking \in Looks
    BY DEF Missing, Files, Phases, Looks
  <1>2. QED
    BY <1>1 DEF Init, TypeInv, TypeOK, DownInv

LEMMA InitFiles == Init => FilesInv
  <1> SUFFICES ASSUME Init PROVE FilesInv
    OBVIOUS
  <1>1. /\ \A s \in Shards : file[s] = Missing /\ writing[s] = Resting /\ routes[s] = {}
        /\ table = {} /\ seen = {NoFile} /\ steady = {}
    BY DEF Init
  <1>2. SeenInv
    BY <1>1 DEF SeenInv, OnDisk, Text, Missing
  <1>3. OwnLines
    BY <1>1 DEF OwnLines, Missing, Resting
  <1>4. GapsInv /\ SteadyInv
    BY <1>1 DEF GapsInv, SteadyInv
  <1>5. QED
    BY <1>2, <1>3, <1>4 DEF FilesInv

-----------------------------------------------------------------------------
(* TypeInv.                                                                *)

LEMMA AgentTypes ==
  ASSUME TypeInv,
         \/ RecordTs \/ Restart \/ Tick \/ SetBack
         \/ \E s \in Shards : \E L \in SUBSET Lines(s) : Learn(s, L)
  PROVE  TypeInv'
  <1>1. CASE RecordTs
    BY <1>1 DEF TypeInv, TypeOK, DownInv, RecordTs, timeVars, fileVars, clientVars,
                          histVars
  <1>2. CASE Restart
    <2>1. look' \in Looks
      <3>1. CASE look = NotLooking
        BY <1>2, <3>1 DEF Restart, NotLooking, Looks
      <3>2. CASE look # NotLooking
        BY <1>2, <3>2 DEF TypeInv, TypeOK, Restart, Looks
      <3>3. QED
        BY <3>1, <3>2
    <2>2. up' = TRUE /\ beat' \in 0..MaxNow /\ down' = 0 /\ now' = now /\ steps' = steps
      BY <1>2 DEF TypeInv, TypeOK, Restart
    <2>3. UNCHANGED <<routes, changes, crashes, fileVars, language, table, given, histVars>>
      BY <1>2 DEF Restart
    <2>4. QED
      BY <2>1, <2>2, <2>3 DEF TypeInv, TypeOK, DownInv, fileVars, histVars
  <1>3. CASE Tick
    BY <1>3 DEF TypeInv, TypeOK, DownInv, Tick, agentVars, fileVars, clientVars,
                          histVars
  <1>4. CASE SetBack
    BY <1>4 DEF TypeInv, TypeOK, DownInv, SetBack, agentVars, fileVars, clientVars,
                          histVars
  <1>5. CASE \E s \in Shards : \E L \in SUBSET Lines(s) : Learn(s, L)
    <2>1. PICK s \in Shards : \E L \in SUBSET Lines(s) : Learn(s, L)
      BY <1>5
    <2>2. PICK L \in SUBSET AllLines : Learn(s, L)
      BY <2>1, LinesAreLines
    <2>3. QED
      BY <2>2 DEF TypeInv, TypeOK, DownInv, Learn, timeVars, fileVars, clientVars,
                          histVars
  <1>6. QED
    BY <1>1, <1>2, <1>3, <1>4, <1>5

LEMMA CrashTypes == ASSUME TypeInv, Crash PROVE TypeInv'
  <1>1. look' \in Looks
    <2>1. CASE look = NotLooking
      BY <2>1 DEF Crash, NotLooking, Looks
    <2>2. CASE look # NotLooking
      BY <2>2 DEF TypeInv, TypeOK, Crash, Looks
    <2>3. QED
      BY <2>1, <2>2
  <1>2. writing' \in [Shards -> Phases]
    BY DEF TypeInv, TypeOK, Crash, Phases
  <1>3. routes' \in [Shards -> SUBSET AllLines]
    BY DEF Crash
  <1>4. crashes' \in 0..MaxCrash
    BY DEF TypeInv, TypeOK, Crash
  <1>5. up' = FALSE /\ UNCHANGED <<timeVars, beat, changes, file, fails, language, table, given, histVars>>
    BY DEF Crash
  <1>6. QED
    BY <1>1, <1>2, <1>3, <1>4, <1>5 DEF TypeInv, TypeOK, DownInv, timeVars, histVars

LEMMA SetFileTypes ==
  ASSUME TypeOK, NEW s \in Shards, NEW f \in Files, SetFile(s, f)
  PROVE  /\ file' \in [Shards -> Files]
         /\ seen' \subseteq AllLines \cup {Torn, NoFile} /\ steady' \subseteq AllLines
  <1>1. f.lines \subseteq AllLines
    BY DEF Files
  <1>2. QED
    BY <1>1 DEF SetFile, Text, TypeOK

LEMMA LeftTypes ==
  ASSUME TypeOK, NEW s \in Shards, writing[s].at = "flush"
  PROVE  writing[s].left \subseteq AllLines
  <1>1. writing[s] \in Phases /\ Resting.at # "flush" /\ Opened.at # "flush"
    BY DEF TypeOK, Resting, Opened
  <1>2. writing[s] \in [at : {"flush"}, left : SUBSET AllLines]
    BY <1>1 DEF Phases
  <1>3. QED
    BY <1>2

LEMMA LinesTypes ==
  ASSUME TypeOK, NEW s \in Shards
  PROVE  file[s].lines \subseteq AllLines /\ file[s] \in Files
  <1>1. file[s] \in Files
    BY DEF TypeOK
  <1>2. QED
    BY <1>1 DEF Files

LEMMA PersistTypes ==
  ASSUME TypeInv, NEW s \in Shards,
         PersistOpen(s) \/ PersistPrint(s) \/ PersistFlush(s) \/ PersistFails(s)
  PROVE  TypeInv'
  <1> USE DEF TypeInv
  <1>1. CASE PersistPrint(s)
    <2>1. routes[s] \in SUBSET AllLines
      BY DEF TypeOK
    <2>2. Flushing(routes[s]) \in Phases
      BY <2>1 DEF Phases, Flushing
    <2>3. QED
      BY <1>1, <2>1, <2>2
      DEF TypeOK, DownInv, PersistPrint, timeVars, agentVars, clientVars, histVars
  <1>2. ASSUME NEW f \in Files, SetFile(s, f), writing' \in [Shards -> Phases],
               fails' \in 0..MaxFail, UNCHANGED <<timeVars, agentVars, clientVars>>
        PROVE  TypeInv'
    BY <1>2, SetFileTypes DEF TypeOK, DownInv, timeVars, agentVars, clientVars
  <1>3. CASE PersistOpen(s)
    <2>1. File({}, FALSE) \in Files
      BY FileIsFile
    <2>2. writing' \in [Shards -> Phases]
      BY <1>3 DEF PersistOpen, TypeOK, Phases
    <2>3. fails' \in 0..MaxFail /\ UNCHANGED <<timeVars, agentVars, clientVars>>
      BY <1>3 DEF PersistOpen, TypeOK
    <2>4. SetFile(s, File({}, FALSE))
      BY <1>3 DEF PersistOpen
    <2>5. QED
      BY <1>2, <2>1, <2>2, <2>3, <2>4
  <1>4. CASE PersistFlush(s)
    <2>1. writing[s].left \subseteq AllLines /\ file[s].lines \subseteq AllLines
      BY <1>4, LeftTypes, LinesTypes DEF PersistFlush
    <2>2. PICK left \in SUBSET AllLines, torn \in BOOLEAN :
            /\ SetFile(s, File(file[s].lines \cup (writing[s].left \ left), torn))
            /\ writing' = [writing EXCEPT ![s] = IF left = {} THEN Resting ELSE Flushing(left)]
      BY <1>4, <2>1 DEF PersistFlush
    <2>3. File(file[s].lines \cup (writing[s].left \ left), torn) \in Files
      BY <2>1, FileIsFile
    <2>4. Resting \in Phases /\ Flushing(left) \in Phases
      BY DEF Phases, Flushing
    <2>5. writing' \in [Shards -> Phases]
      BY <2>2, <2>4 DEF TypeOK
    <2>6. fails' \in 0..MaxFail /\ UNCHANGED <<timeVars, agentVars, clientVars>>
      BY <1>4 DEF PersistFlush, TypeOK
    <2>7. QED
      BY <1>2, <2>2, <2>3, <2>5, <2>6
  <1>5. CASE PersistFails(s)
    <2>1. writing[s].left \subseteq AllLines /\ file[s].lines \subseteq AllLines
      BY <1>5, LeftTypes, LinesTypes DEF PersistFails
    <2>2. PICK kept \in SUBSET AllLines, torn \in BOOLEAN :
            SetFile(s, File(file[s].lines \cup kept, torn))
      BY <1>5, <2>1 DEF PersistFails
    <2>3. File(file[s].lines \cup kept, torn) \in Files
      BY <2>1, FileIsFile
    <2>4. writing' \in [Shards -> Phases]
      BY <1>5 DEF PersistFails, TypeOK, Phases
    <2>5. fails' \in 0..MaxFail /\ UNCHANGED <<timeVars, agentVars, clientVars>>
      BY <1>5 DEF PersistFails, TypeOK
    <2>6. QED
      BY <1>2, <2>2, <2>3, <2>4, <2>5
  <1>6. QED
    BY <1>1, <1>3, <1>4, <1>5

\* What a client reads are lines, or half a line, and they have been seen.
LEMMA Readings ==
  ASSUME TypeOK
  PROVE  /\ OnDisk \subseteq AllLines \cup {Torn}
         /\ \A load \in Loads : load.lines \subseteq table \cup OnDisk
  <1>1. \A s \in Shards : Text(file[s]) \subseteq AllLines \cup {Torn}
    BY DEF TypeOK, Files, Text
  <1>2. \A s \in Shards : file[s].lines \subseteq OnDisk
    BY DEF OnDisk, Text
  <1>3. \A s \in Shards : UNION {Text(file[r]) : r \in {q \in Shards : q < s}} \subseteq OnDisk
    BY DEF OnDisk
  <1>4. \A load \in Partial : load.lines \subseteq OnDisk
    BY <1>2, <1>3 DEF Partial, Stopping
  <1>5. \A load \in Complete : load.lines \subseteq OnDisk
    BY DEF Complete
  <1>6. QED
    BY <1>1, <1>4, <1>5 DEF OnDisk, Loads

LEMMA ClientTypes ==
  ASSUME TypeInv, LookAtClock \/ LookAtBeat \/ FindAlive \/ \E m \in Modules : GetHost(m)
  PROVE  TypeInv'
  <1>1. CASE LookAtClock \/ LookAtBeat
    <2>1. look' \in Looks
      BY <1>1 DEF LookAtClock, LookAtBeat, LookAt, TypeInv, TypeOK, DownInv, Looks
    <2>2. UNCHANGED <<timeVars, agentVars, fileVars, language, table, histVars>> /\ given' = Nobody
      BY <1>1 DEF LookAtClock, LookAtBeat, LookAt
    <2>3. QED
      BY <2>1, <2>2 DEF TypeInv, TypeOK, DownInv, timeVars, agentVars, fileVars,
                                     histVars
  <1>2. CASE FindAlive
    <2>1. Written \subseteq AllLines
      BY LinesTypes DEF Written, TypeInv
    <2>2. OnDisk \cup {NoFile : s \in {r \in Shards : ~file[r].there}}
            \subseteq AllLines \cup {Torn, NoFile}
      BY Readings DEF TypeInv
    <2>3. seen' \subseteq AllLines \cup {Torn, NoFile} /\ steady' \subseteq AllLines
      BY <1>2, <2>1, <2>2 DEF FindAlive
    <2>4. table' = {} /\ look' \in Looks
      BY <1>2 DEF FindAlive, FreeData, Looks
    <2>5. UNCHANGED <<timeVars, agentVars, fileVars, language, given>>
      BY <1>2 DEF FindAlive
    <2>6. QED
      BY <2>3, <2>4, <2>5 DEF TypeInv, TypeOK, DownInv, timeVars, agentVars, fileVars
  <1>3. CASE \E m \in Modules : GetHost(m)
    <2>1. PICK m \in Modules : GetHost(m)
      BY <1>3
    <2>2. PICK load \in Loads :
            /\ table' = load.lines
            /\ given' \in load.lines \cup {Nobody}
      BY <2>1 DEF GetHost, LinesOf
    <2>3. load.lines \subseteq AllLines \cup {Torn}
      BY <2>2, Readings DEF TypeInv, TypeOK
    <2>4. table' \subseteq AllLines \cup {Torn} /\ given' \in AllLines \cup {Torn, Nobody}
      BY <2>2, <2>3
    <2>5. look' \in Looks
      BY <2>1 DEF GetHost, Looks
    <2>6. UNCHANGED <<timeVars, agentVars, fileVars, language, histVars>>
      BY <2>1 DEF GetHost
    <2>7. QED
      BY <2>4, <2>5, <2>6 DEF TypeInv, TypeOK, DownInv, timeVars, agentVars, fileVars,
                                     histVars
  <1>4. QED
    BY <1>1, <1>2, <1>3

LEMMA NextTypeInv == TypeInv /\ [Next]_vars => TypeInv'
  <1> SUFFICES ASSUME TypeInv, [Next]_vars PROVE TypeInv'
    OBVIOUS
  <1>1. CASE UNCHANGED vars
    BY <1>1 DEF vars, timeVars, agentVars, fileVars, clientVars, histVars, TypeInv, TypeOK, DownInv
  <1>2. CASE Next
    BY <1>2, AgentTypes, CrashTypes, PersistTypes, ClientTypes DEF Next
  <1>3. QED
    BY <1>1, <1>2

-----------------------------------------------------------------------------
(* FilesInv.                                                               *)

LEMMA ReadSame ==
  ASSUME UNCHANGED file
  PROVE  OnDisk' = OnDisk /\ Written' = Written
  BY DEF OnDisk, Written

\* A step that leaves the files and what clients know of them alone.
LEMMA FilesSame ==
  ASSUME FilesInv, UNCHANGED <<routes, file, writing, language, table, histVars>>
  PROVE  FilesInv'
  <1>1. OnDisk' = OnDisk /\ Written' = Written
    BY ReadSame
  <1>2. QED
    BY <1>1 DEF FilesInv, SeenInv, OwnLines, GapsInv, SteadyInv, Damaged, histVars

\* A step of the agent that writes no file.
LEMMA AgentFiles ==
  ASSUME IInv, Crash \/ \E s \in Shards : \E L \in SUBSET Lines(s) : Learn(s, L)
  PROVE  FilesInv'
  <1>1. UNCHANGED <<file, language, table, histVars>>
    BY DEF Crash, Learn, fileVars, clientVars
  <1>2. OnDisk' = OnDisk /\ Written' = Written
    BY <1>1, ReadSame
  <1>3. SeenInv' /\ GapsInv' /\ SteadyInv'
    BY <1>1, <1>2 DEF IInv, FilesInv, SeenInv, GapsInv, SteadyInv, Damaged, histVars
  <1>4. CASE Crash
    <2>1. \A s \in Shards : routes'[s] = {} /\ writing'[s] = Resting
      BY <1>4 DEF Crash
    <2>2. OwnLines'
      BY <1>1, <2>1 DEF IInv, FilesInv, OwnLines, Resting
    <2>3. QED
      BY <1>3, <2>2 DEF FilesInv
  <1>5. ASSUME NEW s \in Shards, NEW L \in SUBSET Lines(s), Learn(s, L)
        PROVE  FilesInv'
    <2>1. routes' = [routes EXCEPT ![s] = L] /\ UNCHANGED <<file, writing>>
      BY <1>5 DEF Learn, fileVars
    <2>2. OwnLines'
      BY <2>1 DEF IInv, TypeInv, TypeOK, FilesInv, OwnLines
    <2>3. QED
      BY <1>3, <2>2 DEF FilesInv
  <1>6. QED
    BY <1>4, <1>5

\* The file f gets to the disk.
LEMMA WritingFile ==
  ASSUME TypeOK, FilesInv, NEW s \in Shards, NEW f \in Files,
         f.there, f.lines \subseteq Lines(s), SetFile(s, f), UNCHANGED <<table, language>>
  PROVE  /\ SeenInv' /\ GapsInv' /\ SteadyInv'
         /\ \A r \in Shards : file'[r].lines \subseteq Lines(r)
  <1>1. /\ file' = [file EXCEPT ![s] = f]
        /\ seen' = seen \cup Text(f) /\ steady' = steady \ (Lines(s) \ f.lines)
    BY DEF SetFile
  <1>2. file'[s] = f /\ \A r \in Shards \ {s} : file'[r] = file[r]
    BY <1>1 DEF TypeOK
  <1>3. \A r \in Shards : Text(file'[r]) \subseteq seen'
    <2>1. \A r \in Shards : Text(file[r]) \subseteq seen
      BY DEF FilesInv, SeenInv, OnDisk
    <2>2. QED
      BY <1>1, <1>2, <2>1
  <1>4. OnDisk' = UNION {Text(file'[r]) : r \in Shards}
    BY DEF OnDisk, Text
  <1>5. SeenInv'
    BY <1>1, <1>3, <1>4 DEF FilesInv, SeenInv
  <1>6. GapsInv'
    BY <1>1, <1>2 DEF FilesInv, GapsInv
  <1>7. ASSUME NEW r \in Shards PROVE file'[r].lines \subseteq Lines(r)
    <2>1. CASE r = s
      BY <1>2, <2>1
    <2>2. CASE r # s
      BY <1>2, <2>2 DEF FilesInv, OwnLines
    <2>3. QED
      BY <2>1, <2>2
  <1>8. ASSUME NEW l \in steady' PROVE l \in Written'
    <2>1. PICK r \in Shards : l \in file[r].lines
      BY <1>1, <1>8 DEF FilesInv, SteadyInv, Written
    <2>2. CASE r = s
      <3>1. l \in Lines(s)
        BY <2>1, <2>2 DEF FilesInv, OwnLines
      <3>2. l \in file'[s].lines
        BY <1>1, <1>2, <1>8, <3>1
      <3>3. QED
        BY <3>2 DEF Written
    <2>3. CASE r # s
      BY <1>2, <2>1, <2>3 DEF Written
    <2>4. QED
      BY <2>2, <2>3
  <1>9. SteadyInv'
    <2>1. steady' \subseteq steady /\ seen \subseteq seen'
      BY <1>1
    <2>2. steady' \subseteq Written'
      BY <1>8
    <2>3. QED
      BY <2>1, <2>2 DEF FilesInv, SteadyInv, Damaged
  <1>10. QED
    BY <1>5, <1>6, <1>7, <1>9

LEMMA FileIsThere ==
  ASSUME NEW L \in SUBSET AllLines, NEW t \in BOOLEAN
  PROVE  File(L, t) \in Files /\ File(L, t).lines = L /\ File(L, t).there
  BY DEF File, Files

LEMMA PersistFiles ==
  ASSUME IInv, NEW s \in Shards,
         PersistOpen(s) \/ PersistPrint(s) \/ PersistFlush(s) \/ PersistFails(s)
  PROVE  FilesInv'
  <1> USE DEF IInv, TypeInv
  <1>1. CASE PersistPrint(s)
    <2>1. /\ writing' = [writing EXCEPT ![s] = Flushing(routes[s])]
          /\ UNCHANGED <<routes, file, language, table, histVars>>
      BY <1>1 DEF PersistPrint, agentVars, clientVars
    <2>2. Flushing(routes[s]).left = routes[s]
      BY DEF Flushing
    <2>3. OwnLines'
      BY <2>1, <2>2 DEF FilesInv, OwnLines, TypeOK
    <2>4. OnDisk' = OnDisk /\ Written' = Written
      BY <2>1, ReadSame
    <2>5. SeenInv' /\ GapsInv' /\ SteadyInv'
      BY <2>1, <2>4 DEF FilesInv, SeenInv, GapsInv, SteadyInv, Damaged, histVars
    <2>6. QED
      BY <2>3, <2>5 DEF FilesInv
  <1>2. ASSUME NEW L \in SUBSET Lines(s), NEW t \in BOOLEAN, SetFile(s, File(L, t)),
               UNCHANGED <<routes, table, language>>,
               \A r \in Shards : writing'[r].at = "flush" => writing'[r].left \subseteq Lines(r)
        PROVE  FilesInv'
    <2>1. File(L, t) \in Files /\ File(L, t).lines = L /\ File(L, t).there
      BY FileIsThere, LinesAreLines
    <2>2. /\ SeenInv' /\ GapsInv' /\ SteadyInv'
          /\ \A r \in Shards : file'[r].lines \subseteq Lines(r)
      BY <1>2, <2>1, WritingFile
    <2>3. OwnLines'
      BY <1>2, <2>2 DEF FilesInv, OwnLines
    <2>4. QED
      BY <2>2, <2>3 DEF FilesInv
  <1>3. ASSUME NEW w, w.at = "flush" => w.left \subseteq Lines(s),
               writing' = [writing EXCEPT ![s] = w]
        PROVE  \A r \in Shards : writing'[r].at = "flush" => writing'[r].left \subseteq Lines(r)
    BY <1>3 DEF FilesInv, OwnLines, TypeOK
  <1>4. Resting.at # "flush" /\ Opened.at # "flush"
    BY DEF Resting, Opened
  <1>5. CASE PersistOpen(s)
    <2>1. /\ writing' = [writing EXCEPT ![s] = Opened] /\ SetFile(s, File({}, FALSE))
          /\ UNCHANGED <<routes, table, language>>
      BY <1>5 DEF PersistOpen, agentVars, clientVars
    <2>2. QED
      BY <1>2, <1>3, <1>4, <2>1
  <1>6. CASE PersistFlush(s)
    <2>1. writing[s].left \subseteq Lines(s) /\ file[s].lines \subseteq Lines(s)
      BY <1>6 DEF PersistFlush, FilesInv, OwnLines
    <2>2. PICK left \in SUBSET Lines(s), torn \in BOOLEAN :
            /\ SetFile(s, File(file[s].lines \cup (writing[s].left \ left), torn))
            /\ writing' = [writing EXCEPT ![s] = IF left = {} THEN Resting ELSE Flushing(left)]
      BY <1>6, <2>1 DEF PersistFlush
    <2>3. UNCHANGED <<routes, table, language>>
      BY <1>6 DEF PersistFlush, agentVars, clientVars
    <2>4. Flushing(left).left = left
      BY DEF Flushing
    <2>5. \A r \in Shards : writing'[r].at = "flush" => writing'[r].left \subseteq Lines(r)
      BY <1>3, <1>4, <2>2, <2>4
    <2>6. QED
      BY <1>2, <2>1, <2>2, <2>3, <2>5
  <1>7. CASE PersistFails(s)
    <2>1. writing[s].left \subseteq Lines(s) /\ file[s].lines \subseteq Lines(s)
      BY <1>7 DEF PersistFails, FilesInv, OwnLines
    <2>2. PICK kept \in SUBSET Lines(s), torn \in BOOLEAN :
            SetFile(s, File(file[s].lines \cup kept, torn))
      BY <1>7, <2>1 DEF PersistFails
    <2>3. writing' = [writing EXCEPT ![s] = Resting] /\ UNCHANGED <<routes, table, language>>
      BY <1>7 DEF PersistFails, agentVars, clientVars
    <2>4. \A r \in Shards : writing'[r].at = "flush" => writing'[r].left \subseteq Lines(r)
      BY <1>3, <1>4, <2>3
    <2>5. QED
      BY <1>2, <2>1, <2>2, <2>3, <2>4
  <1>8. QED
    BY <1>1, <1>5, <1>6, <1>7

\* What a client may stop at has been seen.
LEMMA StoppersSeen ==
  ASSUME IInv, NEW load \in Partial
  PROVE  Damaged
  <1>1. PICK s \in Shards : language = "Python" /\ (~file[s].there \/ file[s].torn)
    BY DEF Partial, Stopping
  <1>2. CASE ~file[s].there
    BY <1>1, <1>2 DEF IInv, FilesInv, GapsInv, Damaged
  <1>3. CASE file[s].torn
    <2>1. Torn \in OnDisk
      BY <1>3 DEF OnDisk, Text
    <2>2. QED
      BY <1>1, <2>1 DEF IInv, FilesInv, SeenInv, Damaged
  <1>4. QED
    BY <1>1, <1>2, <1>3

\* What has stayed in the files is in what a client reads.
LEMMA SteadyLoaded ==
  ASSUME IInv, NEW load \in Loads
  PROVE  steady \subseteq load.lines \/ Damaged
  <1>1. CASE load \in Partial
    BY <1>1, StoppersSeen
  <1>2. CASE load \in Complete
    <2>1. load.lines = OnDisk
      BY <1>2 DEF Complete
    <2>2. Written \subseteq OnDisk
      BY DEF Written, OnDisk, Text
    <2>3. QED
      BY <2>1, <2>2 DEF IInv, FilesInv, SteadyInv
  <1>3. CASE table # {} /\ load.lines = table
    BY <1>3 DEF IInv, FilesInv, SteadyInv
  <1>4. QED
    BY <1>1, <1>2, <1>3 DEF Loads

LEMMA ClientFiles ==
  ASSUME IInv, LookAtClock \/ LookAtBeat \/ FindAlive \/ \E m \in Modules : GetHost(m)
  PROVE  FilesInv'
  <1>1. UNCHANGED <<routes, file, writing, language>>
    BY DEF LookAtClock, LookAtBeat, LookAt, FindAlive, GetHost, agentVars, fileVars
  <1>2. OnDisk' = OnDisk /\ Written' = Written
    BY <1>1, ReadSame
  <1>3. OwnLines'
    BY <1>1 DEF IInv, FilesInv, OwnLines
  <1>4. CASE LookAtClock \/ LookAtBeat
    <2>1. UNCHANGED <<routes, file, writing, language, table, histVars>>
      BY <1>1, <1>4 DEF LookAtClock, LookAtBeat, LookAt
    <2>2. QED
      BY <2>1, FilesSame DEF IInv
  <1>5. CASE FindAlive
    <2>1. /\ table' = {} /\ steady' = Written
          /\ seen' = OnDisk \cup {NoFile : s \in {r \in Shards : ~file[r].there}}
      BY <1>5 DEF FindAlive, FreeData
    <2>2. SeenInv' /\ GapsInv' /\ SteadyInv'
      BY <1>1, <1>2, <2>1 DEF SeenInv, GapsInv, SteadyInv
    <2>3. QED
      BY <1>3, <2>2 DEF FilesInv
  <1>6. CASE \E m \in Modules : GetHost(m)
    <2>1. PICK m \in Modules : GetHost(m)
      BY <1>6
    <2>2. PICK load \in Loads : table' = load.lines
      BY <2>1 DEF GetHost
    <2>3. load.lines \subseteq table \cup OnDisk
      BY <2>2, Readings DEF IInv, TypeInv
    <2>4. seen' = seen /\ steady' = steady
      BY <2>1 DEF GetHost, histVars
    <2>5. SeenInv' /\ GapsInv'
      BY <1>1, <1>2, <2>2, <2>3, <2>4 DEF IInv, FilesInv, SeenInv, GapsInv
    <2>6. SteadyInv'
      BY <1>1, <1>2, <2>2, <2>4, SteadyLoaded DEF IInv, FilesInv, SteadyInv, Damaged
    <2>7. QED
      BY <1>3, <2>5, <2>6 DEF FilesInv
  <1>7. QED
    BY <1>4, <1>5, <1>6

-----------------------------------------------------------------------------
(* The heartbeat and what a client has read.                               *)

LEMMA Numbers ==
  ASSUME TypeOK
  PROVE  /\ now \in Int /\ beat \in Int /\ down \in Nat /\ steps \in Nat
         /\ beat >= 0 /\ up \in BOOLEAN
         /\ look.at \in {"clock", "beat"} =>
               /\ look.value \in Int /\ look.began \in Int /\ look.down \in Int
               /\ look.steps \in Int /\ look.value >= 0
               /\ look.value < Wide
         /\ look.live \in BOOLEAN
         /\ look # NotLooking => look.at \in {"clock", "beat"}
         /\ now < Wide /\ beat < Wide /\ now >= 0
  <1>1. /\ now \in 0..MaxNow /\ beat \in 0..MaxNow /\ down \in 0..(MaxNow + MaxStep)
        /\ steps \in 0..MaxStep /\ up \in BOOLEAN /\ look \in Looks
    BY DEF TypeOK
  <1>2. MaxNow \in Nat /\ MaxStep \in Nat /\ Wide \in Nat /\ MaxNow < Wide
    OBVIOUS
  <1>3. /\ now \in Int /\ beat \in Int /\ down \in Nat /\ steps \in Nat
        /\ beat >= 0 /\ now < Wide /\ beat < Wide /\ now >= 0
    BY <1>1, <1>2
  <1>4. CASE look = NotLooking
    BY <1>1, <1>3, <1>4 DEF NotLooking
  <1>5. CASE look # NotLooking
    <2>1. /\ look.at \in {"clock", "beat"} /\ look.value \in 0..MaxNow
          /\ look.began \in 0..MaxNow /\ look.down \in 0..(MaxNow + MaxStep)
          /\ look.steps \in 0..MaxStep /\ look.live \in BOOLEAN
      BY <1>1, <1>5 DEF Looks
    <2>2. /\ look.value \in Int /\ look.began \in Int /\ look.down \in Int
          /\ look.steps \in Int /\ look.value >= 0 /\ look.value < Wide
      BY <1>2, <2>1
    <2>3. QED
      BY <1>1, <1>3, <2>1, <2>2
  <1>6. QED
    BY <1>4, <1>5

LEMMA Jitters == Jitter \in Nat /\ Threshold \in Nat /\ Jitter + 1 <= Threshold
  OBVIOUS

LEMMA HeartNext ==
  ASSUME TypeOK, HeartInv, [Next]_vars
  PROVE  HeartInv'
  <1>1. CASE RecordTs
    BY <1>1, Numbers, Jitters DEF HeartInv, RecordTs, timeVars
  <1>2. CASE Crash
    BY <1>2, Numbers DEF HeartInv, Crash, timeVars
  <1>3. CASE Restart
    BY <1>3, Numbers, Jitters DEF HeartInv, Restart
  <1>4. CASE Tick
    BY <1>4, Numbers, Jitters DEF HeartInv, Tick, agentVars
  <1>5. CASE SetBack
    BY <1>5, Numbers, Jitters DEF HeartInv, SetBack, agentVars
  <1>6. CASE UNCHANGED <<timeVars, up, beat>>
    BY <1>6 DEF HeartInv, timeVars
  <1>7. ASSUME NEW s \in Shards,
               \/ \E L \in SUBSET Lines(s) : Learn(s, L)
               \/ PersistOpen(s) \/ PersistPrint(s) \/ PersistFlush(s) \/ PersistFails(s)
        PROVE  UNCHANGED <<timeVars, up, beat>>
    BY <1>7 DEF Learn, PersistOpen, PersistPrint, PersistFlush, PersistFails,
                    agentVars
  <1>8. CASE LookAtClock \/ LookAtBeat \/ FindAlive \/ \E m \in Modules : GetHost(m)
    <2>1. UNCHANGED <<timeVars, up, beat>>
      BY <1>8 DEF LookAtClock, LookAtBeat, LookAt, FindAlive, GetHost, agentVars
    <2>2. QED
      BY <1>6, <2>1
  <1>9. CASE UNCHANGED vars
    BY <1>6, <1>9 DEF vars, agentVars
  <1>10. QED
    BY <1>1, <1>2, <1>3, <1>4, <1>5, <1>6, <1>7, <1>8, <1>9 DEF Next

\* The client looks away.
LEMMA LookAway ==
  ASSUME look' = NotLooking
  PROVE  LookInv'
  BY DEF LookInv, ClockInv, BeatInv, NotLooking

LEMMA LookSame ==
  ASSUME LookInv, UNCHANGED <<timeVars, up, beat, look, language>>
  PROVE  LookInv'
  BY DEF LookInv, ClockInv, BeatInv, timeVars

\* The time goes on, or back.
LEMMA LookTime ==
  ASSUME TypeOK, HeartInv, LookInv, Tick \/ SetBack
  PROVE  LookInv'
  <1>1. up' = up /\ beat' = beat /\ look' = look /\ language' = language
    BY DEF Tick, SetBack, agentVars, clientVars
  <1>2. \/ now' = now + 1 /\ steps' = steps /\ down' <= down + 1
        \/ now' = now - 1 /\ steps' = steps + 1 /\ down' = down
    BY Numbers DEF Tick, SetBack
  <1>3. down' \in Int
    BY Numbers DEF Tick, SetBack
  <1>4. ClockInv'
    BY <1>1, <1>2, Numbers DEF LookInv, ClockInv
  <1>5. BeatInv'
    BY <1>1, <1>2, <1>3, Numbers DEF LookInv, BeatInv
  <1>6. QED
    BY <1>1, <1>4, <1>5 DEF LookInv

\* A beat is at a time after the first reading, as far as the clock tells.
LEMMA LookBeaten ==
  ASSUME TypeOK, HeartInv, LookInv, RecordTs
  PROVE  LookInv'
  <1>1. /\ up /\ up' = up /\ beat' = now /\ look' = look
        /\ now' = now /\ steps' = steps /\ down' = down /\ language' = language
    BY DEF RecordTs, timeVars, clientVars
  <1>2. ClockInv'
    BY <1>1, Numbers DEF LookInv, ClockInv
  <1>3. BeatInv'
    BY <1>1 DEF LookInv, BeatInv
  <1>4. QED
    BY <1>1, <1>2, <1>3 DEF LookInv

LEMMA LookCrash ==
  ASSUME TypeOK, HeartInv, LookInv, Crash
  PROVE  LookInv'
  <1>1. /\ up /\ up' = FALSE /\ beat' = beat /\ look' = [look EXCEPT !.live = FALSE]
        /\ now' = now /\ steps' = steps /\ down' = down /\ language' = language
    BY DEF Crash, timeVars
  <1>2. look \in Looks
    BY DEF TypeOK
  <1>3. /\ look'.live = FALSE /\ look'.at = look.at
        /\ look.at # "rest" => /\ look'.value = look.value /\ look'.began = look.began
                               /\ look'.down = look.down /\ look'.steps = look.steps
    BY <1>1, <1>2 DEF Looks, NotLooking
  <1>4. QED
    BY <1>1, <1>3 DEF LookInv, ClockInv, BeatInv

LEMMA LookRestart ==
  ASSUME TypeOK, HeartInv, LookInv, Restart
  PROVE  LookInv'
  <1>1. /\ ~up /\ up' = TRUE /\ beat' = now /\ look' = [look EXCEPT !.down = 0]
        /\ now' = now /\ steps' = steps /\ down' = 0 /\ language' = language
    BY DEF Restart
  <1>2. look \in Looks
    BY DEF TypeOK
  <1>3. /\ look'.live = look.live /\ look'.at = look.at /\ look'.down = 0
        /\ look.at # "rest" => /\ look'.value = look.value /\ look'.began = look.began
                               /\ look'.steps = look.steps
    BY <1>1, <1>2 DEF Looks, NotLooking
  <1>4. ~look.live
    BY <1>1 DEF LookInv
  <1>5. ClockInv'
    BY <1>1, <1>3, <1>4 DEF LookInv, ClockInv
  <1>6. BeatInv'
    BY <1>1, <1>3, <1>4, Numbers DEF LookInv, BeatInv
  <1>7. QED
    BY <1>1, <1>3, <1>5, <1>6 DEF LookInv

\* The first reading.
LEMMA LookAtSets ==
  ASSUME TypeOK, HeartInv, LookAtClock \/ LookAtBeat
  PROVE  LookInv'
  <1>1. /\ now' = now /\ steps' = steps /\ down' = down /\ up' = up /\ beat' = beat
        /\ language' = language
    BY DEF LookAtClock, LookAtBeat, LookAt, timeVars, agentVars
  <1>2. /\ look'.live = up /\ look'.down = down /\ look'.began = now /\ look'.steps = steps
        /\ \/ look'.at = "clock" /\ look'.value = now
           \/ look'.at = "beat" /\ look'.value = beat /\ language = "C++"
    BY DEF LookAtClock, LookAtBeat, LookAt
  <1>3. ClockInv'
    BY <1>1, <1>2, Numbers DEF ClockInv, HeartInv
  <1>4. BeatInv'
    BY <1>1, <1>2, Numbers DEF BeatInv, HeartInv
  <1>5. QED
    BY <1>1, <1>2, <1>3, <1>4 DEF LookInv

LEMMA LookNext ==
  ASSUME TypeOK, HeartInv, LookInv, [Next]_vars
  PROVE  LookInv'
  <1>1. ASSUME NEW s \in Shards,
               \/ \E L \in SUBSET Lines(s) : Learn(s, L)
               \/ PersistOpen(s) \/ PersistPrint(s) \/ PersistFlush(s) \/ PersistFails(s)
        PROVE  UNCHANGED <<timeVars, up, beat, look, language>>
    BY <1>1 DEF Learn, PersistOpen, PersistPrint, PersistFlush, PersistFails,
                    agentVars, clientVars
  <1>2. CASE FindAlive \/ \E m \in Modules : GetHost(m)
    <2>1. look' = NotLooking
      BY <1>2 DEF FindAlive, GetHost
    <2>2. QED
      BY <2>1, LookAway
  <1>3. CASE UNCHANGED vars
    BY <1>3, LookSame DEF vars, agentVars, clientVars
  <1>4. QED
    BY <1>1, <1>2, <1>3, LookSame, LookTime, LookBeaten, LookCrash, LookRestart, LookAtSets
    DEF Next

LEMMA InitLook == Init => HeartInv /\ LookInv
  <1> SUFFICES ASSUME Init PROVE HeartInv /\ LookInv
    OBVIOUS
  <1>1. /\ up = TRUE /\ down = 0 /\ now = 0 /\ beat = 0 /\ steps = 0
        /\ look.live = FALSE /\ look.at = "rest"
    BY DEF Init, NotLooking
  <1>2. HeartInv
    BY <1>1, Jitters DEF HeartInv
  <1>3. LookInv
    BY <1>1 DEF LookInv, ClockInv, BeatInv
  <1>4. QED
    BY <1>2, <1>3

-----------------------------------------------------------------------------
(* IInv is inductive.                                                      *)

LEMMA NextIInv == IInv /\ [Next]_vars => IInv'
  <1> SUFFICES ASSUME IInv, [Next]_vars PROVE IInv'
    OBVIOUS
  <1>1. TypeInv'
    BY NextTypeInv DEF IInv
  <1>2. FilesInv'
    <2>1. CASE RecordTs \/ Tick \/ SetBack \/ Restart \/ UNCHANGED vars
      <3>1. UNCHANGED <<routes, file, writing, language, table, histVars>>
        BY <2>1 DEF RecordTs, Restart, Tick, SetBack, vars, agentVars, fileVars, clientVars
      <3>2. QED
        BY <3>1, FilesSame DEF IInv
    <2>2. QED
      BY <2>1, AgentFiles, PersistFiles, ClientFiles DEF Next
  <1>3. HeartInv' /\ LookInv'
    BY HeartNext, LookNext DEF IInv, TypeInv
  <1>4. QED
    BY <1>1, <1>2, <1>3 DEF IInv

LEMMA Inductive == Spec => []IInv
  <1>1. Init => IInv
    BY InitTypeInv, InitFiles, InitLook DEF IInv
  <1>2. QED
    BY <1>1, NextIInv, PTL DEF Spec

\* The heartbeat, the files and the client (HeartBeat.h, persistRoute,
\* StaticRoute) are well formed in every reachable state.
THEOREM StaticTypeCorrect == Spec => []TypeOK
  <1>1. IInv => TypeOK
    BY DEF IInv, TypeInv
  <1>2. QED
    BY <1>1, Inductive, PTL

\* A host served from the files was in one after the client last saw the agent
\* alive: freeData and the reloading of an empty table go together.
THEOREM ServedHostsAreFresh == Spec => StaticFresh
  <1>1. IInv /\ [Next]_vars => [SaysDead => given' \in seen \cup {Nobody}]_vars
    <2> SUFFICES ASSUME IInv, Next, SaysDead PROVE given' \in seen \cup {Nobody}
      OBVIOUS
    <2>1. look # NotLooking /\ look' = NotLooking
      BY DEF SaysDead
    <2>2. CASE \E m \in Modules : GetHost(m)
      <3>1. PICK m \in Modules, load \in Loads : given' \in load.lines \cup {Nobody}
        BY <2>2 DEF GetHost, LinesOf
      <3>2. load.lines \subseteq table \cup OnDisk
        BY <3>1, Readings DEF IInv, TypeInv
      <3>3. QED
        BY <3>1, <3>2 DEF IInv, FilesInv, SeenInv
    <2>3. CASE FindAlive
      BY <2>3 DEF FindAlive, SaysDead
    <2>4. CASE Crash
      <3>1. look.at # "rest"
        BY <2>1 DEF IInv, TypeInv, TypeOK, Looks
      <3>2. look'.at = look.at
        BY <2>4 DEF Crash, IInv, TypeInv, TypeOK, Looks, NotLooking
      <3>3. QED
        BY <2>1, <3>1, <3>2 DEF NotLooking
    <2>8. CASE Restart
      <3>1. look.at # "rest"
        BY <2>1 DEF IInv, TypeInv, TypeOK, Looks
      <3>2. look'.at = look.at
        BY <2>8 DEF Restart, IInv, TypeInv, TypeOK, Looks, NotLooking
      <3>3. QED
        BY <2>1, <3>1, <3>2 DEF NotLooking
    <2>5. CASE LookAtClock \/ LookAtBeat
      BY <2>1, <2>5 DEF LookAtClock, LookAtBeat, LookAt
    <2>6. CASE \/ RecordTs \/ Tick \/ SetBack
               \/ \E s \in Shards :
                    \/ \E L \in SUBSET Lines(s) : Learn(s, L)
                    \/ PersistOpen(s) \/ PersistPrint(s)
                    \/ PersistFlush(s) \/ PersistFails(s)
      BY <2>1, <2>6
      DEF RecordTs, Tick, SetBack, Learn, PersistOpen, PersistPrint, PersistFlush,
          PersistFails, clientVars
    <2>7. QED
      BY <2>2, <2>3, <2>4, <2>5, <2>6, <2>8 DEF Next
  <1>2. QED
    BY <1>1, Inductive, PTL DEF Spec, StaticFresh

LEMMA NothingWithheld ==
  ASSUME IInv, NEW m \in Modules, GetHost(m), given' = Nobody
  PROVE  LinesOf(m, steady) = {} \/ Damaged
  <1>1. PICK load \in Loads :
          \/ load.fails
          \/ ~load.fails /\ LinesOf(m, load.lines) \subseteq {Torn}
          \/ ~load.fails /\ given' \in LinesOf(m, load.lines)
    BY DEF GetHost
  <1>2. CASE load.fails
    <2>1. ASSUME table # {} PROVE FALSE
      BY <1>2, <2>1 DEF Loads
    <2>2. load \notin Complete
      BY <1>2 DEF Complete
    <2>3. load \in Partial
      BY <2>1, <2>2 DEF Loads
    <2>4. QED
      BY <2>3, StoppersSeen
  <1>3. CASE LinesOf(m, load.lines) \subseteq {Torn}
    <2>1. Torn \notin steady
      BY DEF IInv, TypeInv, TypeOK
    <2>2. CASE steady \subseteq load.lines
      BY <1>3, <2>1, <2>2 DEF LinesOf
    <2>3. QED
      BY <2>2, SteadyLoaded
  <1>4. CASE given' \in LinesOf(m, load.lines)
    <2>1. load.lines \subseteq AllLines \cup {Torn}
      BY Readings DEF IInv, TypeInv, TypeOK
    <2>2. QED
      BY <1>4, <2>1 DEF LinesOf
  <1>5. QED
    BY <1>1, <1>2, <1>3, <1>4

\* StaticRoute::getHost: a line that has stayed in its file is not withheld, be
\* it that other lines and files are truncated, short or torn, or that the table
\* has been read long before; only a Python client can fail to get to it, once a
\* file has been missing or torn.
THEOREM ServedTablesAreComplete == Spec => StaticComplete
  <1>1. IInv => [\A m \in Modules : GetHost(m) /\ given' = Nobody
                   => \/ LinesOf(m, steady) = {}
                      \/ language = "Python" /\ {Torn, NoFile} \cap seen # {}]_vars
    BY NothingWithheld DEF Damaged
  <1>2. QED
    BY <1>1, Inductive, PTL DEF Spec, StaticComplete

-----------------------------------------------------------------------------
(* What die() makes of the heartbeat.                                      *)

\* Where the unsigned difference does not wrap.
LEMMA NoWrap ==
  ASSUME NEW t \in Int, NEW b \in Int, b <= t, 0 <= b, t < Wide
  PROVE  (t - b) % Wide = t - b
  <1>1. t - b \in Nat /\ t - b < Wide /\ Wide \in Nat \ {0}
    OBVIOUS
  <1>2. \A a \in Nat, w \in Nat \ {0} : a < w => a % w = a
    BY SMT
  <1>3. QED
    BY <1>1, <1>2

LEMMA Near ==
  ASSUME NEW t \in Int, NEW b \in Int, 0 <= b, t < Wide, ~Dead(t, b)
  PROVE  t - b <= Threshold
  <1>1. CASE b > t
    BY <1>1, Jitters
  <1>2. CASE b <= t
    BY <1>2, NoWrap, Jitters DEF Dead
  <1>3. QED
    BY <1>1, <1>2

LEMMA Far ==
  ASSUME NEW t \in Int, NEW b \in Int, 0 <= b, t < Wide, Dead(t, b)
  PROVE  t - b > Threshold \/ (language = "C++" /\ b > t)
  <1>1. CASE language # "C++"
    BY <1>1 DEF Dead
  <1>2. CASE b <= t
    BY <1>2, NoWrap DEF Dead
  <1>3. CASE language = "C++" /\ ~(b <= t)
    BY <1>3
  <1>4. QED
    BY <1>1, <1>2, <1>3

LEMMA FoundAlive ==
  ASSUME IInv, SaysAlive, ~up
  PROVE  (IF look.at = "clock" THEN look.down ELSE down) <= Threshold + steps
  <1>1. TypeOK /\ HeartInv /\ LookInv
    BY DEF IInv, TypeInv
  <1>2. look.at \in {"clock", "beat"} /\ ~Dead(Time, Beat)
    BY <1>1, Numbers DEF SaysAlive
  <1>3. CASE look.at = "clock"
    <2>1. look.value - beat <= Threshold
      BY <1>1, <1>2, <1>3, Numbers, Near DEF Time, Beat
    <2>2. look.down = 0 \/ look.down <= look.value - beat + steps
      BY <1>1, <1>3 DEF LookInv, ClockInv
    <2>3. QED
      BY <1>1, <1>3, <2>1, <2>2, Numbers, Jitters
  <1>4. CASE look.at = "beat"
    <2>1. now - look.value <= Threshold
      BY <1>1, <1>2, <1>4, Numbers, Near DEF Time, Beat
    <2>2. down <= now - look.value + steps
      BY <1>1, <1>4 DEF LookInv, BeatInv
    <2>3. down <= Threshold + steps
      BY <1>1, <1>4, <2>1, <2>2, Numbers, Jitters
    <2>4. QED
      BY <1>4, <2>3
  <1>5. QED
    BY <1>2, <1>3, <1>4

LEMMA FoundDead ==
  ASSUME IInv, SaysDead, look.live
  PROVE  \/ language = "C++" /\ (now # look.began \/ Beat > Time)
         \/ steps - look.steps > Threshold
  <1>1. TypeOK /\ HeartInv /\ LookInv
    BY DEF IInv, TypeInv
  <1>2. look.at \in {"clock", "beat"} /\ Dead(Time, Beat)
    BY <1>1, Numbers DEF SaysDead
  <1>3. CASE look.at = "clock"
    <2>1. Time = look.value /\ Beat = beat
      BY <1>3 DEF Time, Beat
    <2>2. look.value - beat > Threshold \/ (language = "C++" /\ Beat > Time)
      BY <1>1, <1>2, <1>3, <2>1, Numbers, Far
    <2>3. \/ look.value - beat <= Jitter + 1
          \/ look.value - beat <= steps - look.steps
      BY <1>1, <1>3 DEF LookInv, ClockInv
    <2>4. look.value - beat > Threshold => steps - look.steps > Threshold
      BY <1>1, <1>3, <2>3, Numbers, Jitters
    <2>5. QED
      BY <2>2, <2>4
  <1>4. CASE look.at = "beat"
    <2>1. Time = now /\ Beat = look.value
      BY <1>4 DEF Time, Beat
    <2>2. now - look.value > Threshold \/ (language = "C++" /\ Beat > Time)
      BY <1>1, <1>2, <1>4, <2>1, Numbers, Far
    <2>3. look.began - look.value <= Jitter + 1
      BY <1>1, <1>4 DEF LookInv, BeatInv
    <2>4. now - look.value > Threshold => now # look.began
      BY <1>1, <1>4, <2>3, Numbers, Jitters
    <2>5. language = "C++"
      BY <1>1, <1>4 DEF LookInv
    <2>6. QED
      BY <2>2, <2>4, <2>5
  <1>5. QED
    BY <1>2, <1>3, <1>4

\* HeartBeat.h, die(): an agent that stays dead is noticed, whichever of its two
\* readings C++ makes first, and whatever restarts, beats and steps of the clock
\* there have been before.
THEOREM DeathIsNoticed == Spec => DeadNoticed
  <1>1. IInv => [SaysAlive /\ ~up => (IF look.at = "clock" THEN look.down ELSE down)
                                        <= Threshold + steps]_vars
    BY FoundAlive
  <1>2. QED
    BY <1>1, Inductive, PTL DEF Spec, DeadNoticed

\* HeartBeat.h, die(): all the ways in which a running agent can be taken for
\* dead, the unsigned subtraction of the C++ client and the steps of the clock.
THEOREM LifeIsNoticed == Spec => LiveAgentUsed
  <1>1. IInv => [SaysDead /\ look.live
                   => \/ language = "C++" /\ (now # look.began \/ Beat > Time)
                      \/ steps - look.steps > Threshold]_vars
    BY FoundDead
  <1>2. QED
    BY <1>1, Inductive, PTL DEF Spec, LiveAgentUsed

==============================================================================
