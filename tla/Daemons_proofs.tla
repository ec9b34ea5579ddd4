---------------------------- MODULE Daemons_proofs ----------------------------
(***************************************************************************)
(* Proofs about Daemons, for any commands, processes and agents.           *)
(*                                                                         *)
(* A file and its daemon can only be told apart by following the commands: *)
(* NamedMeanwhile says, for every place a command can be at, which running *)
(* daemons its file need not name.  HitsAreFollowed does the same for the  *)
(* pids a stop command has signalled.  Both hold of the daemons that one   *)
(* command at a time is about, because it is alone with their files        *)
(* (OneCommand).                                                           *)
(***************************************************************************)
EXTENDS Daemons, TLAPS

(* What a command is about, and which process it is about to name or hit.  *)
CommandMeans(c) ==
    /\ cmd[c].at \in {"idle", "done"} => cmd[c].about = {}
    /\ cmd[c].at \in {"check", "clean", "probe"} =>
            cmd[c].about = {Center} /\ cmd[c].name = Center
    /\ cmd[c].at \in {"clear", "spawn", "open", "write"} =>
            cmd[c].name \in Names /\ cmd[c].about = {cmd[c].name}
    /\ cmd[c].at \in {"stop", "kill", "wait"} => cmd[c].left \subseteq cmd[c].about
    /\ cmd[c].at \in {"kill", "wait"} => cmd[c].name \in cmd[c].about
    /\ cmd[c].at \in {"open", "write", "kill", "wait"} =>
            /\ cmd[c].pid \in Pids
            /\ daemon[cmd[c].pid].name = cmd[c].name
            /\ daemon[cmd[c].pid].state # "none"

CommandsMean == \A c \in Commands : CommandMeans(c)

(* A file names a process that was spawned for it. *)
FilesMean ==
    \A n \in Names : pidFile[n] \in Pids =>
        daemon[pidFile[n]].name = n /\ daemon[pidFile[n]].state # "none"

(* Only agents lose their file to another; a pid that was reused is that   *)
(* of a daemon that is gone; an agent is told to stop once it has handlers,*)
(* and stops because it was told to.                                       *)
ProcessesMean ==
    \A p \in Pids :
        /\ daemon[p].state # "none" => daemon[p].name \in Names
        /\ p \in told => daemon[p].state # "booting"
        /\ p \in displaced => daemon[p].name # Center /\ daemon[p].state # "none"
        /\ p \in strangers \cup struck => daemon[p].state = "gone"
        /\ daemon[p].state = "stopping" => p \in told

(* One command at a time is about a daemon, unless it was disturbed. *)
OneCommand ==
    \A n \in Names \ disturbed, c, d \in Commands :
        n \in cmd[c].about /\ n \in cmd[d].about => c = d

Reached(p) == p \in told \cup displaced

Backgrounds(n) == {p \in Pids : Background(p) /\ daemon[p].name = n}

(* The file names every background daemon n that runs and was not reached. *)
Named(n) == \A p \in Backgrounds(n) : pidFile[n] = p \/ Reached(p)

(* What is known of n while the command c is about it: nothing after it    *)
(* removed the file of an agent and before it spawned another one, and that*)
(* no center runs between the check and the spawn.                         *)
NamedAt(c, n) ==
    /\ cmd[c].at \in {"check", "stop", "kill"} => Named(n)
    /\ cmd[c].at = "kill" /\ cmd[c].name = n => pidFile[n] = cmd[c].pid
    /\ cmd[c].at = "clear" /\ n # Center => Named(n)
    /\ cmd[c].at \in {"clean", "probe", "clear", "spawn"} /\ n = Center =>
            Backgrounds(n) = {}
    /\ cmd[c].at \in {"open", "write"} =>
            \A p \in Backgrounds(n) : p = cmd[c].pid \/ Reached(p)
    /\ cmd[c].at = "wait" =>
            IF cmd[c].name = n THEN \A p \in Backgrounds(n) : Reached(p) ELSE Named(n)

NamedMeanwhile ==
    \A n \in Names \ disturbed :
        /\ Calm(n) => Named(n)
        /\ \A c \in Commands : n \in cmd[c].about => NamedAt(c, n)

(* A signal has reached p, and p did not end without one. *)
WasHit(p) == p \notin ended /\ (p \in told \/ daemon[p].state = "gone")

(* The stop command that hit p removes its file, and nobody writes or reads*)
(* the pid any more.                                                       *)
HitFollowed(p) ==
    /\ \A n \in Names : pidFile[n] = p =>
          \E c \in Commands :
             cmd[c].at = "wait" /\ cmd[c].name = n /\ cmd[c].pid = p
    /\ \A c \in Commands :
          cmd[c].at \in {"open", "write", "kill"} => cmd[c].pid # p

HitsAreFollowed ==
    \A p \in Pids :
        WasHit(p) /\ daemon[p].name \in Names \ disturbed => HitFollowed(p)

Meanings == CommandsMean /\ FilesMean /\ ProcessesMean /\ OneCommand

DaemonInv ==
    /\ TypeOK
    /\ Meanings
    /\ NamedMeanwhile
    /\ HitsAreFollowed
    /\ StrangersAreSpared

-----------------------------------------------------------------------------
(* Types *)

CmdType == [at : Places, about : SUBSET Names, name : Names \cup {None},
            pid : Pids \cup {None}, left : SUBSET Names]

DaemonType == [name : Names \cup {None}, background : BOOLEAN, state : States]

(* Where a command goes next keeps the types of commands. *)
LEMMA GotoTyped ==
    ASSUME cmd \in [Commands -> CmdType], NEW c \in Commands, NEW at \in Places,
           Goto(c, at)
    PROVE  cmd' \in [Commands -> CmdType]
<1>1. Done \in CmdType
  BY DEF Done, CmdType, Places
<1>2. [cmd[c] EXCEPT !.at = at] \in CmdType
  BY DEF CmdType
<1> QED
  BY <1>1, <1>2 DEF Goto

(* The fields that go with the place of a command that is called or moves. *)
LEMMA GotoIs ==
    ASSUME cmd \in [Commands -> CmdType], NEW c \in Commands, NEW at \in Places,
           Goto(c, at)
    PROVE  /\ \A d \in Commands : d # c => cmd'[d] = cmd[d]
           /\ cmd'[c].at = at
           /\ at # "done" => /\ cmd'[c].about = cmd[c].about
                             /\ cmd'[c].name = cmd[c].name
                             /\ cmd'[c].pid = cmd[c].pid
                             /\ cmd'[c].left = cmd[c].left
           /\ at = "done" => cmd'[c].about = {} /\ cmd'[c].pid = None
  BY DEF Goto, Done, CmdType

TypeParts ==
    /\ cmd \in [Commands -> CmdType]
    /\ daemon \in [Pids -> DaemonType]
    /\ told \subseteq {p \in Running : daemon[p].name \in Agents}
    /\ pidFile \in [Names -> Pids \cup {None, Empty}]
    /\ port \in {p \in Pids : daemon[p].name = Center /\ daemon[p].state = "serving"}
                \cup {None}
    /\ strangers \subseteq Pids /\ struck \subseteq Pids
    /\ ended \subseteq Pids /\ displaced \subseteq Pids
    /\ disturbed \subseteq Names

LEMMA TypePartsAre == TypeOK <=> TypeParts
  BY DEF TypeOK, TypeParts, CmdType, DaemonType

(* A signal. *)
LEMMA HitTyped ==
    ASSUME TypeParts, ProcessesMean, NEW p \in Running, Hit(p)
    PROVE  /\ daemon' \in [Pids -> DaemonType]
           /\ told' \subseteq {q \in Running' : daemon'[q].name \in Agents}
           /\ port' \in {q \in Pids : daemon'[q].name = Center /\ daemon'[q].state = "serving"}
                        \cup {None}
<1> USE DaemonAssumption DEF TypeParts, ProcessesMean, DaemonType, States, Running
<1>1. CASE Heeds(p)
  <2>1. daemon' = daemon /\ told' = told \cup {p} /\ port' = IF port = p THEN None ELSE port
    BY <1>1 DEF Hit
  <2>2. daemon[p].name \in Agents
    BY <1>1 DEF Heeds, Names
  <2> QED
    BY <2>1, <2>2
<1>2. CASE ~Heeds(p)
  <2>1. /\ daemon' = [daemon EXCEPT ![p].state = "gone"] /\ told' = told
        /\ port' = IF port = p THEN None ELSE port
    BY <1>2 DEF Hit
  <2>2. p \notin told
    BY <1>2 DEF Heeds
  <2> QED
    BY <2>1, <2>2
<1> QED
  BY <1>1, <1>2

(* A process that was spawned keeps its name, and one that is gone is so   *)
(* for good.                                                               *)
LEMMA ProcessesGoOn ==
    ASSUME TypeParts, [Next]_vars, NEW p \in Pids, daemon[p].state # "none"
    PROVE  /\ daemon'[p].name = daemon[p].name
           /\ daemon'[p].background = daemon[p].background
           /\ daemon'[p].state # "none"
           /\ daemon[p].state = "gone" => daemon'[p].state = "gone"
<1> USE DEF TypeParts, DaemonType
<1>1. CASE UNCHANGED daemon
  BY <1>1
<1>2. ASSUME NEW q \in Pids, NEW state \in States \ {"none"},
             daemon[q].state # "gone" \/ state = "gone",
             daemon' = [daemon EXCEPT ![q].state = state]
      PROVE  /\ daemon'[p].name = daemon[p].name
             /\ daemon'[p].background = daemon[p].background
             /\ daemon'[p].state # "none"
             /\ daemon[p].state = "gone" => daemon'[p].state = "gone"
  BY <1>2
<1>3. ASSUME NEW q \in Unused, NEW name, NEW background, Born(q, name, background)
      PROVE  daemon'[p] = daemon[p]
  BY <1>3 DEF Born, Unused
<1>4. ASSUME NEW c \in Commands, Spawn(c)
      PROVE  daemon'[p] = daemon[p]
  BY <1>3, <1>4 DEF Spawn
<1>5. ASSUME NEW n \in Names, StartForeground(n)
      PROVE  daemon'[p] = daemon[p]
  BY <1>3, <1>5 DEF StartForeground
<1>6. ASSUME NEW c \in Commands, Kill(c)
      PROVE  \/ UNCHANGED daemon
             \/ \E q \in Pids : daemon' = [daemon EXCEPT ![q].state = "gone"]
  <2>1. CASE cmd[c].pid \in Running
    BY <1>6, <2>1 DEF Kill, Hit, Running
  <2>2. CASE cmd[c].pid \notin Running
    BY <1>6, <2>2 DEF Kill
  <2> QED
    BY <2>1, <2>2
<1>7. ASSUME NEW q \in Pids, Proceed(q)
      PROVE  \E state \in States \ {"none"} :
                /\ daemon[q].state # "gone"
                /\ daemon' = [daemon EXCEPT ![q].state = state]
  BY <1>7 DEF Proceed, Bind, InstallHandlers, Started, StopEvent, Stopped, Becomes,
              States
<1>8. ASSUME NEW q \in Pids, Die(q)
      PROVE  daemon' = [daemon EXCEPT ![q].state = "gone"]
  BY <1>8 DEF Die, Becomes
<1>9. CASE Reboot
  BY <1>9 DEF Reboot, Running
<1>10. CASE \/ \E c \in Commands :
                  \/ StartCenter(c) \/ StopCenter(c) \/ StopAgent(c) \/ Interrupt(c)
                  \/ Check(c) \/ Clean(c) \/ \E taken \in BOOLEAN : Probe(c, taken)
                  \/ Clear(c) \/ Open(c) \/ Write(c) \/ Stop(c) \/ Unlink(c)
            \/ \E c \in Commands, a \in Agents : StartAgent(c, a)
            \/ \E q \in Pids : ReusePid(q)
            \/ UNCHANGED vars
  <2>1. UNCHANGED daemon
    BY <1>10 DEF StartCenter, StopCenter, StopAgent, StartAgent, Call, Interrupt,
                 Check, Clean, Probe, Clear, Open, Write, Stop, Unlink, ReusePid,
                 vars
  <2> QED
    BY <1>1, <2>1
<1>11. QED
  BY <1>1, <1>2, <1>4, <1>5, <1>6, <1>7, <1>8, <1>9, <1>10
     DEF Next, Step, States

LEMMA TypeInit == Init => TypeOK
  BY DEF Init, Done, TypeOK, Places, States, Running

(* A command that is called, moves or ends. *)
LEMMA CommandsTyped ==
    ASSUME TypeParts, CommandsMean, NEW c \in Commands,
           \/ StartCenter(c) \/ StopCenter(c) \/ StopAgent(c)
           \/ \E a \in Agents : StartAgent(c, a)
           \/ Interrupt(c) \/ Check(c) \/ Clean(c)
           \/ \E taken \in BOOLEAN : Probe(c, taken)
           \/ Clear(c) \/ Open(c) \/ Write(c) \/ Stop(c) \/ Unlink(c)
    PROVE  /\ cmd' \in [Commands -> CmdType]
           /\ pidFile' \in [Names -> Pids \cup {None, Empty}]
           /\ disturbed' \subseteq Names
<1> USE DEF TypeParts
<1>1. Center \in Names /\ Agents \subseteq Names
  BY DEF Names
<1>2. ASSUME NEW at \in Places, NEW about \in SUBSET Names,
             NEW name \in Names \cup {None}, NEW left \in SUBSET Names,
             Call(c, at, about, name, left)
      PROVE  /\ cmd' \in [Commands -> CmdType] /\ UNCHANGED pidFile
             /\ disturbed' \subseteq Names
  BY <1>2 DEF Call, CmdType
<1>3. CASE \/ StartCenter(c) \/ StopCenter(c) \/ StopAgent(c)
           \/ \E a \in Agents : StartAgent(c, a)
  <2>1. "check" \in Places /\ "clear" \in Places /\ "stop" \in Places
    BY DEF Places
  <2>2. CASE StartCenter(c)
    BY <1>1, <1>2, <2>1, <2>2 DEF StartCenter
  <2>3. CASE StopCenter(c)
    BY <1>1, <1>2, <2>1, <2>3 DEF StopCenter
  <2>4. CASE StopAgent(c)
    BY <1>1, <1>2, <2>1, <2>4 DEF StopAgent
  <2>5. ASSUME NEW a \in Agents, StartAgent(c, a)
        PROVE  /\ cmd' \in [Commands -> CmdType] /\ UNCHANGED pidFile
               /\ disturbed' \subseteq Names
    <3>1. a \in Names /\ {a} \in SUBSET Names /\ {} \in SUBSET Names
      BY <1>1
    <3>2. Call(c, "clear", {a}, a, {})
      BY <2>5 DEF StartAgent
    <3> QED
      BY <1>2, <2>1, <3>1, <3>2
  <2> QED
    BY <1>3, <2>2, <2>3, <2>4, <2>5
<1>4. CASE Interrupt(c)
  <2>1. cmd[c].about \in SUBSET Names
    BY DEF CmdType
  <2> QED
    BY <1>4, <2>1, GotoTyped DEF Interrupt, Places
<1>5. CASE \/ Check(c) \/ \E taken \in BOOLEAN : Probe(c, taken)
  <2>1. \E at \in Places : Goto(c, at)
    BY <1>5 DEF Check, Probe, Places
  <2> QED
    BY <1>5, <2>1, GotoTyped DEF Check, Probe, history
<1>6. CASE Clean(c) \/ Clear(c) \/ Open(c) \/ Write(c) \/ Unlink(c)
  <2>1. \E at \in Places : Goto(c, at)
    BY <1>6 DEF Clean, Clear, Open, Write, Unlink, Places
  <2>2. \E n \in Names, value \in Pids \cup {None, Empty} :
           pidFile' = [pidFile EXCEPT ![n] = value]
    BY <1>1, <1>6 DEF Clean, Clear, Open, Write, Unlink, CommandsMean, CommandMeans, CmdType
  <2> QED
    BY <1>6, <2>1, <2>2, GotoTyped DEF Clean, Clear, Open, Write, Unlink, history
<1>7. CASE Stop(c)
  <2>1. CASE Goto(c, "done")
    BY <1>7, <2>1, GotoTyped DEF Stop, history, Places
  <2>2. ASSUME NEW n \in cmd[c].left, pidFile[n] \notin {None, Empty},
               cmd' = [cmd EXCEPT ![c].at = "kill", ![c].name = n,
                                  ![c].pid = pidFile[n], ![c].left = @ \ {n}]
        PROVE  cmd' \in [Commands -> CmdType]
    <3>1. n \in Names /\ pidFile[n] \in Pids
      BY <2>2 DEF CmdType
    <3> QED
      BY <2>2, <3>1 DEF CmdType, Places
  <2>3. ASSUME NEW n \in cmd[c].left, cmd' = [cmd EXCEPT ![c].left = @ \ {n}]
        PROVE  cmd' \in [Commands -> CmdType]
    BY <2>3 DEF CmdType
  <2> QED
    BY <1>7, <2>1, <2>2, <2>3 DEF Stop, history
<1> QED
  BY <1>3, <1>4, <1>5, <1>6, <1>7

LEMMA SpawnTyped ==
    ASSUME cmd \in [Commands -> CmdType], NEW c \in Commands, NEW p \in Pids,
           cmd' = [cmd EXCEPT ![c].at = "open", ![c].pid = p]
    PROVE  cmd' \in [Commands -> CmdType]
  BY DEF CmdType, Places

LEMMA TypeStep ==
    ASSUME TypeParts, Meanings, [Next]_vars
    PROVE  TypeParts'
<1> USE DEF TypeParts, Meanings
<1>1. ASSUME NEW c \in Commands,
             \/ StartCenter(c) \/ StopCenter(c) \/ StopAgent(c)
             \/ \E a \in Agents : StartAgent(c, a)
             \/ Interrupt(c) \/ Check(c) \/ Clean(c)
             \/ \E taken \in BOOLEAN : Probe(c, taken)
             \/ Clear(c) \/ Open(c) \/ Write(c) \/ Stop(c) \/ Unlink(c)
      PROVE  TypeParts'
  <2>1. UNCHANGED <<daemon, told, port, strangers, struck, ended, displaced>>
    BY <1>1 DEF StartCenter, StopCenter, StopAgent, StartAgent, Call, Interrupt,
                Check, Clean, Probe, Clear, Open, Write, Stop, Unlink, history
  <2>2. Running' = Running
    BY <2>1 DEF Running
  <2>3. /\ cmd' \in [Commands -> CmdType]
        /\ pidFile' \in [Names -> Pids \cup {None, Empty}]
        /\ disturbed' \subseteq Names
    BY <1>1, CommandsTyped
  <2> QED
    BY <2>1, <2>2, <2>3
<1>2. ASSUME NEW p \in Unused, NEW name \in Names, NEW background \in BOOLEAN,
             Born(p, name, background), UNCHANGED <<told, port>>
      PROVE  /\ daemon' \in [Pids -> DaemonType]
             /\ told' \subseteq {q \in Running' : daemon'[q].name \in Agents}
             /\ port' \in {q \in Pids : daemon'[q].name = Center
                                        /\ daemon'[q].state = "serving"} \cup {None}
  BY <1>2 DEF Born, Unused, Running, DaemonType, States
<1>3. ASSUME NEW c \in Commands, Spawn(c)
      PROVE  TypeParts'
  <2>1. PICK p \in Unused : /\ Born(p, cmd[c].name, TRUE)
                            /\ cmd' = [cmd EXCEPT ![c].at = "open", ![c].pid = p]
    BY <1>3 DEF Spawn
  <2>2. cmd[c].name \in Names
    BY <1>3 DEF Spawn, CommandsMean, CommandMeans
  <2>3. p \in Pids
    BY DEF Unused
  <2>4. cmd' \in [Commands -> CmdType]
    <3>1. cmd' = [cmd EXCEPT ![c].at = "open", ![c].pid = p]
      BY <2>1
    <3> QED
      BY <2>3, <3>1, SpawnTyped
  <2>5. displaced' \subseteq Pids
    BY <1>3 DEF Spawn, Running
  <2> QED
    BY <1>2, <1>3, <2>1, <2>2, <2>4, <2>5 DEF Spawn
<1>4. ASSUME NEW c \in Commands, Kill(c)
      PROVE  TypeParts'
  <2>1. cmd' \in [Commands -> CmdType]
    BY <1>4, GotoTyped DEF Kill, Places
  <2>2. /\ daemon' \in [Pids -> DaemonType]
        /\ told' \subseteq {q \in Running' : daemon'[q].name \in Agents}
        /\ port' \in {q \in Pids : daemon'[q].name = Center
                                   /\ daemon'[q].state = "serving"} \cup {None}
    <3>1. CASE cmd[c].pid \in Running
      BY <1>4, <3>1, HitTyped DEF Kill
    <3>2. CASE cmd[c].pid \notin Running
      BY <1>4, <3>2 DEF Kill, Running
    <3> QED
      BY <3>1, <3>2
  <2> QED
    BY <1>4, <2>1, <2>2 DEF Kill
<1>5. ASSUME NEW n \in Names, StartForeground(n)
      PROVE  TypeParts'
  <2>1. \E p \in Unused : Born(p, n, FALSE)
    BY <1>5 DEF StartForeground
  <2> QED
    BY <1>2, <1>5, <2>1 DEF StartForeground, history
<1>6. ASSUME NEW p \in Pids, Proceed(p)
      PROVE  TypeParts'
  <2>1. CASE \E taken \in BOOLEAN : Bind(p, taken)
    <3>1. p \notin told
      BY <2>1, DaemonAssumption DEF Bind
    <3> QED
      BY <2>1, <3>1 DEF Bind, Becomes, Running, DaemonType, States
  <2>2. CASE InstallHandlers(p) \/ Started(p) \/ StopEvent(p)
    <3>1. p # port
      BY <2>2, DaemonAssumption DEF InstallHandlers, Started, StopEvent
    <3> QED
      BY <2>2, <3>1 DEF InstallHandlers, Started, StopEvent, Becomes, Running,
                        DaemonType, States, history
  <2>3. CASE Stopped(p)
    BY <2>3 DEF Stopped, Becomes, Running, DaemonType, States, history
  <2> QED
    BY <1>6, <2>1, <2>2, <2>3 DEF Proceed
<1>7. ASSUME NEW p \in Pids, Die(p)
      PROVE  TypeParts'
  BY <1>7 DEF Die, Becomes, Running, DaemonType, States
<1>8. CASE Reboot
  <2>1. daemon' \in [Pids -> DaemonType]
    BY <1>8 DEF Reboot, DaemonType, States
  <2>2. cmd' \in [Commands -> CmdType]
    BY <1>8 DEF Reboot, Done, CmdType, Places
  <2>3. disturbed' \subseteq Names
    BY <1>8 DEF Reboot, CmdType
  <2> QED
    BY <1>8, <2>1, <2>2, <2>3 DEF Reboot, Running
<1>9. ASSUME NEW p \in Pids, ReusePid(p)
      PROVE  TypeParts'
  BY <1>9 DEF ReusePid, Running, history
<1>10. CASE UNCHANGED vars
  BY <1>10 DEF vars, history, Running
<1>11. QED
  BY <1>1, <1>3, <1>4, <1>5, <1>6, <1>7, <1>8, <1>9, <1>10 DEF Next, Step

-----------------------------------------------------------------------------
(* The meanings *)

(* A call: what it is about was nobody's, or is disturbed from now on. *)
LEMMA CallIs ==
    ASSUME TypeParts, NEW c \in Commands, NEW at, NEW about \in SUBSET Names,
           NEW name, NEW left, Call(c, at, about, name, left)
    PROVE  /\ cmd[c].at = "idle"
           /\ cmd' = [cmd EXCEPT ![c] = [at |-> at, about |-> about, name |-> name,
                                         pid |-> None, left |-> left]]
           /\ UNCHANGED <<daemon, told, pidFile, port, strangers, struck, ended,
                          displaced>>
           /\ disturbed \subseteq disturbed'
           /\ \A n \in about, d \in Commands : n \in cmd[d].about => n \in disturbed'
<1>1. disturbed' = disturbed \cup (about \cap UNION {cmd[d].about : d \in Commands})
  BY DEF Call
<1>2. \A n \in about, d \in Commands : n \in cmd[d].about => n \in disturbed'
  BY <1>1
<1> QED
  BY <1>1, <1>2 DEF Call

Called(c) ==
    \/ StartCenter(c) \/ StopCenter(c) \/ StopAgent(c)
    \/ \E a \in Agents : StartAgent(c, a)

(* What any call changes, and what it leaves alone. *)
CallChanges(c) ==
    /\ cmd[c].at = "idle"
    /\ \A d \in Commands : d # c => cmd'[d] = cmd[d]
    /\ UNCHANGED <<daemon, told, pidFile, port, strangers, struck, ended, displaced>>
    /\ disturbed \subseteq disturbed'
    /\ \A n \in cmd'[c].about, d \in Commands : n \in cmd[d].about => n \in disturbed'

LEMMA CallAs ==
    ASSUME TypeParts, NEW c \in Commands, NEW at, NEW about \in SUBSET Names,
           NEW name, NEW left, Call(c, at, about, name, left)
    PROVE  /\ CallChanges(c)
           /\ cmd'[c].at = at /\ cmd'[c].about = about
           /\ cmd'[c].name = name /\ cmd'[c].left = left
<1>1. cmd' = [cmd EXCEPT ![c] = [at |-> at, about |-> about, name |-> name,
                                 pid |-> None, left |-> left]]
  BY CallIs
<1>2. /\ cmd'[c] = [at |-> at, about |-> about, name |-> name,
                    pid |-> None, left |-> left]
      /\ \A d \in Commands : d # c => cmd'[d] = cmd[d]
  BY <1>1 DEF TypeParts
<1>3. cmd'[c].at = at /\ cmd'[c].about = about /\ cmd'[c].name = name
      /\ cmd'[c].left = left
  BY <1>2
<1>4. \A n \in cmd'[c].about, d \in Commands : n \in cmd[d].about => n \in disturbed'
  BY <1>3, CallIs
<1>5. CallChanges(c)
  BY <1>2, <1>4, CallIs DEF CallChanges
<1> QED
  BY <1>3, <1>5

LEMMA CalledIs ==
    ASSUME TypeParts, NEW c \in Commands, Called(c)
    PROVE  /\ CallChanges(c)
           /\ \/ cmd'[c].at = "check" /\ cmd'[c].about = {Center}
                 /\ cmd'[c].name = Center
              \/ cmd'[c].at = "clear" /\ cmd'[c].name \in Agents
                 /\ cmd'[c].about = {cmd'[c].name}
              \/ cmd'[c].at = "stop" /\ cmd'[c].left \subseteq cmd'[c].about
<1>1. CASE StartCenter(c)
  <2>1. Call(c, "check", {Center}, Center, {}) /\ {Center} \in SUBSET Names
    BY <1>1 DEF StartCenter, Names
  <2> QED
    BY <2>1, CallAs
<1>2. CASE StopCenter(c)
  <2>1. Call(c, "stop", {Center}, None, {Center}) /\ {Center} \in SUBSET Names
    BY <1>2 DEF StopCenter, Names
  <2> QED
    BY <2>1, CallAs
<1>3. CASE StopAgent(c)
  <2> DEFINE found == {a \in Agents : pidFile[a] # None}
  <2>1. Call(c, "stop", Agents, None, found) /\ Agents \in SUBSET Names
        /\ found \subseteq Agents
    BY <1>3 DEF StopAgent, Names
  <2> HIDE DEF found
  <2> QED
    BY <2>1, CallAs
<1>4. ASSUME NEW a \in Agents, StartAgent(c, a)
      PROVE  /\ CallChanges(c)
             /\ cmd'[c].at = "clear" /\ cmd'[c].name = a /\ cmd'[c].about = {a}
  <2>1. Call(c, "clear", {a}, a, {}) /\ {a} \in SUBSET Names
    BY <1>4 DEF StartAgent, Names
  <2> QED
    BY <2>1, CallAs
<1> QED
  BY <1>1, <1>2, <1>3, <1>4 DEF Called

(* A step of a command, by where it goes: to another place, on the way to  *)
(* a signal, or to the next file. *)
Moves(c, at) ==
    /\ \A d \in Commands : d # c => cmd'[d] = cmd[d]
    /\ cmd'[c].at = at
    /\ cmd'[c].about = cmd[c].about
    /\ cmd'[c].name = cmd[c].name
    /\ cmd'[c].pid = cmd[c].pid
    /\ cmd'[c].left = cmd[c].left

Ends(c) ==
    /\ \A d \in Commands : d # c => cmd'[d] = cmd[d]
    /\ cmd'[c].at = "done"
    /\ cmd'[c].about = {}

LEMMA GotoMoves ==
    ASSUME TypeParts, NEW c \in Commands, NEW at \in Places, Goto(c, at)
    PROVE  IF at = "done" THEN Ends(c) ELSE Moves(c, at)
  BY GotoIs DEF TypeParts, Moves, Ends

LEMMA OthersMean ==
    ASSUME TypeParts, [Next]_vars, NEW d \in Commands, cmd'[d] = cmd[d],
           CommandMeans(d)
    PROVE  CommandMeans(d)'
  BY ProcessesGoOn DEF CommandMeans

(* The ways between two places. *)
Ways == {<<"check", "probe">>, <<"check", "clean">>, <<"clean", "probe">>,
         <<"probe", "clear">>, <<"clear", "spawn">>, <<"open", "write">>,
         <<"kill", "wait">>, <<"wait", "stop">>}

LEMMA MovedMeans ==
    ASSUME TypeParts, [Next]_vars, NEW c \in Commands, CommandMeans(c),
           NEW at \in Places, Moves(c, at), <<cmd[c].at, at>> \in Ways
    PROVE  CommandMeans(c)'
<1>1. Center \in Names
  BY DEF Names
<1> QED
  BY <1>1, ProcessesGoOn DEF CommandMeans, Moves, Ways

LEMMA CommandsMeanStep ==
    ASSUME TypeParts, Meanings, [Next]_vars
    PROVE  CommandsMean'
<1> USE DEF CommandsMean, Meanings
<1>1. ASSUME UNCHANGED cmd PROVE CommandsMean'
  BY <1>1, OthersMean
<1>2. ASSUME NEW c \in Commands, NEW at \in Places, Moves(c, at),
             <<cmd[c].at, at>> \in Ways
      PROVE  CommandsMean'
  BY <1>2, OthersMean, MovedMeans DEF Moves
<1>3. ASSUME NEW c \in Commands, Ends(c) PROVE CommandsMean'
  BY <1>3, OthersMean DEF Ends, CommandMeans
<1>4. ASSUME NEW c \in Commands, Called(c) PROVE CommandsMean'
  <2>1. CallChanges(c)
    BY <1>4, CalledIs
  <2>2. CommandMeans(c)'
    BY <1>4, CalledIs DEF CommandMeans, Names
  <2> QED
    BY <2>1, <2>2, OthersMean DEF CallChanges
<1>5. ASSUME NEW c \in Commands,
             \/ Check(c) \/ Clean(c) \/ Clear(c) \/ Open(c) \/ Write(c)
             \/ Kill(c) \/ Unlink(c) \/ Interrupt(c)
             \/ \E taken \in BOOLEAN : Probe(c, taken)
      PROVE  \E at \in Places : /\ Goto(c, at)
                                /\ at = "done" \/ <<cmd[c].at, at>> \in Ways
  BY <1>5 DEF Check, Clean, Clear, Open, Write, Kill, Unlink, Interrupt, Probe,
              Ways, Places
<1>6. ASSUME NEW c \in Commands, Spawn(c) PROVE CommandsMean'
  <2>1. PICK p \in Unused : /\ Born(p, cmd[c].name, TRUE)
                            /\ cmd' = [cmd EXCEPT ![c].at = "open", ![c].pid = p]
    BY <1>6 DEF Spawn
  <2>2. /\ \A d \in Commands : d # c => cmd'[d] = cmd[d]
        /\ cmd'[c].at = "open" /\ cmd'[c].pid = p
        /\ cmd'[c].name = cmd[c].name /\ cmd'[c].about = cmd[c].about
    BY <2>1 DEF TypeParts, CmdType
  <2>3. p \in Pids /\ daemon'[p].name = cmd[c].name /\ daemon'[p].state = "booting"
    BY <2>1 DEF Born, Unused, TypeParts
  <2>4. CommandMeans(c)'
    BY <1>6, <2>2, <2>3 DEF Spawn, CommandMeans
  <2> QED
    BY <2>2, <2>4, OthersMean
<1>7. ASSUME NEW c \in Commands, Stop(c) PROVE CommandsMean'
  <2>1. CASE Goto(c, "done")
    BY <1>3, <2>1, GotoMoves DEF Places
  <2>2. ASSUME NEW n \in cmd[c].left, pidFile[n] \notin {None, Empty},
               cmd' = [cmd EXCEPT ![c].at = "kill", ![c].name = n,
                                  ![c].pid = pidFile[n], ![c].left = @ \ {n}]
        PROVE  CommandsMean'
    <3>1. /\ \A d \in Commands : d # c => cmd'[d] = cmd[d]
          /\ cmd'[c].at = "kill" /\ cmd'[c].pid = pidFile[n]
          /\ cmd'[c].name = n /\ cmd'[c].about = cmd[c].about
          /\ cmd'[c].left = cmd[c].left \ {n}
      BY <2>2 DEF TypeParts, CmdType
    <3>2. n \in Names /\ pidFile[n] \in Pids /\ cmd[c].left \subseteq cmd[c].about
      BY <1>7, <2>2 DEF Stop, TypeParts, CmdType, CommandMeans
    <3>3. daemon'[pidFile[n]].name = n /\ daemon'[pidFile[n]].state # "none"
      BY <3>2, ProcessesGoOn DEF FilesMean
    <3>4. CommandMeans(c)'
      BY <3>1, <3>2, <3>3 DEF CommandMeans
    <3> QED
      BY <3>1, <3>4, OthersMean
  <2>3. ASSUME NEW n \in cmd[c].left, cmd' = [cmd EXCEPT ![c].left = @ \ {n}]
        PROVE  CommandsMean'
    <3>1. /\ \A d \in Commands : d # c => cmd'[d] = cmd[d]
          /\ cmd'[c].at = cmd[c].at /\ cmd'[c].about = cmd[c].about
          /\ cmd'[c].left \subseteq cmd[c].left
      BY <2>3 DEF TypeParts, CmdType
    <3>2. CommandMeans(c)'
      BY <1>7, <3>1 DEF Stop, CommandMeans
    <3> QED
      BY <3>1, <3>2, OthersMean
  <2> QED
    BY <1>7, <2>1, <2>2, <2>3 DEF Stop
<1>8. CASE Reboot
  <2>1. \A c \in Commands : cmd'[c] = cmd[c] \/ cmd'[c] = Done
    BY <1>8 DEF Reboot
  <2>2. \A c \in Commands : cmd'[c] = Done => CommandMeans(c)'
    BY DEF Done, CommandMeans
  <2> QED
    BY <2>1, <2>2, OthersMean
<1>9. CASE \/ \E n \in Names : StartForeground(n)
           \/ \E p \in Pids : Proceed(p) \/ Die(p) \/ ReusePid(p)
           \/ UNCHANGED vars
  <2>1. UNCHANGED cmd
    BY <1>9 DEF StartForeground, Proceed, Bind, InstallHandlers, Started,
                StopEvent, Stopped, Die, ReusePid, vars
  <2> QED
    BY <1>1, <2>1
<1>10. QED
  BY <1>2, <1>3, <1>4, <1>5, <1>6, <1>7, <1>8, <1>9, GotoMoves
     DEF Next, Step, Called

LEMMA FilesMeanStep ==
    ASSUME TypeParts, Meanings, [Next]_vars
    PROVE  FilesMean'
<1> USE DEF TypeParts, Meanings, FilesMean
<1>1. ASSUME NEW n \in Names, NEW value,
             pidFile' = [pidFile EXCEPT ![n] = value],
             value \in Pids => daemon'[value].name = n /\ daemon'[value].state # "none"
      PROVE  FilesMean'
  BY <1>1, ProcessesGoOn
<1>2. ASSUME UNCHANGED pidFile PROVE FilesMean'
  BY <1>2, ProcessesGoOn
<1>3. ASSUME NEW c \in Commands, Clean(c) \/ Clear(c) \/ Open(c) \/ Unlink(c)
      PROVE  \E n \in Names, value \in {None, Empty} :
                pidFile' = [pidFile EXCEPT ![n] = value]
  BY <1>3 DEF Clean, Clear, Open, Unlink, CommandsMean, CommandMeans, Names, CmdType
<1>4. ASSUME NEW c \in Commands, Write(c) PROVE FilesMean'
  <2>1. CommandMeans(c) /\ pidFile' = [pidFile EXCEPT ![cmd[c].name] = cmd[c].pid]
    BY <1>4 DEF Write, CommandsMean
  <2>2. /\ cmd[c].name \in Names /\ cmd[c].pid \in Pids
        /\ daemon[cmd[c].pid].name = cmd[c].name
        /\ daemon[cmd[c].pid].state # "none"
    BY <1>4, <2>1 DEF Write, CommandMeans
  <2> QED
    BY <1>1, <2>1, <2>2, ProcessesGoOn
<1>5. CASE \/ \E c \in Commands :
                 \/ Called(c) \/ Interrupt(c) \/ Check(c) \/ Spawn(c)
                 \/ \E taken \in BOOLEAN : Probe(c, taken)
                 \/ Stop(c) \/ Kill(c)
           \/ \E n \in Names : StartForeground(n)
           \/ \E p \in Pids : Proceed(p) \/ Die(p) \/ ReusePid(p)
           \/ Reboot \/ UNCHANGED vars
  <2>1. \A c \in Commands : Called(c) => UNCHANGED pidFile
    BY CalledIs DEF CallChanges
  <2> QED
    BY <1>2, <1>5, <2>1
       DEF Interrupt, Check, Spawn, Probe, Stop, Kill, StartForeground, Proceed,
           Bind, InstallHandlers, Started, StopEvent, Stopped, Die, ReusePid,
           Reboot, vars
<1>6. QED
  BY <1>1, <1>3, <1>4, <1>5, DaemonAssumption DEF Next, Step, Called

(* Only a call makes a command be about something. *)
LEMMA AboutShrinks ==
    ASSUME TypeParts, Meanings, [Next]_vars, \A c \in Commands : ~Called(c)
    PROVE  /\ \A c \in Commands : cmd'[c].about \subseteq cmd[c].about
           /\ disturbed \subseteq disturbed'
<1> USE DEF TypeParts
<1>1. ASSUME NEW c \in Commands, NEW at \in Places, Goto(c, at)
      PROVE  \A d \in Commands : cmd'[d].about \subseteq cmd[d].about
  BY <1>1, GotoIs
<1>2. ASSUME NEW c \in Commands,
             \/ Check(c) \/ Clean(c) \/ Clear(c) \/ Open(c) \/ Write(c)
             \/ Kill(c) \/ Unlink(c) \/ Interrupt(c)
             \/ \E taken \in BOOLEAN : Probe(c, taken)
      PROVE  \E at \in Places : Goto(c, at)
  BY <1>2 DEF Check, Clean, Clear, Open, Write, Kill, Unlink, Interrupt, Probe,
              Places
<1>3. ASSUME NEW c \in Commands, Spawn(c) \/ Stop(c)
      PROVE  \A d \in Commands : cmd'[d].about \subseteq cmd[d].about
  <2>1. CASE Spawn(c)
    BY <2>1 DEF Spawn, CmdType
  <2>2. CASE Stop(c)
    <3>1. CASE Goto(c, "done")
      BY <1>1, <3>1 DEF Places
    <3>2. ASSUME NEW n \in cmd[c].left,
                 \/ cmd' = [cmd EXCEPT ![c].left = @ \ {n}]
                 \/ cmd' = [cmd EXCEPT ![c].at = "kill", ![c].name = n,
                                       ![c].pid = pidFile[n], ![c].left = @ \ {n}]
          PROVE  \A d \in Commands : cmd'[d].about \subseteq cmd[d].about
      BY <3>2 DEF CmdType
    <3> QED
      BY <2>2, <3>1, <3>2 DEF Stop
  <2> QED
    BY <1>3, <2>1, <2>2
<1>4. CASE Reboot
  <2>1. \A c \in Commands : cmd'[c] = cmd[c] \/ cmd'[c].about = {}
    BY <1>4 DEF Reboot, Done
  <2>2. disturbed \subseteq disturbed'
    BY <1>4 DEF Reboot
  <2> QED
    BY <2>1, <2>2
<1>5. CASE \/ \E n \in Names : StartForeground(n)
           \/ \E p \in Pids : Proceed(p) \/ Die(p) \/ ReusePid(p)
           \/ UNCHANGED vars
  <2>1. UNCHANGED <<cmd, disturbed>>
    BY <1>5 DEF StartForeground, Proceed, Bind, InstallHandlers, Started,
                StopEvent, Stopped, Die, ReusePid, vars, history
  <2> QED
    BY <2>1
<1>6. ASSUME NEW c \in Commands, Step(c) \/ Interrupt(c)
      PROVE  disturbed \subseteq disturbed'
  BY <1>6 DEF Step, Check, Clean, Clear, Open, Write, Kill, Unlink, Interrupt,
              Probe, Spawn, Stop, history
<1>7. QED
  BY <1>1, <1>2, <1>3, <1>4, <1>5, <1>6 DEF Next, Step, Called

LEMMA OneCommandStep ==
    ASSUME TypeParts, Meanings, [Next]_vars
    PROVE  OneCommand' /\ disturbed \subseteq disturbed'
<1>1. ASSUME NEW c \in Commands, Called(c)
      PROVE  OneCommand' /\ disturbed \subseteq disturbed'
  BY <1>1, CalledIs DEF CallChanges, OneCommand, Meanings
<1>2. CASE \A c \in Commands : ~Called(c)
  BY <1>2, AboutShrinks DEF OneCommand, Meanings
<1> QED
  BY <1>1, <1>2

LEMMA ProcessesMeanStep ==
    ASSUME TypeParts, Meanings, [Next]_vars
    PROVE  ProcessesMean'
<1> USE DEF TypeParts, Meanings, ProcessesMean, DaemonType
<1>1. ASSUME UNCHANGED <<daemon, told, displaced, strangers, struck>>
      PROVE  ProcessesMean'
  BY <1>1
<1>2. ASSUME NEW c \in Commands, Called(c) PROVE ProcessesMean'
  BY <1>1, <1>2, CalledIs DEF CallChanges
<1>3. CASE \/ \E c \in Commands :
                 \/ Interrupt(c) \/ Check(c) \/ Clean(c) \/ Clear(c)
                 \/ \E taken \in BOOLEAN : Probe(c, taken)
                 \/ Open(c) \/ Write(c) \/ Stop(c) \/ Unlink(c)
           \/ UNCHANGED vars
  BY <1>1, <1>3 DEF Interrupt, Check, Clean, Clear, Probe, Open, Write, Stop,
                    Unlink, vars, history
<1>4. ASSUME NEW p \in Unused, NEW name \in Names, NEW background,
             Born(p, name, background), UNCHANGED <<told, strangers, struck>>,
             \A q \in Pids : q \in displaced' =>
                q \in displaced \/ (q \in Running /\ daemon[q].name # Center)
      PROVE  ProcessesMean'
  <2>1. p \notin told /\ p \notin strangers \cup struck /\ p \notin displaced
    BY DEF Unused, Running
  <2>2. /\ daemon'[p].name = name /\ daemon'[p].state = "booting"
        /\ \A q \in Pids : q # p => daemon'[q] = daemon[q]
    BY <1>4 DEF Born, Unused
  <2>3. p \notin Running
    BY DEF Unused, Running
  <2> QED
    BY <1>4, <2>1, <2>2, <2>3 DEF Running
<1>5. ASSUME NEW c \in Commands, Spawn(c) PROVE ProcessesMean'
  <2>1. cmd[c].name \in Names
    BY <1>5 DEF Spawn, CommandsMean, CommandMeans
  <2>2. \E p \in Unused : Born(p, cmd[c].name, TRUE)
    BY <1>5 DEF Spawn
  <2>3. UNCHANGED <<told, strangers, struck>>
    BY <1>5 DEF Spawn
  <2>4. \A q \in Pids : q \in displaced' =>
            q \in displaced \/ (q \in Running /\ daemon[q].name # Center)
    BY <1>5 DEF Spawn
  <2> QED
    BY <1>4, <2>1, <2>2, <2>3, <2>4
<1>6. ASSUME NEW n \in Names, StartForeground(n) PROVE ProcessesMean'
  BY <1>4, <1>6 DEF StartForeground, history
<1>7. ASSUME NEW c \in Commands, Kill(c) PROVE ProcessesMean'
  <2>1. CASE cmd[c].pid \in Running
    <3>1. Hit(cmd[c].pid) /\ cmd[c].pid \in Pids
      BY <1>7, <2>1 DEF Kill, Running
    <3>2. UNCHANGED <<displaced, strangers>> /\ struck' = struck \cup ({cmd[c].pid} \cap strangers)
      BY <1>7 DEF Kill
    <3>3. CASE Heeds(cmd[c].pid)
      BY <3>1, <3>2, <3>3 DEF Hit, Heeds
    <3>4. CASE ~Heeds(cmd[c].pid)
      <4>1. daemon' = [daemon EXCEPT ![cmd[c].pid].state = "gone"] /\ told' = told
        BY <3>1, <3>4 DEF Hit
      <4>2. cmd[c].pid \notin told /\ cmd[c].pid \notin strangers
        BY <2>1, <3>4, DaemonAssumption DEF Heeds, Running
      <4>3. struck' = struck
        BY <3>2, <4>2
      <4>4. \A q \in Pids :
               /\ daemon'[q].name = daemon[q].name
               /\ daemon'[q].state =
                     IF q = cmd[c].pid THEN "gone" ELSE daemon[q].state
        BY <3>1, <4>1
      <4> QED
        BY <2>1, <3>1, <3>2, <4>1, <4>2, <4>3, <4>4 DEF Running
    <3> QED
      BY <3>3, <3>4
  <2>2. CASE cmd[c].pid \notin Running
    BY <1>7, <2>2 DEF Kill
  <2> QED
    BY <2>1, <2>2
<1>8. ASSUME NEW p \in Pids, Proceed(p) PROVE ProcessesMean'
  BY <1>8, DaemonAssumption
     DEF Proceed, Bind, InstallHandlers, Started, StopEvent, Stopped, Becomes,
         history
<1>9. ASSUME NEW p \in Pids, Die(p) PROVE ProcessesMean'
  BY <1>9 DEF Die, Becomes, Running
<1>10. CASE Reboot
  BY <1>10 DEF Reboot, Running
<1>11. ASSUME NEW p \in Pids, ReusePid(p) PROVE ProcessesMean'
  BY <1>11 DEF ReusePid, history
<1>12. QED
  BY <1>2, <1>3, <1>5, <1>6, <1>7, <1>8, <1>9, <1>10, <1>11 DEF Next, Step, Called

-----------------------------------------------------------------------------
(* The files *)

(* A step leaves n alone: no background daemon n more, and who was reached *)
(* and runs has been reached.                                              *)
Keeps(n) == \A p \in Backgrounds(n)' : p \in Backgrounds(n) /\ (Reached(p) => Reached(p)')

LEMMA SameKeeps ==
    ASSUME UNCHANGED <<daemon, told, displaced>>, NEW n
    PROVE  Keeps(n)
  BY DEF Keeps, Backgrounds, Background, Running, Reached

LEMMA NamedStays ==
    ASSUME NEW n, Keeps(n), pidFile'[n] = pidFile[n], Named(n)
    PROVE  Named(n)'
  BY DEF Keeps, Named

LEMMA NamedAtStays ==
    ASSUME NEW n, Keeps(n), pidFile'[n] = pidFile[n],
           NEW c \in Commands, cmd'[c] = cmd[c], NamedAt(c, n)
    PROVE  NamedAt(c, n)'
<1>1. Named(n) => Named(n)'
  BY NamedStays
<1>2. Backgrounds(n) = {} => Backgrounds(n)' = {}
  BY DEF Keeps
<1> QED
  BY <1>1, <1>2 DEF NamedAt, Keeps

(* Nobody takes a center's file or tells it to stop. *)
LEMMA CentersAreNotReached ==
    ASSUME TypeParts, ProcessesMean, NEW p \in Backgrounds(Center)
    PROVE  ~Reached(p)
  BY DaemonAssumption DEF TypeParts, ProcessesMean, Backgrounds, Reached

(* A step of a command that is alone with its daemons. *)
LEMMA CommandNames ==
    ASSUME TypeParts, Meanings, NamedMeanwhile, OneCommand', disturbed \subseteq disturbed',
           NEW c \in Commands, \A d \in Commands : d # c => cmd'[d] = cmd[d],
           \A n \in Names \ disturbed' : n \notin cmd[c].about /\ n \notin cmd'[c].about
                => Keeps(n) /\ pidFile'[n] = pidFile[n],
           \A n \in Names \ disturbed' : n \in cmd'[c].about => NamedAt(c, n)',
           \A n \in Names \ disturbed' : n \in cmd[c].about /\ n \notin cmd'[c].about
                => Named(n)'
    PROVE  NamedMeanwhile'
<1> SUFFICES ASSUME NEW n \in Names \ disturbed'
             PROVE  /\ Calm(n)' => Named(n)'
                    /\ \A d \in Commands : n \in cmd'[d].about => NamedAt(d, n)'
  BY DEF NamedMeanwhile
<1>1. n \in Names \ disturbed
  OBVIOUS
<1>2. CASE n \in cmd'[c].about
  <2>1. \A d \in Commands : n \in cmd'[d].about => d = c
    BY <1>2 DEF OneCommand
  <2> QED
    BY <1>2, <2>1 DEF Calm
<1>3. CASE n \in cmd[c].about /\ n \notin cmd'[c].about
  <2>1. \A d \in Commands : n \notin cmd'[d].about
    BY <1>1, <1>3 DEF OneCommand, Meanings
  <2> QED
    BY <1>3, <2>1
<1>4. CASE n \notin cmd[c].about /\ n \notin cmd'[c].about
  <2>1. Keeps(n) /\ pidFile'[n] = pidFile[n]
    BY <1>4
  <2>2. Calm(n)' => Calm(n)
    BY <1>1, <1>4 DEF Calm
  <2>3. \A d \in Commands : n \in cmd'[d].about => cmd'[d] = cmd[d]
    BY <1>4
  <2> QED
    BY <1>1, <2>1, <2>2, <2>3, NamedStays, NamedAtStays DEF NamedMeanwhile
<1> QED
  BY <1>2, <1>3, <1>4

LEMMA CalledNames ==
    ASSUME TypeParts, Meanings, NamedMeanwhile, OneCommand', NEW c \in Commands, Called(c)
    PROVE  NamedMeanwhile'
<1>1. CallChanges(c)
  BY CalledIs
<1>2. \A n : Keeps(n)
  BY <1>1, SameKeeps DEF CallChanges
<1>3. cmd[c].about = {}
  BY <1>1 DEF CallChanges, Meanings, CommandsMean, CommandMeans
<1>4. ASSUME NEW n \in Names \ disturbed', n \in cmd'[c].about
      PROVE  NamedAt(c, n)'
  <2>1. Calm(n)
    BY <1>1, <1>4 DEF CallChanges, Calm
  <2>2. Named(n)
    BY <1>1, <1>4, <2>1 DEF NamedMeanwhile, CallChanges
  <2>3. Named(n)'
    BY <1>1, <1>2, <2>2, NamedStays DEF CallChanges
  <2>4. cmd'[c].at \in {"check", "clear", "stop"}
        /\ (cmd'[c].at = "clear" => n # Center)
    BY <1>4, CalledIs, DaemonAssumption
  <2> QED
    BY <2>3, <2>4 DEF NamedAt
<1> QED
  BY <1>1, <1>2, <1>3, <1>4, CommandNames DEF CallChanges

(* Daemons go on by themselves. *)
LEMMA DaemonsKeep ==
    ASSUME TypeParts, Meanings,
           \/ \E n \in Names : StartForeground(n)
           \/ \E p \in Pids : Proceed(p) \/ Die(p) \/ ReusePid(p)
           \/ UNCHANGED vars,
           NEW n
    PROVE  Keeps(n)
<1> USE DEF TypeParts, DaemonType, Keeps, Backgrounds, Background, Running, Reached
<1>1. ASSUME NEW m \in Names, StartForeground(m) PROVE Keeps(n)
  <2>1. PICK p \in Unused : Born(p, m, FALSE)
    BY <1>1 DEF StartForeground
  <2> QED
    BY <1>1, <2>1 DEF StartForeground, Born, Unused, history
<1>2. ASSUME NEW p \in Pids, Proceed(p) PROVE Keeps(n)
  BY <1>2 DEF Proceed, Bind, InstallHandlers, Started, StopEvent, Stopped, Becomes,
              history
<1>3. ASSUME NEW p \in Pids, Die(p) PROVE Keeps(n)
  BY <1>3 DEF Die, Becomes
<1>4. CASE UNCHANGED vars \/ \E p \in Pids : ReusePid(p)
  BY <1>4 DEF vars, ReusePid, history
<1> QED
  BY <1>1, <1>2, <1>3, <1>4

LEMMA DaemonsName ==
    ASSUME TypeParts, Meanings, NamedMeanwhile,
           \/ \E n \in Names : StartForeground(n)
           \/ \E p \in Pids : Proceed(p) \/ Die(p) \/ ReusePid(p)
           \/ UNCHANGED vars
    PROVE  NamedMeanwhile'
<1>1. UNCHANGED <<cmd, pidFile, disturbed>>
  BY DEF StartForeground, Proceed, Bind, InstallHandlers, Started, StopEvent,
         Stopped, Die, ReusePid, vars, history
<1>2. \A n : Keeps(n)
  BY DaemonsKeep
<1> QED
  BY <1>1, <1>2, NamedStays, NamedAtStays DEF NamedMeanwhile, Calm

LEMMA RebootNames ==
    ASSUME TypeParts, Meanings, Reboot
    PROVE  NamedMeanwhile'
<1>1. \A n : Backgrounds(n)' = {}
  BY DEF Reboot, Backgrounds, Background, Running
<1>2. \A c \in Commands : cmd'[c].about = {}
  BY DEF Reboot, Busy, Done, Meanings, CommandsMean, CommandMeans
<1> QED
  BY <1>1, <1>2 DEF NamedMeanwhile, Named

(* From the look at the center's file to the removal of a daemon's.        *)
LEMMA ChecksName ==
    ASSUME TypeParts, Meanings, NamedMeanwhile, OneCommand', NEW c \in Commands,
           Check(c) \/ Clean(c) \/ \E taken \in BOOLEAN : Probe(c, taken)
    PROVE  NamedMeanwhile'
<1>1. /\ UNCHANGED <<daemon, told, displaced, disturbed>>
      /\ \A n \in Names : n # Center => pidFile'[n] = pidFile[n]
  BY DEF Check, Clean, Probe, history, TypeParts
<1>2. \A n : Keeps(n)
  BY <1>1, SameKeeps
<1>3. cmd[c].about = {Center} /\ NamedMeanwhile
  BY DEF Check, Clean, Probe, Meanings, CommandsMean, CommandMeans
<1>4. \E at \in {"probe", "clean", "clear"} : Moves(c, at)
      \/ Ends(c)
  <2>1. \E at \in {"probe", "clean", "clear", "done"} : Goto(c, at)
    BY DEF Check, Clean, Probe
  <2> QED
    BY <2>1, GotoMoves DEF Places
<1>5. ASSUME Center \notin disturbed
      PROVE  NamedAt(c, Center)
  BY <1>3, <1>5 DEF NamedMeanwhile, Names
<1>6. CASE Check(c)
  <2>1. ASSUME Center \notin disturbed, Ends(c) PROVE Named(Center)'
    <3>1. cmd[c].at = "check" /\ UNCHANGED pidFile
      BY <1>6 DEF Check
    <3> QED
      BY <1>2, <1>5, <2>1, <3>1, NamedStays DEF NamedAt
  <2>2. ASSUME Center \notin disturbed, NEW at \in {"probe", "clean", "clear"},
               Moves(c, at)
        PROVE  NamedAt(c, Center)'
    <3>1. Named(Center) /\ at \in {"probe", "clean"} /\ cmd'[c].at = at
      <4>1. cmd[c].at = "check"
        BY <1>6 DEF Check
      <4>2. at # "clear"
        BY <1>6, <2>2, GotoMoves DEF Check, Moves, Ends, Places
      <4> QED
        BY <1>5, <2>2, <4>1, <4>2 DEF NamedAt, Moves
    <3>2. pidFile[Center] = None \/ ~(pidFile[Center] \in Pids /\ Alive(pidFile[Center]))
      BY <1>6, <2>2, GotoMoves DEF Check, Moves, Ends, Places
    <3>3. Backgrounds(Center) = {}
      BY <3>1, <3>2, CentersAreNotReached, DaemonAssumption
         DEF Named, Backgrounds, Background, Running, Alive, Meanings
    <3>4. Backgrounds(Center)' = {}
      BY <1>2, <3>3 DEF Keeps
    <3> QED
      BY <3>1, <3>4 DEF NamedAt
  <2> QED
    BY <1>1, <1>2, <1>3, <1>4, <2>1, <2>2, CommandNames DEF Moves, Ends
<1>7. CASE Clean(c) \/ \E taken \in BOOLEAN : Probe(c, taken)
  <2>1. cmd[c].at \in {"clean", "probe"}
    BY <1>7 DEF Clean, Probe
  <2>2. ASSUME Center \notin disturbed PROVE Backgrounds(Center)' = {}
    BY <1>2, <1>5, <2>1, <2>2 DEF NamedAt, Keeps
  <2>3. \A at \in {"probe", "clean", "clear"} : Moves(c, at) /\ Center \notin disturbed
            => NamedAt(c, Center)'
    BY <2>2 DEF NamedAt, Moves
  <2>4. Center \notin disturbed => Named(Center)'
    BY <2>2 DEF Named
  <2> QED
    BY <1>1, <1>2, <1>3, <1>4, <2>3, <2>4, CommandNames DEF Moves, Ends
<1> QED
  BY <1>6, <1>7

(* From the removal of the file to the new pid in it.                      *)
LEMMA StartsName ==
    ASSUME TypeParts, Meanings, NamedMeanwhile, OneCommand', NEW c \in Commands,
           Clear(c) \/ Spawn(c) \/ Open(c) \/ Write(c)
    PROVE  NamedMeanwhile'
<1>1. PICK n \in Names : cmd[c].name = n /\ cmd[c].about = {n}
  BY DEF Clear, Spawn, Open, Write, Meanings, CommandsMean, CommandMeans
<1>2. UNCHANGED disturbed /\ \A m \in Names : m # n => pidFile'[m] = pidFile[m]
  BY <1>1 DEF Clear, Spawn, Open, Write, history, TypeParts
<1>3. n \notin disturbed => NamedAt(c, n)
  BY <1>1 DEF NamedMeanwhile
<1>4. CASE Clear(c)
  <2>1. Moves(c, "spawn")
    BY <1>4, GotoMoves DEF Clear, Places
  <2>2. \A m : Keeps(m)
    BY <1>4, SameKeeps DEF Clear, history
  <2>3. n \notin disturbed /\ n = Center => Backgrounds(n)' = {}
    BY <1>3, <1>4, <2>2 DEF Clear, NamedAt, Keeps
  <2>4. n \notin disturbed => NamedAt(c, n)'
    BY <2>1, <2>3 DEF Moves, NamedAt
  <2> QED
    BY <1>1, <1>2, <2>1, <2>2, <2>4, CommandNames DEF Moves
<1>5. CASE Spawn(c)
  <2>1. PICK p \in Unused : /\ Born(p, n, TRUE)
                            /\ cmd' = [cmd EXCEPT ![c].at = "open", ![c].pid = p]
    BY <1>1, <1>5 DEF Spawn
  <2>2. /\ \A d \in Commands : d # c => cmd'[d] = cmd[d]
        /\ cmd'[c].at = "open" /\ cmd'[c].pid = p /\ cmd'[c].about = cmd[c].about
    BY <2>1 DEF TypeParts, CmdType
  <2>3. /\ p \in Pids /\ daemon'[p].name = n
        /\ \A q \in Pids : q # p => daemon'[q] = daemon[q]
    BY <2>1 DEF Born, Unused, TypeParts
  <2>4. /\ told' = told /\ pidFile' = pidFile
        /\ displaced' = displaced \cup {q \in Running : daemon[q].name = n /\ n # Center}
    BY <1>1, <1>5 DEF Spawn
  <2>5. \A m \in Names : m # n => Keeps(m)
    BY <2>3, <2>4 DEF Keeps, Backgrounds, Background, Running, Reached
  <2>6. \A q \in Backgrounds(n)' : q # p => q \in Backgrounds(n)
    BY <2>3 DEF Backgrounds, Background, Running
  <2>7. n \notin disturbed /\ n = Center => Backgrounds(n) = {}
    BY <1>3, <1>5 DEF Spawn, NamedAt
  <2>8. n # Center => \A q \in Backgrounds(n) : Reached(q)'
    BY <2>4 DEF Backgrounds, Background, Reached
  <2>9. n \notin disturbed => \A q \in Backgrounds(n)' : q = p \/ Reached(q)'
    BY <2>6, <2>7, <2>8
  <2>10. n \notin disturbed => NamedAt(c, n)'
    BY <2>2, <2>9 DEF NamedAt
  <2> QED
    BY <1>1, <1>2, <2>2, <2>4, <2>5, <2>10, CommandNames
<1>6. CASE Open(c)
  <2>1. Moves(c, "write") /\ cmd[c].at = "open"
    BY <1>6, GotoMoves DEF Open, Places
  <2>2. \A m : Keeps(m)
    BY <1>6, SameKeeps DEF Open, history
  <2>3. n \notin disturbed => NamedAt(c, n)'
    BY <1>3, <2>1, <2>2 DEF Moves, NamedAt, Keeps
  <2> QED
    BY <1>1, <1>2, <2>1, <2>2, <2>3, CommandNames DEF Moves
<1>7. CASE Write(c)
  <2>1. Ends(c) /\ cmd[c].at = "write"
    BY <1>7, GotoMoves DEF Write, Places
  <2>2. \A m : Keeps(m)
    BY <1>7, SameKeeps DEF Write, history
  <2>3. pidFile'[n] = cmd[c].pid
    BY <1>1, <1>7 DEF Write, TypeParts
  <2>4. n \notin disturbed => Named(n)'
    BY <1>3, <2>1, <2>2, <2>3 DEF NamedAt, Named, Keeps
  <2> QED
    BY <1>1, <1>2, <2>1, <2>2, <2>4, CommandNames DEF Ends
<1> QED
  BY <1>4, <1>5, <1>6, <1>7

(* A signal ends the process, or the process has been told.                *)
LEMMA HitKeeps ==
    ASSUME TypeParts, NEW p \in Running, Hit(p), UNCHANGED displaced, NEW n
    PROVE  /\ Keeps(n)
           /\ p \in Backgrounds(n)' => Reached(p)'
<1> USE DEF Keeps, Backgrounds, Background, Running, Reached, TypeParts, DaemonType
<1>1. CASE Heeds(p)
  BY <1>1 DEF Hit
<1>2. CASE ~Heeds(p)
  <2>1. told' = told /\ daemon' = [daemon EXCEPT ![p].state = "gone"]
    BY <1>2 DEF Hit
  <2> QED
    BY <2>1
<1> QED
  BY <1>1, <1>2

(* Every file a stop command reads, its signal, and the end of the file.   *)
LEMMA StopsName ==
    ASSUME TypeParts, Meanings, NamedMeanwhile, OneCommand', NEW c \in Commands,
           Stop(c) \/ Kill(c) \/ Unlink(c)
    PROVE  NamedMeanwhile'
<1>1. UNCHANGED <<disturbed, displaced>>
  BY DEF Stop, Kill, Unlink, history
<1>2. \A n \in Names \ disturbed : n \in cmd[c].about => NamedAt(c, n)
  BY DEF NamedMeanwhile
<1>3. CASE Stop(c)
  <2>1. cmd[c].at = "stop" /\ UNCHANGED <<pidFile, daemon, told>>
    BY <1>3 DEF Stop, history
  <2>2. \A n : Keeps(n)
    BY <1>1, <2>1, SameKeeps
  <2>3. \A n \in Names \ disturbed : n \in cmd[c].about => Named(n) /\ Named(n)'
    BY <1>2, <2>1, <2>2, NamedStays DEF NamedAt
  <2>4. CASE Goto(c, "done")
    BY <1>1, <2>1, <2>2, <2>3, <2>4, GotoMoves, CommandNames DEF Ends, Places
  <2>5. ASSUME NEW n \in cmd[c].left, pidFile[n] \notin {None, Empty},
               cmd' = [cmd EXCEPT ![c].at = "kill", ![c].name = n,
                                  ![c].pid = pidFile[n], ![c].left = @ \ {n}]
        PROVE  NamedMeanwhile'
    <3>1. /\ \A d \in Commands : d # c => cmd'[d] = cmd[d]
          /\ cmd'[c].at = "kill" /\ cmd'[c].pid = pidFile[n]
          /\ cmd'[c].name = n /\ cmd'[c].about = cmd[c].about
      BY <2>5 DEF TypeParts, CmdType
    <3>2. \A m \in Names \ disturbed : m \in cmd[c].about => NamedAt(c, m)'
      BY <2>1, <2>3, <3>1 DEF NamedAt
    <3> QED
      BY <1>1, <2>1, <2>2, <3>1, <3>2, CommandNames
  <2>6. ASSUME NEW n \in cmd[c].left, cmd' = [cmd EXCEPT ![c].left = @ \ {n}]
        PROVE  NamedMeanwhile'
    <3>1. /\ \A d \in Commands : d # c => cmd'[d] = cmd[d]
          /\ cmd'[c].at = "stop" /\ cmd'[c].about = cmd[c].about
      BY <2>1, <2>6 DEF TypeParts, CmdType
    <3>2. \A m \in Names \ disturbed : m \in cmd[c].about => NamedAt(c, m)'
      BY <2>3, <3>1 DEF NamedAt
    <3> QED
      BY <1>1, <2>1, <2>2, <3>1, <3>2, CommandNames
  <2> QED
    BY <1>3, <2>4, <2>5, <2>6 DEF Stop
<1>4. CASE Kill(c)
  <2>1. Moves(c, "wait") /\ cmd[c].at = "kill" /\ UNCHANGED pidFile
    BY <1>4, GotoMoves DEF Kill, Places
  <2>p. PICK p : p = cmd[c].pid
    OBVIOUS
  <2>2. \A n : Keeps(n) /\ (p \in Backgrounds(n)' => Reached(p)')
    <3>1. CASE p \in Running
      <4>1. Hit(p)
        BY <1>4, <2>p, <3>1 DEF Kill
      <4> QED
        BY <1>1, <3>1, <4>1, HitKeeps
    <3>2. CASE p \notin Running
      <4>1. UNCHANGED <<daemon, told>>
        BY <1>4, <2>p, <3>2 DEF Kill
      <4> QED
        BY <1>1, <3>2, <4>1, SameKeeps DEF Backgrounds, Background, Running
    <3> QED
      BY <3>1, <3>2
  <2>3. ASSUME NEW n \in Names \ disturbed, n \in cmd[c].about
        PROVE  NamedAt(c, n)'
    <3>1. Named(n) /\ (cmd[c].name = n => pidFile[n] = p)
      BY <1>2, <2>1, <2>p, <2>3 DEF NamedAt
    <3>2. Named(n)'
      BY <2>1, <2>2, <3>1, NamedStays
    <3>3. ASSUME cmd[c].name = n, NEW q \in Backgrounds(n)' PROVE Reached(q)'
      BY <2>2, <3>1, <3>3 DEF Named, Keeps
    <3> QED
      BY <2>1, <3>2, <3>3 DEF NamedAt, Moves
  <2> QED
    BY <1>1, <2>1, <2>2, <2>3, CommandNames DEF Moves
<1>5. CASE Unlink(c)
  <2>1. Moves(c, "stop") /\ cmd[c].at = "wait"
    BY <1>5, GotoMoves DEF Unlink, Places
  <2>2. \A n : Keeps(n)
    BY <1>5, SameKeeps DEF Unlink, history
  <2>3. \A n \in Names : n # cmd[c].name => pidFile'[n] = pidFile[n]
    BY <1>5 DEF Unlink, TypeParts
  <2>4. cmd[c].name \in cmd[c].about
    BY <2>1 DEF Meanings, CommandsMean, CommandMeans
  <2>5. ASSUME NEW n \in Names \ disturbed, n \in cmd[c].about
        PROVE  NamedAt(c, n)'
    <3>1. CASE cmd[c].name = n
      BY <1>2, <2>1, <2>2, <2>5, <3>1 DEF NamedAt, Named, Keeps, Moves
    <3>2. CASE cmd[c].name # n
      <4>1. Named(n)'
        BY <1>2, <2>1, <2>2, <2>3, <2>5, <3>2, NamedStays DEF NamedAt
      <4> QED
        BY <2>1, <4>1 DEF NamedAt, Moves
    <3> QED
      BY <3>1, <3>2
  <2> QED
    BY <1>1, <2>1, <2>2, <2>3, <2>4, <2>5, CommandNames DEF Moves
<1> QED
  BY <1>3, <1>4, <1>5

LEMMA InterruptNames ==
    ASSUME TypeParts, Meanings, NamedMeanwhile, OneCommand', NEW c \in Commands,
           Interrupt(c)
    PROVE  NamedMeanwhile'
<1>1. Ends(c) /\ disturbed' = disturbed \cup cmd[c].about /\ UNCHANGED pidFile
  BY GotoMoves DEF Interrupt, Places
<1>2. \A n : Keeps(n)
  BY SameKeeps DEF Interrupt
<1> QED
  BY <1>1, <1>2, CommandNames DEF Ends

LEMMA NamedStep ==
    ASSUME TypeParts, Meanings, NamedMeanwhile, [Next]_vars
    PROVE  NamedMeanwhile'
<1>1. OneCommand'
  BY OneCommandStep
<1> QED
  BY <1>1, CalledNames, ChecksName, StartsName, StopsName, InterruptNames,
     DaemonsName, RebootNames
     DEF Next, Step, Called

-----------------------------------------------------------------------------
(* Signals and strangers *)

(* Whoever a signal has reached was signalled before, or is just now: all  *)
(* other ends of a process are noted.                                      *)
LEMMA HitsHaveKill ==
    ASSUME TypeParts, Meanings, [Next]_vars, NEW p \in Pids, WasHit(p)'
    PROVE  \/ WasHit(p)
           \/ \E c \in Commands : Kill(c) /\ cmd[c].pid = p /\ p \in Running
<1> USE DEF TypeParts, DaemonType, WasHit
<1>1. CASE UNCHANGED <<daemon, told, ended>>
  BY <1>1
<1>2. ASSUME NEW c \in Commands, Called(c) PROVE WasHit(p)
  BY <1>1, <1>2, CalledIs DEF CallChanges
<1>3. CASE \/ \E c \in Commands :
                 \/ Interrupt(c) \/ Check(c) \/ Clean(c) \/ Clear(c)
                 \/ \E taken \in BOOLEAN : Probe(c, taken)
                 \/ Open(c) \/ Write(c) \/ Stop(c) \/ Unlink(c)
           \/ \E q \in Pids : ReusePid(q)
           \/ UNCHANGED vars
  BY <1>1, <1>3 DEF Interrupt, Check, Clean, Clear, Probe, Open, Write, Stop,
                    Unlink, ReusePid, vars, history
<1>4. ASSUME NEW q \in Unused, NEW name, NEW background,
             Born(q, name, background), UNCHANGED <<told, ended>>
      PROVE  WasHit(p)
  BY <1>4 DEF Born, Unused
<1>5. ASSUME NEW c \in Commands, Spawn(c) PROVE WasHit(p)
  <2>1. \E q \in Unused : Born(q, cmd[c].name, TRUE)
    BY <1>5 DEF Spawn
  <2> QED
    BY <1>4, <1>5, <2>1 DEF Spawn
<1>6. ASSUME NEW n \in Names, StartForeground(n) PROVE WasHit(p)
  <2>1. \E q \in Unused : Born(q, n, FALSE)
    BY <1>6 DEF StartForeground
  <2> QED
    BY <1>4, <1>6, <2>1 DEF StartForeground, history
<1>7. ASSUME NEW c \in Commands, Kill(c)
      PROVE  WasHit(p) \/ (cmd[c].pid = p /\ p \in Running)
  <2>1. PICK q : q = cmd[c].pid
    OBVIOUS
  <2>2. UNCHANGED ended
    BY <1>7 DEF Kill
  <2>3. CASE q \in Running /\ q # p
    <3>1. Hit(q)
      BY <1>7, <2>1, <2>3 DEF Kill
    <3>2. told' \subseteq told \cup {q}
      BY <3>1 DEF Hit
    <3>3. daemon'[p] = daemon[p]
      BY <2>3, <3>1 DEF Hit
    <3> QED
      BY <2>2, <2>3, <3>2, <3>3
  <2>4. CASE q \notin Running
    BY <1>7, <2>1, <2>2, <2>4 DEF Kill
  <2> QED
    BY <2>1, <2>3, <2>4
<1>8. ASSUME NEW q \in Pids, Proceed(q) PROVE WasHit(p)
  <2>1. CASE \E taken \in BOOLEAN : Bind(q, taken)
    BY <2>1 DEF Bind, Becomes
  <2>2. CASE InstallHandlers(q) \/ Started(q) \/ StopEvent(q)
    BY <2>2 DEF InstallHandlers, Started, StopEvent, Becomes, history
  <2>3. CASE Stopped(q)
    BY <2>3 DEF Stopped, Becomes, history, Meanings, ProcessesMean
  <2> QED
    BY <1>8, <2>1, <2>2, <2>3 DEF Proceed
<1>9. ASSUME NEW q \in Pids, Die(q) PROVE WasHit(p)
  BY <1>9 DEF Die, Becomes
<1>10. CASE Reboot
  BY <1>10 DEF Reboot, Running
<1>11. QED
  BY <1>2, <1>3, <1>5, <1>6, <1>7, <1>8, <1>9, <1>10 DEF Next, Step, Called

(* What was hit exists, and is nobody's new process. *)
LEMMA HitExists ==
    ASSUME TypeParts, NEW p \in Pids, WasHit(p)
    PROVE  daemon[p].state # "none"
  BY DEF TypeParts, WasHit, Running

(* A command that waits to remove a file goes on to wait, or removes it.   *)
LEMMA WaitersStay ==
    ASSUME TypeParts, Meanings, [Next]_vars, NEW c \in Commands, cmd[c].at = "wait",
           cmd[c].name \notin disturbed'
    PROVE  cmd'[c] = cmd[c] \/ pidFile'[cmd[c].name] = None
<1>1. cmd[c].name \in cmd[c].about /\ cmd[c].name \in Names
  BY DEF Meanings, CommandsMean, CommandMeans, TypeParts, CmdType
<1>2. ASSUME NEW d \in Commands, Called(d) PROVE cmd'[c] = cmd[c]
  BY <1>2, CalledIs DEF CallChanges
<1>3. ASSUME NEW d \in Commands, Step(d), d # c PROVE cmd'[c] = cmd[c]
  <2>1. ASSUME NEW at \in Places, Goto(d, at) PROVE cmd'[c] = cmd[c]
    BY <1>3, <2>1, GotoIs DEF TypeParts
  <2>2. CASE Spawn(d) \/ Stop(d)
    <3>1. CASE Goto(d, "done")
      BY <2>1, <3>1 DEF Places
    <3> QED
      BY <1>3, <2>2, <3>1 DEF Spawn, Stop, TypeParts, CmdType
  <2>3. CASE ~(Spawn(d) \/ Stop(d))
    <3>1. \E at \in Places : Goto(d, at)
      BY <1>3, <2>3 DEF Step, Check, Clean, Probe, Clear, Open, Write, Kill,
                        Unlink, Places
    <3> QED
      BY <2>1, <3>1
  <2> QED
    BY <2>2, <2>3
<1>4. CASE Step(c)
  <2>1. Unlink(c)
    BY <1>4 DEF Step, Check, Clean, Probe, Clear, Spawn, Open, Write, Stop, Kill
  <2> QED
    BY <1>1, <2>1 DEF Unlink, TypeParts
<1>5. ASSUME NEW d \in Commands, Interrupt(d) PROVE cmd'[c] = cmd[c]
  <2>1. d # c
    BY <1>1, <1>5 DEF Interrupt
  <2> QED
    BY <1>5, <2>1, GotoIs DEF Interrupt, Places, TypeParts
<1>6. CASE Reboot
  BY <1>1, <1>6 DEF Reboot
<1>7. CASE \/ \E n \in Names : StartForeground(n)
           \/ \E p \in Pids : Proceed(p) \/ Die(p) \/ ReusePid(p)
           \/ UNCHANGED vars
  BY <1>7 DEF StartForeground, Proceed, Bind, InstallHandlers, Started, StopEvent,
              Stopped, Die, ReusePid, vars
<1>8. QED
  BY <1>2, <1>3, <1>4, <1>5, <1>6, <1>7 DEF Next, Called

(* A pid gets into a file from a command that writes it,                   *)
LEMMA PidsAreWritten ==
    ASSUME TypeParts, Meanings, [Next]_vars, NEW n \in Names, NEW p \in Pids,
           pidFile'[n] = p
    PROVE  \/ pidFile[n] = p
           \/ \E c \in Commands : cmd[c].at = "write" /\ cmd[c].pid = p
<1> USE DEF TypeParts
<1>1. ASSUME NEW c \in Commands, Called(c) PROVE pidFile'[n] = pidFile[n]
  BY <1>1, CalledIs DEF CallChanges
<1>2. ASSUME NEW c \in Commands, Clean(c) \/ Clear(c) \/ Open(c) \/ Unlink(c)
      PROVE  pidFile'[n] = pidFile[n]
  BY <1>2, DaemonAssumption DEF Clean, Clear, Open, Unlink
<1>3. ASSUME NEW c \in Commands, Write(c)
      PROVE  pidFile'[n] = pidFile[n] \/ (cmd[c].at = "write" /\ cmd[c].pid = p)
  <2>1. /\ cmd[c].at = "write"
        /\ pidFile' = [pidFile EXCEPT ![cmd[c].name] = cmd[c].pid]
    BY <1>3 DEF Write
  <2>2. CASE cmd[c].name = n
    BY <2>1, <2>2
  <2>3. CASE cmd[c].name # n
    <3>1. n \in DOMAIN pidFile
      BY DEF TypeParts
    <3> QED
      BY <2>1, <2>3, <3>1
  <2> QED
    BY <2>2, <2>3
<1>4. CASE \/ \E c \in Commands :
                 \/ Interrupt(c) \/ Check(c) \/ Spawn(c)
                 \/ \E taken \in BOOLEAN : Probe(c, taken)
                 \/ Stop(c) \/ Kill(c)
           \/ \E m \in Names : StartForeground(m)
           \/ \E q \in Pids : Proceed(q) \/ Die(q) \/ ReusePid(q)
           \/ Reboot \/ UNCHANGED vars
  BY <1>4 DEF Interrupt, Check, Spawn, Probe, Stop, Kill, StartForeground, Proceed,
              Bind, InstallHandlers, Started, StopEvent, Stopped, Die, ReusePid,
              Reboot, vars
<1>5. QED
  BY <1>1, <1>2, <1>3, <1>4 DEF Next, Step, Called

(* and to a command from the process it spawned or the file it read.       *)
LEMMA PidsAreTaken ==
    ASSUME TypeParts, Meanings, [Next]_vars, NEW c \in Commands, NEW p \in Pids,
           cmd'[c].at \in {"open", "write", "kill"}, cmd'[c].pid = p
    PROVE  \/ cmd[c].at \in {"open", "write", "kill"} /\ cmd[c].pid = p
           \/ daemon[p].state = "none"
           \/ cmd[c].at = "stop" /\ \E n \in cmd[c].left : pidFile[n] = p
<1> DEFINE Taken == \/ cmd[c].at \in {"open", "write", "kill"} /\ cmd[c].pid = p
                    \/ daemon[p].state = "none"
                    \/ cmd[c].at = "stop" /\ \E n \in cmd[c].left : pidFile[n] = p
<1>1. CASE cmd'[c] = cmd[c]
  BY <1>1
<1>2. ASSUME NEW d \in Commands, NEW at \in Places, Goto(d, at),
             at \in {"open", "kill"} => FALSE,
             at = "write" => cmd[d].at = "open"
      PROVE  Taken
  BY <1>1, <1>2, GotoIs DEF TypeParts
<1>3. ASSUME NEW d \in Commands,
             \/ Check(d) \/ Clean(d) \/ Clear(d) \/ Open(d) \/ Write(d)
             \/ Kill(d) \/ Unlink(d) \/ Interrupt(d)
             \/ \E taken \in BOOLEAN : Probe(d, taken)
      PROVE  Taken
  <2>1. \E at \in Places : /\ Goto(d, at)
                           /\ at \notin {"open", "kill"}
                           /\ at = "write" => cmd[d].at = "open"
    BY <1>3 DEF Check, Clean, Clear, Open, Write, Kill, Unlink, Interrupt, Probe,
                Places
  <2> QED
    BY <1>2, <2>1
<1>4. ASSUME NEW d \in Commands, Called(d) PROVE Taken
  BY <1>1, <1>4, CalledIs DEF CallChanges
<1>5. ASSUME NEW d \in Commands, Spawn(d) PROVE Taken
  <2>1. PICK q \in Unused : cmd' = [cmd EXCEPT ![d].at = "open", ![d].pid = q]
    BY <1>5 DEF Spawn
  <2> QED
    BY <1>1, <2>1 DEF Unused, TypeParts, CmdType
<1>6. ASSUME NEW d \in Commands, Stop(d) PROVE Taken
  <2>1. CASE Goto(d, "done")
    BY <1>2, <2>1 DEF Places
  <2>2. ASSUME NEW n \in cmd[d].left,
               cmd' = [cmd EXCEPT ![d].at = "kill", ![d].name = n,
                                  ![d].pid = pidFile[n], ![d].left = @ \ {n}]
        PROVE  Taken
    <3>1. cmd'[d].pid = pidFile[n] /\ (d # c => cmd'[c] = cmd[c])
      BY <2>2 DEF TypeParts, CmdType
    <3>2. cmd[d].at = "stop"
      BY <1>6 DEF Stop
    <3> QED
      BY <1>1, <2>2, <3>1, <3>2
  <2>3. ASSUME NEW n \in cmd[d].left, cmd' = [cmd EXCEPT ![d].left = @ \ {n}]
        PROVE  Taken
    <3>1. cmd[d].at = "stop"
      BY <1>6 DEF Stop
    <3>2. cmd'[d].at = "stop" /\ (d # c => cmd'[c] = cmd[c])
      BY <2>3, <3>1 DEF TypeParts, CmdType
    <3> QED
      BY <1>1, <3>2
  <2> QED
    BY <1>6, <2>1, <2>2, <2>3 DEF Stop
<1>7. CASE Reboot
  BY <1>1, <1>7 DEF Reboot, Done
<1>8. CASE \/ \E n \in Names : StartForeground(n)
           \/ \E q \in Pids : Proceed(q) \/ Die(q) \/ ReusePid(q)
           \/ UNCHANGED vars
  BY <1>1, <1>8 DEF StartForeground, Proceed, Bind, InstallHandlers, Started,
                    StopEvent, Stopped, Die, ReusePid, vars
<1>9. QED
  BY <1>3, <1>4, <1>5, <1>6, <1>7, <1>8 DEF Next, Step, Called

(* What was hit stays so, and the command that hit it goes on.             *)
LEMMA EarlierHits ==
    ASSUME TypeParts, Meanings, [Next]_vars, NEW p \in Pids, WasHit(p),
           daemon[p].name \in Names \ disturbed', disturbed \subseteq disturbed',
           HitFollowed(p)
    PROVE  HitFollowed(p)'
<1>1. ASSUME NEW n \in Names, pidFile'[n] = p
      PROVE  \E c \in Commands :
                cmd'[c].at = "wait" /\ cmd'[c].name = n /\ cmd'[c].pid = p
  <2>1. pidFile[n] = p
    BY <1>1, PidsAreWritten DEF HitFollowed
  <2>2. PICK c \in Commands : cmd[c].at = "wait" /\ cmd[c].name = n /\ cmd[c].pid = p
    BY <2>1 DEF HitFollowed
  <2>3. n = daemon[p].name
    BY <2>1 DEF Meanings, FilesMean
  <2>4. cmd'[c] = cmd[c]
    BY <1>1, <2>2, <2>3, WaitersStay, DaemonAssumption
  <2> QED
    BY <2>2, <2>4
<1>2. ASSUME NEW c \in Commands, cmd'[c].at \in {"open", "write", "kill"},
             cmd'[c].pid = p
      PROVE  FALSE
  <2>1. cmd[c].at = "stop" /\ \E n \in cmd[c].left : pidFile[n] = p
    BY <1>2, PidsAreTaken, HitExists DEF HitFollowed
  <2>2. PICK n \in cmd[c].left : pidFile[n] = p
    BY <2>1
  <2>3. n \in cmd[c].about /\ n \in Names
    BY <2>1 DEF Meanings, CommandsMean, CommandMeans, TypeParts, CmdType
  <2>4. PICK d \in Commands : cmd[d].at = "wait" /\ cmd[d].name = n
    BY <2>2, <2>3 DEF HitFollowed
  <2>5. n \in cmd[d].about
    BY <2>4 DEF Meanings, CommandsMean, CommandMeans
  <2>6. n \notin disturbed
    BY <2>2, <2>3 DEF Meanings, FilesMean
  <2> QED
    BY <2>1, <2>3, <2>4, <2>5, <2>6 DEF Meanings, OneCommand
<1> QED
  BY <1>1, <1>2 DEF HitFollowed

(* The command that hits a process is the one about it, on its way to      *)
(* remove the file.                                                        *)
LEMMA NewHits ==
    ASSUME TypeParts, Meanings, NEW c \in Commands, Kill(c), NEW p \in Pids,
           cmd[c].pid = p, daemon[p].name \in Names \ disturbed
    PROVE  HitFollowed(p)'
<1>1. Moves(c, "wait") /\ cmd[c].at = "kill" /\ UNCHANGED pidFile
  BY GotoMoves DEF Kill, Places
<1>2. daemon[p].name = cmd[c].name /\ cmd[c].name \in cmd[c].about
  BY <1>1 DEF Meanings, CommandsMean, CommandMeans
<1>3. ASSUME NEW n \in Names, pidFile'[n] = p PROVE cmd'[c].name = n
  BY <1>1, <1>2, <1>3 DEF Moves, Meanings, FilesMean
<1>4. ASSUME NEW d \in Commands, cmd'[d].at \in {"open", "write", "kill"},
             cmd'[d].pid = p
      PROVE  FALSE
  <2>1. d # c /\ cmd'[d] = cmd[d]
    BY <1>1, <1>4 DEF Moves
  <2>2. cmd[d].name = daemon[p].name /\ cmd[d].name \in cmd[d].about
    BY <1>4, <2>1 DEF Meanings, CommandsMean, CommandMeans
  <2> QED
    BY <1>2, <2>1, <2>2 DEF Meanings, OneCommand
<1> QED
  BY <1>1, <1>3, <1>4 DEF HitFollowed, Moves

LEMMA HitsStep ==
    ASSUME TypeParts, Meanings, HitsAreFollowed, [Next]_vars
    PROVE  HitsAreFollowed'
<1> SUFFICES ASSUME NEW p \in Pids, WasHit(p)',
                    daemon'[p].name \in Names \ disturbed'
             PROVE  HitFollowed(p)'
  BY DEF HitsAreFollowed
<1>1. disturbed \subseteq disturbed'
  BY OneCommandStep
<1>2. CASE WasHit(p)
  <2>1. daemon'[p].name = daemon[p].name
    BY <1>2, HitExists, ProcessesGoOn
  <2> QED
    BY <1>1, <1>2, <2>1, EarlierHits DEF HitsAreFollowed
<1>3. ASSUME NEW c \in Commands, Kill(c), cmd[c].pid = p, p \in Running
      PROVE  HitFollowed(p)'
  <2>1. daemon'[p].name = daemon[p].name
    BY <1>3, ProcessesGoOn DEF Running
  <2> QED
    BY <1>1, <1>3, <2>1, NewHits
<1> QED
  BY <1>2, <1>3, HitsHaveKill

(* A stop command signals another program only by the pid of a daemon that *)
(* is gone; had a signal ended it, its pid would be in no command's hands. *)
LEMMA StrangersStep ==
    ASSUME TypeParts, Meanings, HitsAreFollowed, StrangersAreSpared, [Next]_vars
    PROVE  StrangersAreSpared'
<1> SUFFICES ASSUME NEW p \in struck'
             PROVE  daemon'[p].name \in disturbed' \/ p \in ended'
  BY DEF StrangersAreSpared
<1>1. disturbed \subseteq disturbed'
  BY OneCommandStep
<1>2. ended \subseteq ended'
  <2>1. ASSUME NEW c \in Commands, Called(c) PROVE ended' = ended
    BY <2>1, CalledIs DEF CallChanges
  <2> QED
    BY <2>1
       DEF Next, Called, Step, Interrupt, Check, Clean, Probe, Clear, Spawn, Open,
           Write, Stop, Kill, Unlink, StartForeground, Proceed, Bind,
           InstallHandlers, Started, StopEvent, Stopped, Die, ReusePid, Reboot,
           vars, history
<1>3. \/ p \in struck
      \/ \E c \in Commands : Kill(c) /\ cmd[c].pid = p /\ p \in strangers
  <2>1. ASSUME NEW c \in Commands, Called(c) PROVE struck' = struck
    BY <2>1, CalledIs DEF CallChanges
  <2> QED
    BY <2>1
       DEF Next, Called, Step, Interrupt, Check, Clean, Probe, Clear, Spawn, Open,
           Write, Stop, Kill, Unlink, StartForeground, Proceed, Bind,
           InstallHandlers, Started, StopEvent, Stopped, Die, ReusePid, Reboot,
           vars, history
<1>4. p \in Pids /\ daemon[p].state = "gone"
  BY <1>3 DEF TypeParts, Meanings, ProcessesMean
<1>5. daemon'[p].name = daemon[p].name /\ daemon[p].name \in Names
  BY <1>4, ProcessesGoOn DEF Meanings, ProcessesMean
<1>6. CASE p \in struck
  BY <1>1, <1>2, <1>5, <1>6 DEF StrangersAreSpared
<1>7. ASSUME NEW c \in Commands, Kill(c), cmd[c].pid = p, p \notin ended,
             daemon[p].name \notin disturbed
      PROVE  FALSE
  BY <1>4, <1>5, <1>7 DEF WasHit, HitsAreFollowed, HitFollowed, Kill
<1> QED
  BY <1>1, <1>2, <1>3, <1>5, <1>6, <1>7

-----------------------------------------------------------------------------

LEMMA InvInit == Init => DaemonInv
<1> SUFFICES ASSUME Init PROVE DaemonInv
  OBVIOUS
<1>1. \A p \in Pids : daemon[p].state = "none" /\ p \notin Running
  BY DEF Init, Running
<1>2. \A c \in Commands : cmd[c].at = "idle" /\ cmd[c].about = {}
  BY DEF Init, Done
<1>3. told = {} /\ struck = {} /\ strangers = {} /\ displaced = {}
      /\ \A n \in Names : pidFile[n] = None
  BY DEF Init
<1>4. Meanings
  BY <1>1, <1>2, <1>3, DaemonAssumption
     DEF Meanings, CommandsMean, CommandMeans, FilesMean, ProcessesMean, OneCommand
<1>5. NamedMeanwhile
  BY <1>1, <1>2 DEF NamedMeanwhile, Named, Backgrounds, Background
<1>6. HitsAreFollowed
  BY <1>1, <1>3 DEF HitsAreFollowed, WasHit
<1> QED
  BY <1>3, <1>4, <1>5, <1>6, TypeInit DEF DaemonInv, StrangersAreSpared

LEMMA InvStep == DaemonInv /\ [Next]_vars => DaemonInv'
<1> SUFFICES ASSUME DaemonInv, [Next]_vars PROVE DaemonInv'
  OBVIOUS
<1>1. TypeParts /\ Meanings
  BY TypePartsAre DEF DaemonInv
<1>2. TypeParts'
  BY <1>1, TypeStep
<1>3. TypeOK'
  BY <1>2 DEF TypeOK, TypeParts, CmdType, DaemonType
<1>4. Meanings'
  BY <1>1, CommandsMeanStep, FilesMeanStep, ProcessesMeanStep, OneCommandStep
     DEF Meanings
<1> QED
  BY <1>1, <1>3, <1>4, NamedStep, HitsStep, StrangersStep DEF DaemonInv

(* The type invariant. *)
THEOREM TypeCorrect == Spec => []TypeOK
<1>1. DaemonInv => TypeOK
  BY DEF DaemonInv
<1> QED
  BY <1>1, InvInit, InvStep, PTL DEF Spec

(* stop-center reaches the background center that runs, unless two         *)
(* commands about the center overlapped or one was cut short: _daemonize   *)
(* and _stop leave no center without its file.                             *)
THEOREM CentersAreNamed == Spec => []CenterIsNamed
<1>1. DaemonInv => CenterIsNamed
  <2> SUFFICES ASSUME DaemonInv, Calm(Center), NEW p \in Pids, Background(p),
                      daemon[p].name = Center
               PROVE  pidFile[Center] = p
    BY DEF CenterIsNamed
  <2>1. Named(Center)
    BY DEF DaemonInv, NamedMeanwhile, Calm, Names
  <2>2. p \in Backgrounds(Center)
    BY DEF Backgrounds
  <2> QED
    BY <2>1, <2>2, CentersAreNotReached, TypePartsAre DEF DaemonInv, Meanings, Named
<1> QED
  BY <1>1, InvInit, InvStep, PTL DEF Spec

(* An agent that runs in the background and that its file does not name    *)
(* has been told to stop, or lost the file to a later start-agent.         *)
THEOREM LostAgentsHaveCauses == Spec => []LostAgentHasCause
<1>1. DaemonInv => LostAgentHasCause
  BY DEF DaemonInv, NamedMeanwhile, Calm, Names, Named, Backgrounds, Reached,
         LostAgentHasCause
<1> QED
  BY <1>1, InvInit, InvStep, PTL DEF Spec

(* A program that got a daemon's pid is signalled by a stop command only   *)
(* if the daemon had ended without one and so had left its file.           *)
THEOREM StrangersAreSafe == Spec => []StrangersAreSpared
<1>1. DaemonInv => StrangersAreSpared
  BY DEF DaemonInv
<1> QED
  BY <1>1, InvInit, InvStep, PTL DEF Spec

=============================================================================
