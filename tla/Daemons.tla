------------------------------- MODULE Daemons -------------------------------
(***************************************************************************)
(* Daemons of one machine and the commands that start and stop them        *)
(* (cli/main.py).                                                          *)
(*                                                                         *)
(* A start command spawns a process and writes its pid to a file named     *)
(* after the daemon; a stop command signals the process the file names,    *)
(* waits three seconds and removes the file.  Commands and daemons run     *)
(* concurrently and share only the files, the center's port and signals.   *)
(* Only start-center looks whether its daemon is there already.            *)
(*                                                                         *)
(* Abstractions.  The three seconds may be over at any moment.  A file is  *)
(* looked for and read in one step, and its pid probed with it; it is      *)
(* opened and written in two.  The machine does not reuse a pid for a      *)
(* daemon, only for another program.  The configuration the commands load  *)
(* is in CommandLine.                                                      *)
(***************************************************************************)
EXTENDS Naturals, FiniteSets

CONSTANTS
    None,
    Empty,          \* the contents of a file that is open for writing
    Commands,       \* invocations (bound)
    Pids,           \* processes spawned in a run (bound)
    Agents,         \* agent ids that are started on the machine
    Center          \* the name of the center's pid file

ASSUME DaemonAssumption ==
    /\ Center \notin Agents
    /\ None \notin Pids /\ Empty \notin Pids
    /\ None # Empty

Names == Agents \cup {Center}

VARIABLES
    cmd,            \* the commands: where each is, and the daemon it is about
    daemon,         \* the processes
    told,           \* the agents whose stop_event is set
    pidFile,        \* ~/.vimin/<name>.pid
    port,           \* the center that listens on the port
    strangers,      \* pids another program has now
    struck,         \* history: strangers that got a stop command's signal
    ended,          \* history: daemons that ended without one
    displaced,      \* history: agents a later start-agent took the file from
    disturbed       \* history: daemons two commands were about at once, or one
                    \* that was cut short

history == <<struck, ended, displaced, disturbed>>
vars == <<cmd, daemon, told, pidFile, port, strangers, history>>

States == {"none", "booting", "starting", "serving", "stopping", "gone"}
Running == {p \in Pids : daemon[p].state \notin {"none", "gone"}}
Alive(p) == p \in Running \cup strangers

Busy(c) == cmd[c].at \notin {"idle", "done"}

-----------------------------------------------------------------------------
(* Commands                                                                *)

Done == [at |-> "done", about |-> {}, name |-> None, pid |-> None, left |-> {}]

Goto(c, at) ==
    cmd' = [cmd EXCEPT ![c] = IF at = "done" THEN Done ELSE [@ EXCEPT !.at = at]]

(* A command is called: start-center, start-agent (with the id of the      *)
(* configuration file), stop-center, or stop-agent for every file it finds.*)
(* Invocations are alike, so it is the next one.                           *)
Call(c, at, about, name, left) ==
    /\ cmd[c].at = "idle"
    /\ c = CHOOSE d \in Commands : cmd[d].at = "idle"
    /\ cmd' = [cmd EXCEPT ![c] = [at |-> at, about |-> about, name |-> name,
                                  pid |-> None, left |-> left]]
    /\ disturbed' = disturbed \cup (about \cap UNION {cmd[d].about : d \in Commands})
    /\ UNCHANGED <<daemon, told, pidFile, port, strangers, struck, ended, displaced>>

StartCenter(c) == Call(c, "check", {Center}, Center, {})
StartAgent(c, a) == Call(c, "clear", {a}, a, {})
StopCenter(c) == Call(c, "stop", {Center}, None, {Center})
StopAgent(c) == Call(c, "stop", Agents, None, {a \in Agents : pidFile[a] # None})

(* Faulty: looks at the port only. *)
CheckPort(c) ==
    /\ cmd[c].at = "check"
    /\ Goto(c, "probe")
    /\ UNCHANGED <<daemon, told, pidFile, port, strangers, history>>

(* _check_already_running, the file: a live process refuses the start; what*)
(* is no pid, or no longer one, is removed.                                *)
Check(c) ==
    /\ cmd[c].at = "check"
    /\ Goto(c, CASE pidFile[Center] = None -> "probe"
                 [] pidFile[Center] \in Pids /\ Alive(pidFile[Center]) -> "done"
                 [] OTHER -> "clean")
    /\ UNCHANGED <<daemon, told, pidFile, port, strangers, history>>

Clean(c) ==
    /\ cmd[c].at = "clean"
    /\ pidFile' = [pidFile EXCEPT ![Center] = None]
    /\ Goto(c, "probe")
    /\ UNCHANGED <<daemon, told, port, strangers, history>>

(* _check_already_running, the port, which another program may have, too.  *)
Probe(c, taken) ==
    /\ cmd[c].at = "probe"
    /\ Goto(c, IF port # None \/ taken THEN "done" ELSE "clear")
    /\ UNCHANGED <<daemon, told, pidFile, port, strangers, history>>

(* _daemonize removes the file, spawns the daemon and writes its pid.      *)
Clear(c) ==
    /\ cmd[c].at = "clear"
    /\ pidFile' = [pidFile EXCEPT ![cmd[c].name] = None]
    /\ Goto(c, "spawn")
    /\ UNCHANGED <<daemon, told, port, strangers, history>>

Unused == {p \in Pids : daemon[p].state = "none"}

Born(p, name, background) ==
    daemon' = [daemon EXCEPT ![p] = [name |-> name, background |-> background,
                                     state |-> "booting"]]

Spawn(c) ==
    /\ cmd[c].at = "spawn"
    /\ Unused # {}
    /\ LET p == CHOOSE p \in Unused : TRUE
       IN  /\ Born(p, cmd[c].name, TRUE)
           /\ cmd' = [cmd EXCEPT ![c].at = "open", ![c].pid = p]
    /\ displaced' = displaced \cup
            {p \in Running : daemon[p].name = cmd[c].name /\ cmd[c].name # Center}
    /\ UNCHANGED <<told, pidFile, port, strangers, struck, ended, disturbed>>

Open(c) ==
    /\ cmd[c].at = "open"
    /\ pidFile' = [pidFile EXCEPT ![cmd[c].name] = Empty]
    /\ Goto(c, "write")
    /\ UNCHANGED <<daemon, told, port, strangers, history>>

Write(c) ==
    /\ cmd[c].at = "write"
    /\ pidFile' = [pidFile EXCEPT ![cmd[c].name] = cmd[c].pid]
    /\ Goto(c, "done")
    /\ UNCHANGED <<daemon, told, port, strangers, history>>

(* _stop, for one file after the other: one that is gone is passed over, a *)
(* half-written one ends the command with an error.                        *)
Stop(c) ==
    /\ cmd[c].at = "stop"
    /\ IF cmd[c].left = {} THEN Goto(c, "done")
       ELSE \E n \in cmd[c].left :
                CASE pidFile[n] = None ->
                        cmd' = [cmd EXCEPT ![c].left = @ \ {n}]
                  [] pidFile[n] = Empty -> Goto(c, "done")
                  [] OTHER ->
                        cmd' = [cmd EXCEPT ![c].at = "kill", ![c].name = n,
                                           ![c].pid = pidFile[n], ![c].left = @ \ {n}]
    /\ UNCHANGED <<daemon, told, pidFile, port, strangers, history>>

(* SIGTERM ends a center, and an agent that has no handler for it yet.     *)
Heeds(p) == daemon[p].name # Center /\ daemon[p].state # "booting"

(* Faulty: a process that is booting does not notice. *)
HitWhenServing(p) ==
    /\ told' = IF Heeds(p) THEN told \cup {p} ELSE told
    /\ daemon' = IF daemon[p].name = Center THEN [daemon EXCEPT ![p].state = "gone"]
                                            ELSE daemon
    /\ port' = IF port = p THEN None ELSE port

Hit(p) ==
    /\ told' = IF Heeds(p) THEN told \cup {p} ELSE told
    /\ daemon' = IF Heeds(p) THEN daemon ELSE [daemon EXCEPT ![p].state = "gone"]
    /\ port' = IF port = p THEN None ELSE port

Kill(c) ==
    LET p == cmd[c].pid
    IN  /\ cmd[c].at = "kill"
        /\ Goto(c, "wait")
        /\ IF p \in Running THEN Hit(p) ELSE UNCHANGED <<told, daemon, port>>
        /\ struck' = struck \cup ({p} \cap strangers)
        /\ UNCHANGED <<pidFile, strangers, ended, displaced, disturbed>>

(* Faulty: leaves the file. *)
UnlinkNothing(c) ==
    /\ cmd[c].at = "wait"
    /\ Goto(c, "stop")
    /\ UNCHANGED <<daemon, told, pidFile, port, strangers, history>>

(* The process is gone, or the three seconds are over.                     *)
Unlink(c) ==
    /\ cmd[c].at = "wait"
    /\ pidFile' = [pidFile EXCEPT ![cmd[c].name] = None]
    /\ Goto(c, "stop")
    /\ UNCHANGED <<daemon, told, port, strangers, history>>

(* The user interrupts a command. *)
Interrupt(c) ==
    /\ Busy(c)
    /\ Goto(c, "done")
    /\ disturbed' = disturbed \cup cmd[c].about
    /\ UNCHANGED <<daemon, told, pidFile, port, strangers, struck, ended, displaced>>

-----------------------------------------------------------------------------
(* Daemons                                                                 *)

Becomes(p, state) == daemon' = [daemon EXCEPT ![p].state = state]

(* A start command with --foreground is the daemon itself, without a file. *)
StartForeground(name) ==
    /\ Unused # {}
    /\ Born(CHOOSE p \in Unused : TRUE, name, FALSE)
    /\ UNCHANGED <<cmd, told, pidFile, port, strangers, history>>

(* The center binds its port, or ends when it is taken.                    *)
Bind(p, taken) ==
    /\ daemon[p].state = "booting" /\ daemon[p].name = Center
    /\ IF port = None /\ ~taken
       THEN port' = p /\ Becomes(p, "serving") /\ UNCHANGED ended
       ELSE Becomes(p, "gone") /\ ended' = ended \cup {p} /\ UNCHANGED port
    /\ UNCHANGED <<cmd, told, pidFile, strangers, struck, displaced, disturbed>>

(* _run of start-agent: the handlers, agent.start(), then the stop_event.  *)
InstallHandlers(p) ==
    /\ daemon[p].state = "booting" /\ daemon[p].name # Center
    /\ Becomes(p, "starting")
    /\ UNCHANGED <<cmd, told, pidFile, port, strangers, history>>

(* Faulty: forgets what it was told while it started. *)
StartedAnew(p) ==
    /\ daemon[p].state = "starting"
    /\ Becomes(p, "serving")
    /\ told' = told \ {p}
    /\ UNCHANGED <<cmd, pidFile, port, strangers, history>>

Started(p) ==
    /\ daemon[p].state = "starting"
    /\ Becomes(p, "serving")
    /\ UNCHANGED <<cmd, told, pidFile, port, strangers, history>>

StopEvent(p) ==
    /\ daemon[p].state = "serving" /\ p \in told
    /\ Becomes(p, "stopping")
    /\ UNCHANGED <<cmd, told, pidFile, port, strangers, history>>

Stopped(p) ==
    /\ daemon[p].state = "stopping"
    /\ Becomes(p, "gone")
    /\ told' = told \ {p}
    /\ UNCHANGED <<cmd, pidFile, port, strangers, history>>

(* A daemon ends by itself: an error, or the system ends it.               *)
Die(p) ==
    /\ p \in Running
    /\ Becomes(p, "gone")
    /\ port' = IF port = p THEN None ELSE port
    /\ ended' = ended \cup {p}
    /\ told' = told \ {p}
    /\ UNCHANGED <<cmd, pidFile, strangers, struck, displaced, disturbed>>

-----------------------------------------------------------------------------
(* The machine                                                             *)

(* Processes end, files stay. *)
Reboot ==
    /\ daemon' = [p \in Pids |-> IF p \in Running THEN [daemon[p] EXCEPT !.state = "gone"]
                                                  ELSE daemon[p]]
    /\ cmd' = [c \in Commands |-> IF Busy(c) THEN Done ELSE cmd[c]]
    /\ port' = None
    /\ strangers' = {}
    /\ ended' = ended \cup Running
    /\ told' = {}
    /\ disturbed' = disturbed \cup UNION {cmd[d].about : d \in Commands}
    /\ UNCHANGED <<pidFile, struck, displaced>>

(* Another program gets the pid of a daemon that is gone, which matters    *)
(* where a file or a command has it.                                       *)
ReusePid(p) ==
    /\ daemon[p].state = "gone" /\ strangers = {}
    /\ p \in {pidFile[n] : n \in Names} \cup {cmd[c].pid : c \in Commands}
    /\ strangers' = {p}
    /\ UNCHANGED <<cmd, daemon, told, pidFile, port, history>>

-----------------------------------------------------------------------------
Init ==
    /\ cmd = [c \in Commands |-> [Done EXCEPT !.at = "idle"]]
    /\ daemon = [p \in Pids |-> [name |-> None, background |-> FALSE, state |-> "none"]]
    /\ told = {}
    /\ pidFile = [n \in Names |-> None]
    /\ port = None
    /\ strangers = {}
    /\ struck = {} /\ ended = {} /\ displaced = {} /\ disturbed = {}

Step(c) ==
    Check(c) \/ Clean(c) \/ (\E taken \in BOOLEAN : Probe(c, taken)) \/ Clear(c) \/ Spawn(c) \/ Open(c) \/ Write(c)
    \/ Stop(c) \/ Kill(c) \/ Unlink(c)

Proceed(p) ==
    (\E taken \in BOOLEAN : Bind(p, taken))
    \/ InstallHandlers(p) \/ Started(p) \/ StopEvent(p) \/ Stopped(p)

Next ==
    \/ \E c \in Commands :
        StartCenter(c) \/ StopCenter(c) \/ StopAgent(c) \/ Step(c) \/ Interrupt(c)
    \/ \E c \in Commands, a \in Agents : StartAgent(c, a)
    \/ \E n \in Names : StartForeground(n)
    \/ \E p \in Pids : Proceed(p) \/ Die(p) \/ ReusePid(p)
    \/ Reboot

Spec == Init /\ [][Next]_vars

(* Commands and daemons get on; agent.start() and agent.stop() return, as  *)
(* their requests have timeouts.                                           *)
Fairness ==
    /\ \A c \in Commands : WF_vars(Step(c))
    /\ \A p \in Pids : WF_vars(Proceed(p))

FairSpec == Spec /\ Fairness

-----------------------------------------------------------------------------
(* Properties                                                              *)

Places == {"idle", "check", "clean", "probe", "clear", "spawn", "open", "write",
           "stop", "kill", "wait", "done"}

(* Types, and: only agents are told to stop, and only a serving center has *)
(* the port.                                                               *)
TypeOK ==
    /\ cmd \in [Commands -> [at : Places, about : SUBSET Names, name : Names \cup {None},
                             pid : Pids \cup {None}, left : SUBSET Names]]
    /\ daemon \in [Pids -> [name : Names \cup {None}, background : BOOLEAN,
                            state : States]]
    /\ told \subseteq {p \in Running : daemon[p].name \in Agents}
    /\ pidFile \in [Names -> Pids \cup {None, Empty}]
    /\ port \in {p \in Pids : daemon[p].name = Center /\ daemon[p].state = "serving"}
                \cup {None}
    /\ strangers \subseteq Pids /\ struck \subseteq Pids
    /\ ended \subseteq Pids /\ displaced \subseteq Pids
    /\ disturbed \subseteq Names

Background(p) == p \in Running /\ daemon[p].background

(* No command is about the daemon n, and none has ever been disturbed.     *)
Calm(n) == n \notin disturbed /\ \A c \in Commands : n \notin cmd[c].about

(* While no two commands about the center overlap, a background center that*)
(* runs is the one its file names, so that stop-center reaches it.         *)
CenterIsNamed ==
    Calm(Center) =>
        \A p \in Pids : Background(p) /\ daemon[p].name = Center => pidFile[Center] = p

(* A background agent that runs is named by its file, or has been told to  *)
(* stop, or a later start-agent took the file: there is no other way to    *)
(* lose it.                                                                *)
LostAgentHasCause ==
    \A a \in Agents, p \in Pids :
        Calm(a) /\ Background(p) /\ daemon[p].name = a
            => pidFile[a] = p \/ p \in told \cup displaced

(* Another program is signalled only in the place of a daemon that ended   *)
(* without a stop command and left its file.                               *)
StrangersAreSpared ==
    \A p \in struck : daemon[p].name \in disturbed \/ p \in ended

(* An agent that a stop command reached exits, also when it was starting   *)
(* and however long the command waited.                                    *)
ToldAgentExits == \A p \in Pids : p \in told ~> daemon[p].state = "gone"

=============================================================================
