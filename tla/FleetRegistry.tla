---------------------------- MODULE FleetRegistry ----------------------------
(***************************************************************************)
(* Who may speak for an agent id: the registry of the center node          *)
(* (systems/center_node.py, core/security.py), the secrets it issues to    *)
(* agents, and the configuration file in which an agent keeps its own      *)
(* (systems/user_agent.py, cli/config.py).                                 *)
(*                                                                         *)
(* The secret is sent once, in the answer to the first registration; the   *)
(* center keeps its hash, in memory and in a row of its store.  An agent   *)
(* registers once per process and gives up when it is refused.  The        *)
(* cleanup loop, which forgets agents that have been silent, awaits sends  *)
(* to dashboards while it works on a copy of the registry.                 *)
(*                                                                         *)
(* Abstractions.  A secret stands for itself and for its hash.  A secret   *)
(* nobody holds any longer may be issued again.  An answer arrives at once *)
(* or not at all, and a configuration file is read and written in one      *)
(* step.  The time of a cleanup pass is taken when it begins: nothing      *)
(* becomes overdue during it.  Writes to the store are executed at once;   *)
(* CenterNode has them in any order, and the tasks.  Rate limits, the      *)
(* fleet token and metrics are left out.                                   *)
(***************************************************************************)
EXTENDS Naturals, FiniteSets

CONSTANTS
    Agents,         \* agent ids
    Machines,       \* home directories, each with one configuration file
    Home,           \* the machine of an agent
    Secrets,        \* agent secrets (bound)
    None,           \* no entry, no row, no secret
    MaxNodes,       \* MAX_NODES
    Parsable,       \* agents whose timestamps can be parsed
    MasterKeyed,    \* agents whose API key is the master key
    MaxFaults       \* registrations that get no answer, and restarts of
                    \* the center (bound)

ASSUME RegistryAssumption ==
    /\ Home \in [Agents -> Machines]
    /\ None \notin Secrets
    /\ MaxNodes \in Nat \ {0}
    /\ MaxFaults \in Nat
    /\ IsFiniteSet(Agents)

VARIABLES
    entry,          \* CenterNode.agents
    pass,           \* where the cleanup loop is
    scan,           \* agents the pass has not looked at yet
    condemned,      \* to_purge
    replaced,       \* what the pass holds of an agent that has registered
                    \* since it began
    rows,           \* table agents
    proc,           \* an agent's process: "down", "asking" to be registered,
                    \* "up"
    mem,            \* UserAgent._agent_secret
    conf,           \* agent_secret in the configuration file of a machine
    touched,        \* history variable: entries changed since the pass began
    excused,        \* history variable: agents that never got their secret,
                    \* or whose secret another agent has overwritten
    restarts,       \* those of the center
    faults

registryVars == <<entry, touched>>
passVars == <<pass, scan, condemned>>
agentVars == <<proc, mem, conf>>
boundVars == <<restarts, faults>>
vars == <<registryVars, passVars, replaced, rows, agentVars, excused,
          boundVars>>

(* An entry is overdue when its last heartbeat is older than what the      *)
(* cleanup loop looks for: 2 min while it is online, 10 min otherwise.     *)
Status == {"online", "offline", "revoked"}
Entry == [status : Status, overdue : BOOLEAN, secret : Secrets \cup {None},
          revoked : BOOLEAN]
Row == [secret : Secrets \cup {None}, revoked : BOOLEAN]

ASSUME NoneAssumption == None \notin Entry \cup Row

Known(a) == entry[a] # None
Online == {a \in Agents : Known(a) /\ entry[a].status = "online"}

RowOf(e) == [secret |-> e.secret, revoked |-> e.revoked]

Init ==
    /\ entry = [a \in Agents |-> None]
    /\ pass = "idle" /\ scan = {} /\ condemned = {}
    /\ replaced = [a \in Agents |-> None]
    /\ rows = [a \in Agents |-> None]
    /\ proc = [a \in Agents |-> "down"]
    /\ mem = [a \in Agents |-> None]
    /\ conf = [m \in Machines |-> None]
    /\ touched = {} /\ excused = {}
    /\ faults = 0 /\ restarts = 0

-----------------------------------------------------------------------------
(* Registration *)

Fault == faults < MaxFaults /\ faults' = faults + 1

(* The process of an agent is over, and its memory lost. *)
ProcessEnds(a) ==
    /\ proc' = [proc EXCEPT ![a] = "down"]
    /\ mem' = [mem EXCEPT ![a] = None]

(* A process reads its configuration and asks to be registered. *)
StartAgent(a) ==
    /\ proc[a] = "down"
    /\ proc' = [proc EXCEPT ![a] = "asking"]
    /\ mem' = [mem EXCEPT ![a] = conf[Home[a]]]
    /\ UNCHANGED <<registryVars, passVars, replaced, rows, conf, excused,
                   boundVars>>

(* _validate_agent_identity, of an agent the center knows. *)
IdentityValid(a) ==
    /\ entry[a].status # "revoked" /\ ~entry[a].revoked
    /\ entry[a].secret # None
    /\ mem[a] = entry[a].secret

(* Secrets nobody holds: token_urlsafe never returns one that was used.    *)
Held ==
    {mem[a] : a \in Agents} \cup {conf[m] : m \in Machines}
      \cup {entry[a].secret : a \in {b \in Agents : Known(b)}}
      \cup {rows[a].secret : a \in {b \in Agents : rows[b] # None}}

Fresh == Secrets \ Held

Touch(a) == touched' = IF pass = "idle" THEN touched ELSE touched \cup {a}

(* The entry of an agent is a new object; the pass keeps the old one.      *)
ReplaceEntry(a, e) ==
    /\ entry' = [entry EXCEPT ![a] = e]
    /\ rows' = [rows EXCEPT ![a] = RowOf(e)]
    /\ Touch(a)
    /\ replaced' = IF a \in scan /\ replaced[a] = None
                   THEN [replaced EXCEPT ![a] =
                            [status |-> entry[a].status,
                             overdue |-> entry[a].overdue]]
                   ELSE replaced

(* Faulty: an agent that is refused counts as heard of. *)
RegistrationRefusedButHeard(a) ==
    /\ proc[a] = "asking"
    /\ IF Known(a)
       THEN /\ ~IdentityValid(a)
            /\ entry' = [entry EXCEPT ![a].overdue = FALSE]
       ELSE /\ Cardinality(Online) >= MaxNodes
            /\ UNCHANGED entry
    /\ ProcessEnds(a)
    /\ UNCHANGED <<touched, passVars, replaced, rows, conf, excused,
                   boundVars>>

(* Faulty: the secret is kept in memory only. *)
RememberSecret(a, secret) ==
    /\ mem' = [mem EXCEPT ![a] = secret]
    /\ UNCHANGED conf

(* The agent keeps the secret it is given. *)
KeepSecret(a, secret) ==
    /\ mem' = [mem EXCEPT ![a] = secret]
    /\ conf' = [conf EXCEPT ![Home[a]] = secret]

(* Agents with the same configuration file. *)
Neighbours(a) == {b \in Agents : Home[b] = Home[a]}

Admitted(a) ==
    /\ proc[a] = "asking" /\ ~Known(a)
    /\ Cardinality(Online) < MaxNodes
    /\ Fresh # {}

NewSecret == CHOOSE s \in Secrets : s \in Fresh

NewEntry(secret) ==
    [status |-> "online", overdue |-> FALSE, secret |-> secret,
     revoked |-> FALSE]

(* _register_agent: an unknown agent is given a secret, if there is room,  *)
RegisterNew(a) ==
    /\ Admitted(a)
    /\ ReplaceEntry(a, NewEntry(NewSecret))
    /\ KeepSecret(a, NewSecret)
    /\ proc' = [proc EXCEPT ![a] = "up"]
    /\ excused' = (excused \cup Neighbours(a)) \ {a}
    /\ UNCHANGED <<passVars, boundVars>>

(* which may be lost with the answer;                                      *)
NewSecretLost(a) ==
    /\ Admitted(a)
    /\ ReplaceEntry(a, NewEntry(NewSecret))
    /\ ProcessEnds(a)
    /\ excused' = excused \cup {a}
    /\ Fault
    /\ UNCHANGED <<passVars, conf, restarts>>

(* a known one must present its own, and may miss the answer too,          *)
RegisterAgain(a) ==
    /\ proc[a] = "asking" /\ Known(a)
    /\ IdentityValid(a)
    /\ ReplaceEntry(a, NewEntry(entry[a].secret))
    /\ \/ proc' = [proc EXCEPT ![a] = "up"] /\ UNCHANGED <<mem, faults>>
       \/ ProcessEnds(a) /\ Fault
    /\ UNCHANGED <<passVars, conf, excused, restarts>>

(* or is refused, as is one for which there is no room: its process ends.  *)
RegistrationRefused(a) ==
    /\ proc[a] = "asking"
    /\ IF Known(a) THEN ~IdentityValid(a)
                   ELSE Cardinality(Online) >= MaxNodes
    /\ ProcessEnds(a)
    /\ UNCHANGED <<registryVars, passVars, replaced, rows, conf, excused,
                   boundVars>>

-----------------------------------------------------------------------------
(* Heartbeats, silence, revocation *)

(* The master key stands for the secret, _heartbeat does not look at it.   *)
HeartbeatAccepted(a) ==
    Known(a) /\ (a \in MasterKeyed \/ IdentityValid(a))

HeardOf(a, status) ==
    /\ entry' = [entry EXCEPT ![a].status = status,
                            ![a].overdue = FALSE]
    /\ Touch(a)

Heartbeat(a) ==
    /\ proc[a] = "up" /\ HeartbeatAccepted(a)
    /\ HeardOf(a, "online")
    /\ UNCHANGED <<passVars, replaced, rows, agentVars, excused,
                   boundVars>>

(* UserAgent.stop says goodbye; *)
Goodbye(a) ==
    /\ proc[a] = "up" /\ HeartbeatAccepted(a)
    /\ HeardOf(a, "offline")
    /\ ProcessEnds(a)
    /\ UNCHANGED <<passVars, replaced, rows, conf, excused, boundVars>>

(* a process that dies, or is refused its goodbye, does not. *)
AgentDies(a) ==
    /\ proc[a] = "up"
    /\ ProcessEnds(a)
    /\ UNCHANGED <<registryVars, passVars, replaced, rows, conf, excused,
                   boundVars>>

(* Time goes by; timestamps that do not parse stay young.                  *)
BecomesOverdue(a) ==
    /\ pass = "idle"
    /\ Known(a) /\ ~entry[a].overdue
    /\ a \in Parsable
    /\ entry' = [entry EXCEPT ![a].overdue = TRUE]
    /\ UNCHANGED <<touched, passVars, replaced, rows, agentVars, excused,
                   boundVars>>

(* _revoke_agent changes the entry in place. *)
RevokeAgent(a) ==
    /\ Known(a)
    /\ LET e == [entry[a] EXCEPT !.status = "revoked", !.overdue = FALSE,
                                 !.secret = None, !.revoked = TRUE]
       IN /\ entry' = [entry EXCEPT ![a] = e]
          /\ rows' = [rows EXCEPT ![a] = RowOf(e)]
    /\ Touch(a)
    /\ UNCHANGED <<passVars, replaced, agentVars, excused, boundVars>>

-----------------------------------------------------------------------------
(* The cleanup loop, one action from await to await *)

(* What the pass sees of an agent: the entry it found when it began.       *)
Seen(a) == IF replaced[a] # None THEN replaced[a] ELSE entry[a]

Silent(a) == Seen(a).status = "online" /\ Seen(a).overdue

(* Faulty: whatever the status. *)
StaleAnyhow(a) == Seen(a).overdue

(* Faulty: as soon as it is offline. *)
StaleAtOnce(a) == Seen(a).status = "offline"

Stale(a) == Seen(a).status = "offline" /\ Seen(a).overdue

ToScan == IF pass = "idle" THEN {a \in Agents : Known(a)} ELSE scan

(* The pass marks an agent that has missed its heartbeats offline and      *)
(* tells the dashboards.                                                   *)
MarkOffline(a) ==
    /\ pass \in {"idle", "scanning"}
    /\ a \in ToScan /\ Silent(a)
    /\ \E before \in SUBSET (ToScan \ {a}) :
          /\ \A b \in before : ~Silent(b)
          /\ scan' = ToScan \ (before \cup {a})
          /\ condemned' = condemned \cup {b \in before : Stale(b)}
    /\ pass' = "scanning"
    /\ entry' = IF replaced[a] = None
                THEN [entry EXCEPT ![a].status = "offline",
                                   ![a].overdue = FALSE]
                ELSE entry
    /\ UNCHANGED <<touched, replaced, rows, agentVars, excused,
                   boundVars>>

ScanIsOver == \A a \in ToScan : ~Silent(a)

ToPurge ==
    IF pass = "purging" THEN condemned
                        ELSE condemned \cup {a \in ToScan : Stale(a)}

PassEnds ==
    /\ pass' = "idle" /\ scan' = {} /\ condemned' = {} /\ touched' = {}
    /\ replaced' = [a \in Agents |-> None]

(* It forgets an agent, whatever has become of it since, and tells the     *)
(* dashboards.                                                             *)
PurgeAgent(a) ==
    /\ ScanIsOver
    /\ a \in ToPurge
    /\ entry' = [entry EXCEPT ![a] = None]
    /\ IF ToPurge = {a}
       THEN PassEnds
       ELSE /\ pass' = "purging" /\ scan' = {} /\ condemned' = ToPurge \ {a}
            /\ replaced' = [b \in Agents |-> None]
            /\ UNCHANGED touched
    /\ UNCHANGED <<rows, agentVars, excused, boundVars>>

NothingToPurge ==
    /\ pass = "scanning"
    /\ ScanIsOver /\ ToPurge = {}
    /\ PassEnds
    /\ UNCHANGED <<entry, rows, agentVars, excused, boundVars>>

Cleanup ==
    \/ \E a \in Agents : MarkOffline(a) \/ PurgeAgent(a)
    \/ NothingToPurge

-----------------------------------------------------------------------------
(* Store and restart *)

(* load_state and _load_state_from_db: an entry per row whose heartbeat    *)
(* SQLite can read and finds less than a day old.  Its last heartbeat may  *)
(* have been any time ago: it may become overdue at once.                  *)
Loaded(kept) ==
    [a \in Agents |->
        IF a \in kept /\ rows[a] # None
        THEN [status |-> "offline", overdue |-> FALSE,
              secret |-> rows[a].secret, revoked |-> rows[a].revoked]
        ELSE None]

(* The center loses its memory.                                            *)
Restart ==
    /\ Fault /\ restarts' = restarts + 1
    /\ \E kept \in SUBSET Parsable : entry' = Loaded(kept)
    /\ PassEnds
    /\ UNCHANGED <<rows, agentVars, excused>>

Next ==
    \/ \E a \in Agents :
          \/ StartAgent(a) \/ RegisterNew(a) \/ NewSecretLost(a)
          \/ RegisterAgain(a) \/ RegistrationRefused(a)
          \/ Heartbeat(a) \/ Goodbye(a) \/ AgentDies(a) \/ BecomesOverdue(a)
          \/ RevokeAgent(a) \/ MarkOffline(a) \/ PurgeAgent(a)
    \/ NothingToPurge
    \/ Restart

Spec == Init /\ [][Next]_vars

(* Requests are handled and answered, or fail; the cleanup loop comes      *)
(* round, and the clock goes on: cleanup passes take no time.  Nobody is   *)
(* made to start an agent, nor an agent to send heartbeats.                *)
Fairness ==
    /\ \A a \in Agents :
          /\ WF_vars(RegisterNew(a) \/ RegisterAgain(a)
                        \/ RegistrationRefused(a))
          /\ SF_vars(BecomesOverdue(a))
    /\ WF_vars(Cleanup)

FairSpec == Spec /\ Fairness

-----------------------------------------------------------------------------
(* Properties *)

TypeOK ==
    /\ entry \in [Agents -> Entry \cup {None}]
    /\ pass \in {"idle", "scanning", "purging"}
    /\ scan \subseteq {a \in Agents : Known(a)} /\ condemned \subseteq Agents
    /\ pass # "scanning" => scan = {}
    /\ pass = "idle" => condemned = {} /\ touched = {}
    /\ replaced \in [Agents -> [status : Status, overdue : BOOLEAN]
                                    \cup {None}]
    /\ rows \in [Agents -> Row \cup {None}]
    /\ proc \in [Agents -> {"down", "asking", "up"}]
    /\ mem \in [Agents -> Secrets \cup {None}]
    /\ conf \in [Machines -> Secrets \cup {None}]
    /\ touched \subseteq Agents /\ excused \subseteq Agents
    /\ faults \in 0..MaxFaults /\ restarts \in 0..faults

(* README.md:481: "Future heartbeats, command polling, and reconnects must *)
(* present that secret."  An agent has the secret in its configuration     *)
(* file that the center wants to see, so that a restart of the agent is    *)
(* not refused, unless the answer with its secret was lost, or another     *)
(* agent on the same machine has overwritten it.                           *)
SecretsAgree ==
    \A a \in Agents \ excused :
        Known(a) /\ entry[a].secret # None
            => conf[Home[a]] = entry[a].secret

(* center_node.py:1469, "Purged stale agent (offline >10 min)": the agent  *)
(* was that when it was looked at.  Only one that was heard of, or revoked,*)
(* while the pass was awaiting a send is forgotten nevertheless.           *)
PurgedWasStale ==
    [][\A a \in Agents :
          Known(a) /\ ~Known(a)' /\ restarts' = restarts =>
              \/ entry[a].status = "offline" /\ entry[a].overdue
              \/ a \in touched]_vars

(* README.md:251, "prevents future reconnects with its old identity": a    *)
(* revoked agent stays known as revoked, but for a restart of the center,  *)
(* for a revocation that comes in the middle of the cleanup pass that      *)
(* forgets the agent, and for heartbeats under the master key.             *)
RevocationLasts ==
    [][\A a \in Agents \ MasterKeyed :
          Known(a) /\ entry[a].status = "revoked" /\ restarts' = restarts =>
              \/ Known(a)' /\ entry'[a].status = "revoked"
              \/ a \in touched]_vars

Registered(a) == proc[a] = "up" /\ Known(a) /\ IdentityValid(a)

(* An agent that is refused, because it never got its secret or another    *)
(* agent has overwritten it, and is started again and again, is registered *)
(* in the end: it is silent meanwhile, so the center forgets it.  But for  *)
(* revoked agents, a fleet that is full, and timestamps that do not parse. *)
LockoutEnds ==
    \A a \in Parsable :
        []<>(proc[a] = "asking") =>
            []<>(\/ Registered(a)
                 \/ Known(a) /\ entry[a].revoked
                 \/ ~Known(a) /\ Cardinality(Online) >= MaxNodes)

=============================================================================
