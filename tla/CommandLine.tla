----------------------------- MODULE CommandLine -----------------------------
(***************************************************************************)
(* The files that the processes of one machine share: config.json          *)
(* (cli/config.py), which every command begins by reading and start-center *)
(* and the agent change, and the file of results to which the commands     *)
(* that ask the center for something append (cli/main.py).                 *)
(*                                                                         *)
(* Nothing locks them.  A change is a load, a truncation and a write; who  *)
(* reads in between finds nothing, takes that for a first run and mints    *)
(* new keys, or takes it for an unreadable file and starts a new one.      *)
(*                                                                         *)
(* Abstractions.  api_key, fleet_token and agent_id are minted and lost    *)
(* together: they are one value, the process that minted it, and an agent  *)
(* that finds keys finds its id as well.  center_url is left out, and the  *)
(* environment does not override the keys.  A command that starts a daemon *)
(* is a process that ends before it serves; the daemon reads the files     *)
(* again.  The center gives every id one secret and remembers it           *)
(* (FleetRegistry has the rest of it), and answers a request as it likes.  *)
(* All results go to one file: the same --output, or the same second.      *)
(***************************************************************************)
EXTENDS Naturals, FiniteSets

CONSTANTS
    None,
    Torn,           \* what is in a file that is no JSON
    Procs,          \* processes, each started once (bound)
    Plans,          \* what they may be started as
    MaxMishaps      \* a history ends with so many mishaps (bound)

Kinds == {"center", "agent", "broadcast", "pipeline", "query"}

ASSUME CommandLineAssumption ==
    /\ Plans \subseteq [Procs -> Kinds]
    /\ None \notin Procs
    /\ Torn \notin Procs
    /\ MaxMishaps \in Nat

VARIABLES
    kind,           \* what each process is
    at,             \* where each process is
    keys,           \* the keys it was started with
    draft,          \* the configuration it is about to write
    secret,         \* _agent_secret of an agent
    shutOut,        \* agents the center has refused for their secret
    results,        \* the results a command is about to write
    file,           \* config.json
    output,         \* the file of results
    known,          \* the ids the center has given a secret
    overtaken,      \* history: who has a copy older than its file
    mishaps         \* history: what went wrong between processes so far

vars == <<kind, at, keys, draft, secret, shutOut, results, file, output, known, overtaken, mishaps>>

Configs == [keys : Procs \cup {None}, pinned : BOOLEAN, secret : Procs \cup {None}]

WithKeys(c, p) == [c EXCEPT !.keys = p]
WithPin(c) == [c EXCEPT !.pinned = TRUE]
WithSecret(c, k) == [c EXCEPT !.secret = k]

(* What load_config returns for a missing, truncated or garbled file. *)
NoConfig == [keys |-> None, pinned |-> FALSE, secret |-> None]

Init ==
    /\ kind \in Plans
    /\ at = [p \in Procs |-> "off"]
    /\ keys = [p \in Procs |-> None]
    /\ draft = [p \in Procs |-> NoConfig]
    /\ secret = [p \in Procs |-> None]
    /\ shutOut = {}
    /\ results = [p \in Procs |-> {}]
    /\ file = NoConfig
    /\ output = {}
    /\ known = {}
    /\ overtaken = {}
    /\ mishaps = {}

Goto(p, place) == at' = [at EXCEPT ![p] = place]

(* A process that is over has forgotten everything. *)
Over(p, place) ==
    /\ keys' = [keys EXCEPT ![p] = None]
    /\ draft' = [draft EXCEPT ![p] = NoConfig]
    /\ secret' = [secret EXCEPT ![p] = None]
    /\ results' = [results EXCEPT ![p] = {}]
    /\ Goto(p, place)

Note(mishap, happens) == IF happens THEN {mishap} ELSE {}

-----------------------------------------------------------------------------
(* config.json                                                             *)

Writing == {"fill", "refill", "pinning", "keeping"}

Written(places, p) == \E q \in Procs \ {p} : at[q] \in places

(* A load while another process writes. *)
Loads(p) ==
    /\ overtaken' = overtaken \ {p}
    /\ mishaps' = mishaps \cup Note("torn", Written(Writing, p))

(* ensure_config saves the keys it mints; start-center saves what it has   *)
(* then once more, with the center's URL.                                  *)
Ensure(p) ==
    /\ at[p] = "off"
    /\ LET mints == file.keys = None
           c == IF mints THEN WithKeys(file, p) ELSE file
           saves == mints \/ kind[p] = "center"
       IN  /\ keys' = [keys EXCEPT ![p] = c.keys]
           /\ draft' = [draft EXCEPT ![p] = IF saves THEN c ELSE NoConfig]
           /\ Goto(p, IF mints THEN "save" ELSE IF saves THEN "resave" ELSE "ready")
    /\ Loads(p)
    /\ UNCHANGED <<secret, shutOut, results, file, output, known>>

(* save_config, and the write of the pin, open the file ... *)
Opens == [save |-> "fill", resave |-> "refill", pin |-> "pinning", keep |-> "keeping"]

Truncate(p) ==
    /\ at[p] \in DOMAIN Opens
    /\ file' = NoConfig
    /\ mishaps' = mishaps \cup Note("torn", Written(Writing, p))
    /\ Goto(p, Opens[at[p]])
    /\ UNCHANGED <<keys, draft, secret, shutOut, results, output, known, overtaken>>

(* What start-center has minted, and an agent that mints its id, is saved  *)
(* again.                                                                  *)
SavesAgain(p) == at[p] = "fill" /\ kind[p] \in {"center", "agent"}

(* ... and write.  What another process has written since is overwritten,  *)
(* and sticks out at the end when it is longer.                            *)
Fills == [fill |-> "ready", refill |-> "ready", pinning |-> "pinned", keeping |-> "serving"]

Fill(p) ==
    /\ at[p] \in DOMAIN Fills
    /\ file' \in {draft[p]} \cup (IF file = NoConfig THEN {} ELSE {NoConfig})
    /\ mishaps' = mishaps \cup Note(IF at[p] = "fill" THEN "first" ELSE "stale", p \in overtaken)
    /\ overtaken' = (overtaken \cup {q \in Procs : draft[q] # NoConfig}) \ {p}
    /\ IF SavesAgain(p)
       THEN UNCHANGED draft /\ Goto(p, "resave")
       ELSE draft' = [draft EXCEPT ![p] = NoConfig] /\ Goto(p, Fills[at[p]])
    /\ UNCHANGED <<keys, secret, shutOut, results, output, known>>

-----------------------------------------------------------------------------
(* The center and the agent                                                *)

Serving == {q \in Procs : kind[q] = "center" /\ at[q] = "serving"}

(* CenterNode takes the keys from the process; one center has the port. *)
Serve(p) ==
    /\ at[p] = "ready" /\ kind[p] = "center"
    /\ IF Serving = {} THEN Goto(p, "serving") /\ UNCHANGED <<keys, draft, secret, results>>
       ELSE Over(p, "done")
    /\ UNCHANGED <<shutOut, file, output, known, overtaken, mishaps>>

Starting == {"built", "pin", "pinning", "pinned", "issued", "keep", "keeping"}

(* Faulty: an agent begins without a secret. *)
ConstructAnew(p) ==
    /\ at[p] = "ready" /\ kind[p] = "agent"
    /\ Goto(p, "built")
    /\ UNCHANGED <<keys, draft, secret, shutOut, results, file, output, known, overtaken, mishaps>>

(* UserAgent.__init__ loads the secret that an earlier agent was given. *)
Construct(p) ==
    /\ at[p] = "ready" /\ kind[p] = "agent"
    /\ secret' = [secret EXCEPT ![p] = file.secret]
    /\ mishaps' = mishaps \cup Note("torn", Written(Writing, p))
                          \cup Note("twin", Written(Starting, p))
    /\ Goto(p, "built")
    /\ UNCHANGED <<keys, draft, shutOut, results, file, output, known, overtaken>>

(* Faulty: writes the pin alone. *)
PinAlone(p) ==
    /\ at[p] = "built"
    /\ IF file.pinned
       THEN Goto(p, "pinned") /\ UNCHANGED draft
       ELSE /\ draft' = [draft EXCEPT ![p] = WithPin(NoConfig)]
            /\ Goto(p, "pin")
    /\ Loads(p)
    /\ UNCHANGED <<keys, secret, shutOut, results, file, output, known>>

(* start() pins the center's URL, unless one is pinned. *)
Pin(p) ==
    /\ at[p] = "built"
    /\ IF file.pinned
       THEN Goto(p, "pinned") /\ UNCHANGED draft
       ELSE /\ draft' = [draft EXCEPT ![p] = WithPin(file)]
            /\ Goto(p, "pin")
    /\ Loads(p)
    /\ UNCHANGED <<keys, secret, shutOut, results, file, output, known>>

(* The center's answer to a registration: none when there is no center; a  *)
(* new id gets a secret, a known one must show it.                         *)
RegisterAnswer(p) ==
    IF \A q \in Serving : keys[q] # keys[p] THEN "unauthorized"
    ELSE IF keys[p] \notin known THEN "issued"
    ELSE IF secret[p] = keys[p] THEN "registered" ELSE "shut_out"

(* An agent that is not registered, or does not learn it, ends.            *)
Register(p) ==
    /\ at[p] = "pinned"
    /\ LET answers == IF Serving = {} THEN {} ELSE {RegisterAnswer(p)}
       IN  \/ /\ "registered" \in answers
              /\ Goto(p, "serving")
              /\ UNCHANGED <<keys, draft, secret, shutOut, results, known, mishaps>>
           \/ /\ "issued" \in answers
              /\ known' = known \cup {keys[p]}
              /\ Goto(p, "issued")
              /\ UNCHANGED <<keys, draft, secret, shutOut, results, mishaps>>
           \/ /\ Over(p, "done")           \* refused, unreachable, no answer
              /\ shutOut' = shutOut \cup (IF "shut_out" \in answers THEN {p} ELSE {})
              /\ \/ UNCHANGED <<known, mishaps>>
                 \/ /\ "issued" \in answers             \* the answer is lost
                    /\ known' = known \cup {keys[p]}
                    /\ mishaps' = mishaps \cup {"orphan"}
    /\ UNCHANGED <<file, output, overtaken>>

(* Faulty: remembers the secret it was given without saving it. *)
KeepInMemory(p) ==
    /\ at[p] = "issued"
    /\ secret' = [secret EXCEPT ![p] = keys[p]]
    /\ Goto(p, "serving")
    /\ UNCHANGED <<keys, draft, shutOut, results, file, output, known, overtaken, mishaps>>

(* The agent saves the secret it was given. *)
Keep(p) ==
    /\ at[p] = "issued"
    /\ secret' = [secret EXCEPT ![p] = keys[p]]
    /\ draft' = [draft EXCEPT ![p] = WithSecret(file, keys[p])]
    /\ Loads(p)
    /\ Goto(p, "keep")
    /\ UNCHANGED <<keys, shutOut, results, file, output, known>>

-----------------------------------------------------------------------------
(* The commands that ask the center                                        *)

(* What may come back.  Anything but "answered" or, to a broadcast,        *)
(* "queued" (agents have it and no result has come) is an error to the     *)
(* command, be it one it prints or one that ends it.                       *)
Replies(p, possible) ==
    CASE Serving = {} -> {"unreachable"}
      [] Serving # {} /\ \A q \in Serving : keys[q] # keys[p] -> {"unauthorized"}
      [] OTHER -> possible \cup {"failed", "timed out"}

Modes == {"return", "broadcast"}

(* A command saves its answer or is over. *)
Settle(p, saves) ==
    /\ IF saves THEN Goto(p, "answered") /\ UNCHANGED <<keys, draft, secret, results>>
       ELSE Over(p, "done")
    /\ UNCHANGED <<shutOut, file, output, known, overtaken, mishaps>>

(* With --output whatever has come is saved, else only results in mode     *)
(* "return".                                                               *)
Broadcast(p) ==
    /\ at[p] = "ready" /\ kind[p] = "broadcast"
    /\ \E reply \in Replies(p, {"no agents", "no results", "queued", "answered"}),
          mode \in Modes, asked \in BOOLEAN :
        Settle(p, \/ asked /\ reply \in {"queued", "answered"}
                  \/ mode = "return" /\ reply = "answered")

(* The file of the pipeline, or of its input, may be unreadable.           *)
Pipeline(p) ==
    /\ at[p] = "ready" /\ kind[p] = "pipeline"
    /\ \E reply \in Replies(p, {"no agents", "answered"}) \cup {"no pipeline"},
          mode \in Modes, asked \in BOOLEAN :
        Settle(p, reply = "answered" /\ (asked \/ mode = "return"))

(* clear-tasks, revoke-agent, list-agents and show-agent print the answer. *)
Query(p) ==
    /\ at[p] = "ready" /\ kind[p] = "query"
    /\ Settle(p, FALSE)

(* Faulty: starts the file anew when it is no list. *)
GatherOwn(p) ==
    /\ at[p] = "answered"
    /\ results' = [results EXCEPT ![p] = {p}]
    /\ overtaken' = overtaken \ {p}
    /\ mishaps' = mishaps \cup Note("output torn", Written({"write"}, p))
    /\ Goto(p, "gathered")
    /\ UNCHANGED <<keys, draft, secret, shutOut, file, output, known>>

(* _write_output: the results there are, or none if they are unreadable,   *)
(* and the new one ...                                                     *)
Gather(p) ==
    /\ at[p] = "answered"
    /\ results' = [results EXCEPT ![p] = (IF output = {Torn} THEN {} ELSE output) \cup {p}]
    /\ overtaken' = overtaken \ {p}
    /\ mishaps' = mishaps \cup Note("output torn", Written({"write"}, p))
    /\ Goto(p, "gathered")
    /\ UNCHANGED <<keys, draft, secret, shutOut, file, output, known>>

OpenOutput(p) ==
    /\ at[p] = "gathered"
    /\ output' = {Torn}
    /\ Goto(p, "write")
    /\ mishaps' = mishaps \cup Note("output torn", Written({"write"}, p))
    /\ UNCHANGED <<keys, draft, secret, shutOut, results, file, known, overtaken>>

(* ... are written, over what another command has written since. *)
WriteOutput(p) ==
    /\ at[p] = "write"
    /\ output' \in {results[p]} \cup (IF output = {Torn} THEN {} ELSE {{Torn}})
    /\ mishaps' = mishaps \cup Note("output stale", p \in overtaken)
    /\ overtaken' = (overtaken \cup {q \in Procs : results[q] # {}}) \ {p}
    /\ Over(p, "saved")
    /\ UNCHANGED <<shutOut, file, known>>

-----------------------------------------------------------------------------

(* A process may end, or be killed, anywhere. *)
End(p) ==
    /\ at[p] \notin {"off", "done", "saved"}
    /\ mishaps' = mishaps \cup Note("cut", at[p] \in Writing)
                          \cup Note("orphan", at[p] \in {"issued", "keep", "keeping"})
                          \cup Note("output cut", at[p] = "write")
    /\ overtaken' = overtaken \ {p}
    /\ Over(p, "done")
    /\ UNCHANGED <<shutOut, file, output, known>>

Next ==
    /\ Cardinality(mishaps) < MaxMishaps
    /\ \E p \in Procs :
        \/ Ensure(p) \/ Truncate(p) \/ Fill(p)
        \/ Serve(p)
        \/ Construct(p) \/ Pin(p) \/ Register(p) \/ Keep(p)
        \/ Broadcast(p) \/ Pipeline(p) \/ Query(p)
        \/ Gather(p) \/ OpenOutput(p) \/ WriteOutput(p)
        \/ End(p)
    /\ UNCHANGED kind

Spec == Init /\ [][Next]_vars

-----------------------------------------------------------------------------

Places == {"off", "ready", "done", "serving", "answered", "gathered", "write", "saved",
           "built", "pin", "pinning", "pinned", "issued", "keep", "keeping", "save", "fill",
           "resave", "refill"}

Mishaps == {"torn", "cut", "first", "stale", "orphan", "twin",
            "output torn", "output stale", "output cut"}

(* Type invariant. *)
TypeOK ==
    /\ kind \in [Procs -> Kinds]
    /\ at \in [Procs -> Places]
    /\ keys \in [Procs -> Procs \cup {None}]
    /\ draft \in [Procs -> Configs]
    /\ secret \in [Procs -> Procs \cup {None}]
    /\ shutOut \subseteq Procs
    /\ results \in [Procs -> SUBSET Procs]
    /\ file \in Configs
    /\ output \in (SUBSET Procs) \cup {{Torn}}
    /\ known \subseteq Procs \cup {None}
    /\ overtaken \subseteq Procs
    /\ mishaps \subseteq Mishaps

Whole == file # NoConfig \/ ~ \E q \in Procs : at[q] \in Writing

(* A process runs with the keys that are in config.json unless two first   *)
(* starts overlapped, one was cut off while it wrote, or one read while    *)
(* another wrote: the pin and the secret of an agent and the URL of the    *)
(* center never change the keys, even when an older copy is written.       *)
KeysAgree ==
    mishaps \cap {"first", "cut", "torn"} = {} /\ Whole =>
        \A p \in Procs : at[p] \notin {"off", "save", "fill", "done", "saved"} => keys[p] = file.keys

(* An agent that serves finds its pin and its secret in config.json when   *)
(* it starts again, whatever else was saved since, unless a copy from      *)
(* before them was written or one of the mishaps above happened.           *)
AgentIsRemembered ==
    mishaps \cap {"first", "cut", "torn", "stale"} = {} /\ Whole =>
        \A p \in Procs : kind[p] = "agent" /\ at[p] = "serving" =>
            file.pinned /\ (secret[p] # None => file.secret = secret[p])

(* The center turns an agent away for good (its id is known and it has not *)
(* the secret) only if a secret was issued and never saved, another agent  *)
(* of the machine was starting, or config.json lost it.                    *)
ShutOutHasCause ==
    shutOut # {} =>
        mishaps \cap {"first", "cut", "torn", "stale", "orphan", "twin"} # {}

(* The answer that a command has reported as saved stays in the file       *)
(* unless one read or opened the file while another wrote, wrote what it   *)
(* had read before, or was cut off writing.                                *)
OutputIsKept ==
    mishaps \cap {"output torn", "output stale", "output cut"} = {} /\ output # {Torn} =>
        \A p \in Procs : at[p] = "saved" => p \in output

=============================================================================
