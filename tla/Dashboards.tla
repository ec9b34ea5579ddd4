----------------------------- MODULE Dashboards -----------------------------
(***************************************************************************)
(* The WebSocket dashboards of the center (_websocket_handler and          *)
(* _broadcast_update of systems/center_node.py) and the answers that an    *)
(* agent streams to them chunk by chunk (_report_partial_result of         *)
(* systems/user_agent.py, _handle_task_stream).                            *)
(*                                                                         *)
(* Every update is sent to one dashboard after another, by a loop over the *)
(* list of dashboards that awaits each send.  Meanwhile others may connect *)
(* and leave the same list, and other updates run over it.                 *)
(*                                                                         *)
(* Abstractions.  A source posts its updates one after another and waits   *)
(* for each answer: a task that streams, whose updates are its chunks, or  *)
(* the completions of an agent.  What an update says is left out.  A send  *)
(* is over when the socket has taken the update; a dashboard that is stuck *)
(* reads nothing, and its socket takes nothing.  Who may post or connect   *)
(* is in FleetRegistry and CommandLine.                                    *)
(***************************************************************************)
EXTENDS Naturals, Sequences, Functions

CONSTANTS
    None,
    Clients,        \* dashboards, each connects once (bound)
    Sources,        \* who posts updates
    Chunks          \* how many updates of each (bound)

ASSUME DashboardsAssumption == Chunks \in Nat \ {0} /\ None \notin Clients

Updates == Sources \X (1..Chunks)

VARIABLES
    link,           \* what each dashboard is doing
    clients,        \* websocket_clients
    got,            \* the updates sent to each, in order
    posted,         \* how many updates each source has posted
    awaits,         \* sources waiting for an answer
    relay,          \* the progress of _broadcast_update for each update
    audience,       \* history: the dashboards listed when an update began
    shifted,        \* history: updates under way when an earlier one left
    timedOut        \* history: sources that have not waited for an answer

relayVars == <<link, clients, got, posted, awaits, relay, audience, shifted, timedOut>>

Connected == {c \in Clients : link[c] \in {"reading", "stuck"}}

(* next is the position of the loop, to the dashboard it is sending to.    *)
Start(at) == [at |-> at, next |-> 1, to |-> None, dead |-> {}]

RelayInit ==
    /\ link = [c \in Clients |-> "away"]
    /\ clients = <<>>
    /\ got = [c \in Clients |-> <<>>]
    /\ posted = [s \in Sources |-> 0]
    /\ awaits = {}
    /\ relay = [u \in Updates |-> Start("unposted")]
    /\ audience = [u \in Updates |-> {}]
    /\ shifted = {}
    /\ timedOut = {}

-----------------------------------------------------------------------------
(* Dashboards                                                              *)

Becomes(c, state) == link' = [link EXCEPT ![c] = state]

(* Faulty: lists a new dashboard first. *)
ConnectFirst(c) ==
    /\ link[c] = "away"
    /\ Becomes(c, "reading")
    /\ clients' = <<c>> \o clients
    /\ UNCHANGED <<got, posted, awaits, relay, audience, shifted, timedOut>>

Connect(c) ==
    /\ link[c] = "away"
    /\ Becomes(c, "reading")
    /\ clients' = Append(clients, c)
    /\ UNCHANGED <<got, posted, awaits, relay, audience, shifted, timedOut>>

(* A dashboard stops reading, reads again, or is lost.                     *)
Stick(c) == link[c] = "reading" /\ Becomes(c, "stuck")
Drain(c) == link[c] = "stuck" /\ Becomes(c, "reading")
Break(c) == c \in Connected /\ Becomes(c, "broken")

Turn(c) ==
    /\ Stick(c) \/ Drain(c) \/ Break(c)
    /\ UNCHANGED <<clients, got, posted, awaits, relay, audience, shifted, timedOut>>

(* What is left of a list when some are removed from it, in its order.     *)
Others(list, gone) ==
    LET others[n \in 0..Len(list)] ==
            IF n = 0 THEN <<>>
            ELSE IF list[n] \in gone THEN others[n - 1]
            ELSE Append(others[n - 1], list[n])
    IN  others[Len(list)]

(* The list without some: a loop that is past them misses the next one.    *)
Without(gone, finished) ==
    /\ clients' = Others(clients, gone)
    /\ shifted' = {u \in Updates \ finished :
                      \/ u \in shifted
                      \/ /\ relay[u].at = "sending"
                         /\ \E i \in DOMAIN clients :
                               clients[i] \in gone /\ i < relay[u].next}

(* The handler of a dashboard finds that it is lost. *)
Leave(c) ==
    /\ link[c] = "broken"
    /\ Becomes(c, "gone")
    /\ Without({c}, {})
    /\ UNCHANGED <<got, posted, awaits, relay, audience, timedOut>>

-----------------------------------------------------------------------------
(* Updates                                                                 *)

Post(s) ==
    /\ s \notin awaits /\ posted[s] < Chunks
    /\ posted' = [posted EXCEPT ![s] = @ + 1]
    /\ awaits' = awaits \cup {s}
    /\ relay' = [relay EXCEPT ![<<s, posted[s] + 1>>] = Start("posted")]
    /\ UNCHANGED <<link, clients, got, audience, shifted, timedOut>>

(* Faulty: waits for as long as it takes. *)
TimeoutNever(s) == FALSE /\ UNCHANGED relayVars

(* The session's timeout; the exception is swallowed, and the update goes  *)
(* on without the source.                                                  *)
Timeout(s) ==
    /\ s \in awaits
    /\ awaits' = awaits \ {s}
    /\ timedOut' = timedOut \cup {s}
    /\ UNCHANGED <<link, clients, got, posted, relay, audience, shifted>>

Begin(u) ==
    /\ relay[u].at = "posted"
    /\ relay' = [relay EXCEPT ![u] = Start("sending")]
    /\ audience' = [audience EXCEPT ![u] = Range(clients)]
    /\ UNCHANGED <<link, clients, got, posted, awaits, shifted, timedOut>>

(* The next of the list, as it is by now: the loop waits for a dashboard   *)
(* that is stuck.                                                          *)
Send(u) ==
    /\ relay[u].at = "sending" /\ relay[u].to = None
    /\ relay[u].next \in DOMAIN clients
    /\ LET c == clients[relay[u].next]
       IN  IF c \in Connected
           THEN /\ got' = [got EXCEPT ![c] = Append(@, u)]
                /\ relay' = [relay EXCEPT ![u].next = @ + 1,
                                          ![u].to = IF link[c] = "stuck" THEN c ELSE None]
           ELSE /\ relay' = [relay EXCEPT ![u].next = @ + 1, ![u].dead = @ \cup {c}]
                /\ UNCHANGED got
    /\ UNCHANGED <<link, clients, posted, awaits, audience, shifted, timedOut>>

(* Sends that wait for the same socket go on in their order.               *)
Sent(u) ==
    /\ relay[u].to # None
    /\ \A k \in 1..(u[2] - 1) : relay[<<u[1], k>>].to # relay[u].to
    /\ \/ /\ link[relay[u].to] = "reading"
          /\ relay' = [relay EXCEPT ![u].to = None]
       \/ /\ relay[u].to \notin Connected
          /\ relay' = [relay EXCEPT ![u].to = None, ![u].dead = @ \cup {relay[u].to}]
    /\ UNCHANGED <<link, clients, got, posted, awaits, audience, shifted, timedOut>>

(* Faulty: drops whoever the loop has not reached. *)
FinishDropping(u) ==
    /\ relay[u].at = "sending" /\ relay[u].to = None
    /\ relay[u].next \notin DOMAIN clients
    /\ relay' = [relay EXCEPT ![u] = Start("done")]
    /\ Without({c \in Clients : c \notin audience[u] \/ c \in relay[u].dead}, {u})
    /\ awaits' = awaits \ {s \in Sources : u = <<s, posted[s]>>}
    /\ audience' = [audience EXCEPT ![u] = {}]
    /\ UNCHANGED <<link, got, posted, timedOut>>

(* Those that could not be sent to leave the list, and the source is       *)
(* answered, if it still waits.                                            *)
Finish(u) ==
    /\ relay[u].at = "sending" /\ relay[u].to = None
    /\ relay[u].next \notin DOMAIN clients
    /\ relay' = [relay EXCEPT ![u] = Start("done")]
    /\ Without(relay[u].dead, {u})
    /\ awaits' = awaits \ {s \in Sources : u = <<s, posted[s]>>}
    /\ audience' = [audience EXCEPT ![u] = {}]
    /\ UNCHANGED <<link, got, posted, timedOut>>

-----------------------------------------------------------------------------

RelayNext ==
    \/ \E c \in Clients : Connect(c) \/ Turn(c) \/ Leave(c)
    \/ \E s \in Sources : Post(s) \/ Timeout(s)
    \/ \E u \in Updates : Begin(u) \/ Send(u) \/ Sent(u) \/ Finish(u)

RelaySpec == RelayInit /\ [][RelayNext]_relayVars

(* The loops go on; a request is answered or times out.  Nothing makes a   *)
(* dashboard read: the center sends no pings and sets no timeout.          *)
RelayFairness ==
    /\ \A c \in Clients : WF_relayVars(Leave(c))
    /\ \A s \in Sources : WF_relayVars(Post(s)) /\ WF_relayVars(Timeout(s))
    /\ \A u \in Updates : WF_relayVars(Begin(u) \/ Send(u) \/ Sent(u) \/ Finish(u))

FairRelaySpec == RelaySpec /\ RelayFairness

-----------------------------------------------------------------------------

(* user_agent.py:1078: "The center node relays these to all connected      *)
(* WebSocket dashboard clients".  A dashboard that was connected all the   *)
(* time an update was relayed is sent it, unless another one before it     *)
(* left the list meanwhile: the loop then skips one that is there.         *)
SkippedHasCause ==
    [][\A u \in Updates : relay[u].at = "sending" /\ relay'[u].at = "done" =>
          \A c \in audience[u] \cap Connected : u \in Range(got[c]) \/ u \in shifted]_relayVars

(* No dashboard is sent an update twice, nor the chunks of an answer in    *)
(* another order than the agent's, however many relays overlap, unless the *)
(* agent has given up waiting for one.                                     *)
ShownInOrder ==
    \A c \in Clients : \A i, j \in DOMAIN got[c] : i < j =>
        LET u == got[c][i]  v == got[c][j]
        IN  u # v /\ (u[1] = v[1] /\ u[1] \notin timedOut => u[2] < v[2])

(* user_agent.py:1102, "Never let streaming reporting block or crash       *)
(* inference": a task that streams posts all its chunks and goes on, even  *)
(* when a dashboard never reads again and the relays wait for it for ever. *)
(* Each chunk may take as long as the session's timeout.                   *)
StreamEnds == \A s \in Sources : <>(posted[s] = Chunks /\ s \notin awaits)

=============================================================================
