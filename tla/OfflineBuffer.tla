---------------------------- MODULE OfflineBuffer ----------------------------
(***************************************************************************)
(* How an agent's results reach the center (systems/user_agent.py).        *)
(*                                                                         *)
(* Every task coroutine that ends calls _report_task_completion: the       *)
(* record is POSTed when the agent believes it is connected and appended   *)
(* to ~/.vimin/offline_buffer.ndjson otherwise, or when the POST raises.   *)
(* The heartbeat loop alone decides what "connected" means; a heartbeat    *)
(* that succeeds after one that failed starts _flush_offline_buffer, which *)
(* takes the whole file, POSTs its entries one by one and writes the ones  *)
(* that failed back.  POSTs are awaited in threads, so reports, flushes    *)
(* and heartbeats of the one event loop interleave between them.           *)
(*                                                                         *)
(* Abstractions.  The order of the lines of the file does not matter to    *)
(* what is said here, so the file, and the lists entries and failed of a   *)
(* flush, are sets.  An empty file stands for an absent one.  The center   *)
(* is the function received: a POST that arrives is processed once.        *)
(***************************************************************************)
EXTENDS Naturals, FiniteSets

CONSTANTS
    Results,      \* the records of the tasks the agent executes
    Flush,        \* the flush coroutines that can be alive at once (bound)
    MaxFaults,    \* outages and single failed requests in a run (bound)
    MaxCrashes    \* deaths of the agent process in a run (bound)

ASSUME BufferAssumption ==
    /\ MaxFaults \in Nat
    /\ MaxCrashes \in Nat

VARIABLES
    linkUp,       \* the center can be reached
    connected,    \* UserAgent._connected
    reports,      \* records whose direct POST is in flight
    file,         \* records in the offline buffer file
    torn,         \* a line of the file does not parse
    phase,        \* state of each flush coroutine
    todo,         \* records a flush has read and not yet POSTed
    failed,       \* records a flush could not POST
    received,     \* how often the center processed each record
    produced,     \* history: records of tasks that ended
    unacked,      \* history: arrived POSTs the agent saw fail, per record
    clobbered,    \* history: records overwritten in the file
    crashed,      \* history: records that died in memory with the process
    faults, crashes

centerVars  == <<linkUp, received>>
flushVars   == <<phase, todo, failed>>
historyVars == <<produced, unacked, clobbered, crashed>>
boundVars   == <<faults, crashes>>
processVars == <<torn, crashes>>
vars == <<centerVars, connected, reports, file, torn, flushVars, historyVars,
          boundVars>>

Held(f) == todo[f] \cup failed[f]

InFlush == UNION {Held(f) : f \in Flush}

(* Everything the agent could still send. *)
Holding == file \cup reports \cup InFlush

(* Records the agent no longer has although it may not have sent them. *)
Lost == clobbered \cup crashed

Init ==
    /\ linkUp = TRUE
    /\ connected = TRUE
    /\ reports = {}
    /\ file = {}
    /\ torn = FALSE
    /\ phase = [f \in Flush |-> "idle"]
    /\ todo = [f \in Flush |-> {}]
    /\ failed = [f \in Flush |-> {}]
    /\ received = [r \in Results |-> 0]
    /\ produced = {}
    /\ unacked = [r \in Results |-> 0]
    /\ clobbered = {}
    /\ crashed = {}
    /\ faults = 0
    /\ crashes = 0

-----------------------------------------------------------------------------
(* The outcomes of one POST.  With the link down every request fails; with *)
(* the link up a request can still time out, be refused (an HTTP error     *)
(* raises too), or arrive and lose its answer, and each of these uses up   *)
(* one fault.                                                              *)

Arrives(r) == received' = [received EXCEPT ![r] = @ + 1]

PostSucceeds(r) ==
    /\ linkUp
    /\ Arrives(r)
    /\ UNCHANGED <<unacked, faults>>

PostFails ==
    /\ IF linkUp
       THEN faults < MaxFaults /\ faults' = faults + 1
       ELSE UNCHANGED faults
    /\ UNCHANGED <<received, unacked>>

PostLosesReply(r) ==
    /\ linkUp
    /\ faults < MaxFaults
    /\ Arrives(r)
    /\ unacked' = [unacked EXCEPT ![r] = @ + 1]
    /\ faults' = faults + 1

PostRaises(r) == PostFails \/ PostLosesReply(r)

-----------------------------------------------------------------------------
(* _report_task_completion *)

BufferLocally(r) == file' = file \cup {r}

(* A task coroutine ends and reports: buffered at once while disconnected, *)
(* otherwise the POST is started and awaited.                              *)
ReportTaskCompletion(r) ==
    /\ r \notin produced
    /\ produced' = produced \cup {r}
    /\ IF connected
       THEN reports' = reports \cup {r} /\ UNCHANGED file
       ELSE BufferLocally(r) /\ UNCHANGED reports
    /\ UNCHANGED <<centerVars, connected, flushVars, unacked, clobbered,
                   crashed, torn, boundVars>>

(* Faulty: a record whose POST raised is dropped. *)
ReportReturnsDropping(r) ==
    /\ r \in reports
    /\ reports' = reports \ {r}
    /\ PostSucceeds(r) \/ PostRaises(r)
    /\ UNCHANGED <<linkUp, connected, file, flushVars, produced, clobbered,
                   crashed, processVars>>

(* Faulty: a record is buffered whatever the outcome of its POST. *)
ReportReturnsBuffering(r) ==
    /\ r \in reports
    /\ reports' = reports \ {r}
    /\ PostSucceeds(r) \/ PostRaises(r)
    /\ BufferLocally(r)
    /\ UNCHANGED <<linkUp, connected, flushVars, produced, clobbered, crashed,
                   processVars>>

(* The awaited POST returns, or raises and the record is buffered, whether *)
(* or not the agent believes it is connected.                              *)
ReportReturns(r) ==
    /\ r \in reports
    /\ reports' = reports \ {r}
    /\ \/ PostSucceeds(r) /\ UNCHANGED file
       \/ PostRaises(r) /\ BufferLocally(r)
    /\ UNCHANGED <<linkUp, connected, flushVars, produced, clobbered, crashed,
                   processVars>>

-----------------------------------------------------------------------------
(* _heartbeat_loop *)

(* Faulty: the reconnection is noted and nothing is flushed. *)
HeartbeatSucceedsSilently ==
    /\ linkUp
    /\ ~connected
    /\ connected' = TRUE
    /\ UNCHANGED <<centerVars, reports, file, flushVars, historyVars,
                   torn, boundVars>>

HeartbeatSucceeds ==
    /\ linkUp
    /\ ~connected
    /\ connected' = TRUE
    /\ \E f \in Flush :
          /\ phase[f] = "idle"
          /\ phase' = [phase EXCEPT ![f] = "started"]
    /\ UNCHANGED <<centerVars, reports, file, todo, failed, historyVars,
                   torn, boundVars>>

HeartbeatFails ==
    /\ connected
    /\ connected' = FALSE
    /\ PostFails
    /\ UNCHANGED <<linkUp, reports, file, flushVars, produced, clobbered,
                   crashed, processVars>>

-----------------------------------------------------------------------------
(* _flush_offline_buffer *)

(* Faulty: the file that has been read is not unlinked. *)
FlushReadsKeepingFile(f) ==
    /\ phase[f] = "started"
    /\ phase' = [phase EXCEPT ![f] = IF file = {} THEN "idle" ELSE "posting"]
    /\ todo' = [todo EXCEPT ![f] = file]
    /\ UNCHANGED <<centerVars, connected, reports, file, failed, historyVars,
                   torn, boundVars>>

(* The coroutine runs up to its first await: it reads and unlinks the      *)
(* file, or returns when there is none, or leaves it as it is when a line  *)
(* does not parse.                                                         *)
FlushReads(f) ==
    /\ phase[f] = "started"
    /\ IF file = {} \/ torn
       THEN /\ phase' = [phase EXCEPT ![f] = "idle"]
            /\ UNCHANGED <<file, todo>>
       ELSE /\ phase' = [phase EXCEPT ![f] = "posting"]
            /\ todo' = [todo EXCEPT ![f] = file]
            /\ file' = {}
    /\ UNCHANGED <<centerVars, connected, reports, failed, historyVars,
                   torn, boundVars>>

(* Faulty: the entries that failed are forgotten. *)
RewriteNothing(stillFailed) == UNCHANGED <<file, clobbered>>

(* After the last entry the failed ones are written back with mode "w",    *)
(* over whatever has been appended to the file since it was read.  No line *)
(* is torn: the flush would not have read it.                              *)
RewriteFile(stillFailed) ==
    IF stillFailed = {}
    THEN UNCHANGED <<file, clobbered>>
    ELSE /\ file' = stillFailed
         /\ clobbered' = clobbered \cup (file \ stillFailed)

(* An entry has been POSTed, fails being the empty set or the entry. *)
FlushAdvances(f, r, fails) ==
    /\ todo' = [todo EXCEPT ![f] = @ \ {r}]
    /\ IF todo[f] = {r}
       THEN /\ RewriteFile(failed[f] \cup fails)
            /\ failed' = [failed EXCEPT ![f] = {}]
            /\ phase' = [phase EXCEPT ![f] = "idle"]
       ELSE /\ failed' = [failed EXCEPT ![f] = @ \cup fails]
            /\ UNCHANGED <<phase, file, clobbered>>
    /\ UNCHANGED <<linkUp, connected, reports, produced, crashed, processVars>>

FlushPosts(f, r) ==
    /\ r \in todo[f]
    /\ PostSucceeds(r)
    /\ FlushAdvances(f, r, {})

FlushPostRaises(f, r) ==
    /\ r \in todo[f]
    /\ PostRaises(r)
    /\ FlushAdvances(f, r, {r})

-----------------------------------------------------------------------------
(* Environment *)

LinkDown ==
    /\ linkUp
    /\ faults < MaxFaults
    /\ linkUp' = FALSE
    /\ faults' = faults + 1
    /\ UNCHANGED <<connected, reports, file, flushVars, received, historyVars,
                   processVars>>

LinkRestored ==
    /\ ~linkUp
    /\ linkUp' = TRUE
    /\ UNCHANGED <<connected, reports, file, flushVars, received, historyVars,
                   torn, boundVars>>

(* The process dies and is started again: the file survives, __init__      *)
(* assumes it is connected.  It may die while it writes a line, and what   *)
(* it appends to half a line later does not parse either.                  *)
CrashAndRestart ==
    /\ crashes < MaxCrashes
    /\ crashes' = crashes + 1
    /\ connected' = TRUE
    /\ torn' \in {torn, TRUE}
    /\ crashed' = crashed \cup reports \cup InFlush
    /\ reports' = {}
    /\ phase' = [f \in Flush |-> "idle"]
    /\ todo' = [f \in Flush |-> {}]
    /\ failed' = [f \in Flush |-> {}]
    /\ UNCHANGED <<centerVars, file, produced, unacked, clobbered, faults>>

-----------------------------------------------------------------------------

Next ==
    \/ \E r \in Results : ReportTaskCompletion(r) \/ ReportReturns(r)
    \/ HeartbeatSucceeds
    \/ HeartbeatFails
    \/ \E f \in Flush : FlushReads(f)
    \/ \E f \in Flush, r \in Results :
          FlushPosts(f, r) \/ FlushPostRaises(f, r)
    \/ LinkDown
    \/ LinkRestored
    \/ CrashAndRestart

(* The event loop runs every coroutine that can run, a request ends, the   *)
(* heartbeat loop comes round, and an outage of the network ends.          *)
Fairness ==
    /\ WF_vars(HeartbeatSucceeds)
    /\ WF_vars(LinkRestored)
    /\ \A f \in Flush : WF_vars(FlushReads(f))
    /\ \A r \in Results : WF_vars(ReportReturns(r))
    /\ \A f \in Flush : WF_vars(\E r \in Results :
                                   FlushPosts(f, r) \/ FlushPostRaises(f, r))

Spec == Init /\ [][Next]_vars

FairSpec == Spec /\ Fairness

-----------------------------------------------------------------------------
(* Properties *)

(* Every variable has the type its code counterpart has. *)
TypeOK ==
    /\ linkUp \in BOOLEAN /\ connected \in BOOLEAN
    /\ reports \subseteq Results /\ file \subseteq Results
    /\ torn \in BOOLEAN
    /\ phase \in [Flush -> {"idle", "started", "posting"}]
    /\ todo \in [Flush -> SUBSET Results]
    /\ failed \in [Flush -> SUBSET Results]
    /\ received \in [Results -> Nat] /\ unacked \in [Results -> Nat]
    /\ produced \subseteq Results
    /\ clobbered \subseteq Results /\ crashed \subseteq Results
    /\ faults \in 0..MaxFaults /\ crashes \in 0..MaxCrashes

(* A record the agent could still send is in exactly one place: in a       *)
(* direct POST, in the file, or in the hands of one flush.  Were it in     *)
(* two, the center would get it twice although nothing failed.             *)
SingleHolder ==
    /\ reports \cap file = {}
    /\ \A f \in Flush :
          /\ Held(f) \cap (reports \cup file) = {}
          /\ todo[f] \cap failed[f] = {}
    /\ \A f, g \in Flush : f # g => Held(f) \cap Held(g) = {}

(* The center, which does not recognise a record it has already processed, *)
(* processes a record more often than once only for each POST that arrived *)
(* and was seen to fail by the agent: overlapping flushes and reports add  *)
(* no duplicate of their own.                                              *)
NoSpuriousDuplicate == \A r \in Results : received[r] <= unacked[r] + 1

(* The record of a task that ended is processed by the center or still     *)
(* with the agent, unless it was in memory when the process died or in the *)
(* file when a flush wrote its failures over it.  Nothing else loses one.  *)
OnlyKnownLosses ==
    \A r \in produced :
        r \in Holding \cup Lost \/ received[r] > 0

(* Only a flush that is posting has records in its hands.  Nothing is      *)
(* held, lost or processed that no task has produced.  A record that is    *)
(* still held has only been processed by POSTs the agent saw fail.         *)
Accounted ==
    /\ \A f \in Flush : phase[f] # "posting" => Held(f) = {}
    /\ Holding \cup Lost \subseteq produced
    /\ \A r \in Results : r \notin produced => received[r] = 0
    /\ \A r \in Holding : received[r] <= unacked[r]

(* The inductive invariant: each conjunct needs others. *)
ResultInv ==
    /\ TypeOK
    /\ Accounted
    /\ SingleHolder
    /\ NoSpuriousDuplicate
    /\ OnlyKnownLosses

(* The agent's result path is an at-least-once channel with the two losses *)
(* above.                                                                  *)
Channel == INSTANCE ResultChannel
               WITH holding <- Holding, got <- received,
                    lost <- Lost

ImplementsChannel == Channel!ChannelSpec

(* No outage, failed request or crash is still to come. *)
Quiet == linkUp /\ faults = MaxFaults /\ crashes = MaxCrashes

(* A record buffered while the agent knows it is disconnected, with no     *)
(* flush alive, is processed by the center once the network is back for    *)
(* good: the next successful heartbeat flushes the whole file.  A line     *)
(* that does not parse keeps every flush from replaying any of them.       *)
BufferDrainsAfterReconnect ==
    \A r \in Results :
        (/\ r \in file /\ ~torn /\ ~connected /\ Quiet
         /\ \A f \in Flush : phase[f] = "idle")
            ~> received[r] > 0

(* The docstrings of _report_task_completion ("written to the local        *)
(* offline buffer so it can be replayed when connectivity is restored")    *)
(* and _flush_offline_buffer ("Replay all locally-buffered events"): while *)
(* the process lives, the record of an ended task is never lost.           *)
NoResultLost ==
    \A r \in produced \ crashed : r \in Holding \/ received[r] > 0

=============================================================================
