--------------------------- MODULE Reports_proofs ---------------------------
(***************************************************************************)
(* Proofs about what an agent reports: how the result of a task gets to    *)
(* the center (OfflineBuffer), for any set of records, any number of flush *)
(* coroutines and any bounds; and how an update, a chunk of a streamed     *)
(* answer or a completion, goes on from the center to the dashboards       *)
(* (Dashboards), for any number of dashboards, sources and updates.        *)
(*                                                                         *)
(* The loop over the list of dashboards goes wrong only through the list:  *)
(* a removal moves those behind it.  The lemmas about Others say by how    *)
(* much, for any list; the invariant of Dashboards says that those behind  *)
(* the loop have been sent the update, and that those ahead of it have not.*)
(***************************************************************************)
EXTENDS OfflineBuffer, Dashboards, SequenceTheorems, WellFoundedInduction, TLAPS

-----------------------------------------------------------------------------
(* OfflineBuffer                                                           *)

(* The type invariant of the result path (UserAgent._report_task_completion, *)
(* _buffer_locally and _flush_offline_buffer).                               *)
THEOREM TypeCorrect == Spec => []TypeOK
<1>1. Init => TypeOK
  <2> SUFFICES ASSUME Init PROVE TypeOK
    OBVIOUS
  <2>1. torn \in BOOLEAN
    BY Zenon DEF Init
  <2>2. QED
    BY <2>1, BufferAssumption DEF Init, TypeOK
<1>2. TypeOK /\ [Next]_vars => TypeOK'
  <2> SUFFICES ASSUME TypeOK, [Next]_vars PROVE TypeOK'
    OBVIOUS
  <2> USE BufferAssumption DEF TypeOK
  <2>1. ASSUME NEW r \in Results, ReportTaskCompletion(r) PROVE TypeOK'
    BY <2>1 DEF ReportTaskCompletion, BufferLocally, centerVars, flushVars,
                boundVars
  <2>2. ASSUME NEW r \in Results, ReportReturns(r) PROVE TypeOK'
    BY <2>2 DEF ReportReturns, BufferLocally, PostSucceeds, PostRaises,
                PostFails, PostLosesReply, Arrives, flushVars, processVars
  <2>3. CASE HeartbeatSucceeds
    BY <2>3 DEF HeartbeatSucceeds, centerVars, historyVars, boundVars
  <2>4. CASE HeartbeatFails
    <3>1. connected' \in BOOLEAN
      BY <2>4, Zenon DEF HeartbeatFails
    <3>2. linkUp' = linkUp /\ faults' \in 0..MaxFaults
      BY <2>4 DEF HeartbeatFails, PostFails
    <3>3. QED
      BY <2>4, <3>1, <3>2 DEF HeartbeatFails, PostFails, flushVars, processVars
  <2>5. ASSUME NEW f \in Flush, FlushReads(f) PROVE TypeOK'
    BY <2>5 DEF FlushReads, centerVars, historyVars, boundVars
  <2>6. ASSUME NEW f \in Flush, NEW r \in Results, FlushPosts(f, r)
        PROVE  TypeOK'
    BY <2>6 DEF FlushPosts, PostSucceeds, Arrives, FlushAdvances, RewriteFile,
                processVars
  <2>7. ASSUME NEW f \in Flush, NEW r \in Results, FlushPostRaises(f, r)
        PROVE  TypeOK'
    BY <2>7 DEF FlushPostRaises, PostRaises, PostFails, PostLosesReply,
                Arrives, FlushAdvances, RewriteFile, processVars
  <2>8. CASE LinkDown
    <3>1. linkUp' \in BOOLEAN
      BY <2>8, Zenon DEF LinkDown
    <3>2. QED
      BY <2>8, <3>1 DEF LinkDown, flushVars, historyVars, processVars
  <2>9. CASE LinkRestored
    BY <2>9 DEF LinkRestored, flushVars, historyVars, boundVars
  <2>10. CASE CrashAndRestart
    <3>1. torn' \in BOOLEAN
      BY <2>10, Zenon DEF CrashAndRestart
    <3>2. QED
      BY <2>10, <3>1 DEF CrashAndRestart, centerVars, InFlush, Held
  <2>11. CASE UNCHANGED vars
    BY <2>11 DEF vars, centerVars, flushVars, historyVars, boundVars
  <2>12. QED
    BY <2>1, <2>2, <2>3, <2>4, <2>5, <2>6, <2>7, <2>8, <2>9, <2>10, <2>11
       DEF Next
<1>3. QED
  BY <1>1, <1>2, PTL DEF Spec

-----------------------------------------------------------------------------

(* A flush coroutine that POSTs the record r next. *)
LEMMA FlushStepInv ==
    ASSUME ResultInv, NEW f \in Flush, NEW r \in todo[f],
           NEW fails, fails \in SUBSET {r},
           FlushAdvances(f, r, fails),
           received' \in [Results -> Nat], unacked' \in [Results -> Nat],
           \A s \in Results \ {r} :
               received'[s] = received[s] /\ unacked'[s] = unacked[s],
           received'[r] >= received[r],
           received'[r] <= unacked'[r] + 1,
           fails = {} => received'[r] > 0,
           fails = {r} => received'[r] <= unacked'[r]
    PROVE  Accounted' /\ SingleHolder' /\ NoSpuriousDuplicate'
               /\ OnlyKnownLosses'
<1> USE DEF ResultInv, TypeOK
<1>1. r \in Results /\ r \in produced /\ phase[f] = "posting"
  BY DEF Accounted, Lost, Holding, InFlush, Held
<1>2. NoSpuriousDuplicate'
  BY <1>1 DEF NoSpuriousDuplicate
<1>3. CASE todo[f] = {r}
  <2>1. todo' = [todo EXCEPT ![f] = {}] /\ failed' = [failed EXCEPT ![f] = {}]
    BY <1>3 DEF FlushAdvances
  <2>2. SingleHolder'
    BY <1>1, <1>3, <2>1 DEF SingleHolder, Held, FlushAdvances, RewriteFile
  <2>3. Accounted'
    BY <1>1, <1>3, <2>1 DEF Accounted, Lost, SingleHolder, Holding, InFlush,
                            Held,
                            FlushAdvances, RewriteFile
  <2>4. OnlyKnownLosses'
    BY <1>1, <1>3, <2>1 DEF OnlyKnownLosses, Lost, Holding, InFlush, Held,
                            FlushAdvances, RewriteFile
  <2>5. QED
    BY <1>2, <2>2, <2>3, <2>4
<1>4. CASE todo[f] # {r}
  <2>1. /\ todo' = [todo EXCEPT ![f] = @ \ {r}]
        /\ failed' = [failed EXCEPT ![f] = @ \cup fails]
    BY <1>4 DEF FlushAdvances
  <2>2. SingleHolder'
    BY <1>1, <1>4, <2>1 DEF SingleHolder, Held, FlushAdvances
  <2>3. Accounted'
    BY <1>1, <1>4, <2>1 DEF Accounted, Lost, SingleHolder, Holding, InFlush,
                            Held,
                            FlushAdvances
  <2>4. OnlyKnownLosses'
    BY <1>1, <1>4, <2>1 DEF OnlyKnownLosses, Lost, Holding, InFlush, Held,
                            FlushAdvances
  <2>5. QED
    BY <1>2, <2>2, <2>3, <2>4
<1>5. QED
  BY <1>3, <1>4

(* One POST of a record that is held: what the center and the agent know   *)
(* of it afterwards.                                                       *)
LEMMA PostOutcome ==
    ASSUME TypeOK, NoSpuriousDuplicate, NEW r \in Results,
           received[r] <= unacked[r],
           PostSucceeds(r) \/ PostRaises(r)
    PROVE  /\ received' \in [Results -> Nat] /\ unacked' \in [Results -> Nat]
           /\ \A s \in Results \ {r} :
                  received'[s] = received[s] /\ unacked'[s] = unacked[s]
           /\ received'[r] >= received[r]
           /\ received'[r] <= unacked'[r] + 1
           /\ PostSucceeds(r) => received'[r] > 0
           /\ PostRaises(r) => received'[r] <= unacked'[r]
<1>1. CASE PostSucceeds(r)
  BY <1>1 DEF TypeOK, PostSucceeds, PostRaises, PostFails, PostLosesReply,
              Arrives
<1>2. CASE PostRaises(r)
  BY <1>2 DEF TypeOK, PostSucceeds, PostRaises, PostFails, PostLosesReply,
              Arrives
<1>3. QED
  BY <1>1, <1>2

(* The inductive invariant of the result path. *)
THEOREM ResultsAccounted == Spec => []ResultInv
<1>1. Init => Accounted /\ SingleHolder /\ NoSpuriousDuplicate
                  /\ OnlyKnownLosses
  BY DEF Init, Accounted, Lost, SingleHolder, NoSpuriousDuplicate,
         OnlyKnownLosses,
         Holding, InFlush, Held
<1>2. ResultInv /\ [Next]_vars
        => Accounted' /\ SingleHolder' /\ NoSpuriousDuplicate'
               /\ OnlyKnownLosses'
  <2> DEFINE Goal == Accounted' /\ SingleHolder' /\ NoSpuriousDuplicate'
                         /\ OnlyKnownLosses'
  <2> SUFFICES ASSUME ResultInv, [Next]_vars PROVE Goal
    OBVIOUS
  <2> USE DEF ResultInv
  <2>1. ASSUME NEW r \in Results, ReportTaskCompletion(r) PROVE Goal
    <3>1. r \notin Holding /\ received[r] = 0 /\ unacked[r] >= 0
      BY <2>1 DEF ReportTaskCompletion, Accounted, Lost, TypeOK
    <3>2. /\ reports' \cup file' = reports \cup file \cup {r}
          /\ reports \subseteq reports' /\ file \subseteq file'
          /\ reports' \cap file' \subseteq reports \cap file
          /\ UNCHANGED <<flushVars, received, unacked, clobbered, crashed>>
          /\ produced' = produced \cup {r}
      BY <2>1, <3>1 DEF ReportTaskCompletion, BufferLocally, centerVars,
                        Holding, SingleHolder
    <3>3. InFlush' = InFlush /\ Holding' = Holding \cup {r}
      BY <3>2 DEF Holding, InFlush, Held, flushVars
    <3>4. SingleHolder'
      BY <3>1, <3>2 DEF SingleHolder, Holding, InFlush, Held, flushVars
    <3>5. Accounted'
      BY <3>1, <3>2, <3>3 DEF Accounted, Lost, Held, flushVars
    <3>6. QED
      BY <3>2, <3>3, <3>4, <3>5 DEF NoSpuriousDuplicate, OnlyKnownLosses, Lost
  <2>2. ASSUME NEW r \in Results, ReportReturns(r) PROVE Goal
    <3>1. r \in Holding /\ received[r] <= unacked[r]
      BY <2>2 DEF ReportReturns, Accounted, Lost, Holding
    <3>2. PostSucceeds(r) \/ PostRaises(r)
      BY <2>2 DEF ReportReturns
    <3>3. /\ reports' = reports \ {r}
          /\ r \in reports
          /\ UNCHANGED <<flushVars, produced, clobbered, crashed>>
          /\ \/ PostSucceeds(r) /\ file' = file
             \/ PostRaises(r) /\ file' = file \cup {r}
      BY <2>2 DEF ReportReturns, BufferLocally
    <3>4. SingleHolder'
      BY <3>3 DEF SingleHolder, Held, flushVars
    <3>5. Accounted'
      BY <3>1, <3>2, <3>3, PostOutcome
         DEF Accounted, Lost, SingleHolder, Holding, InFlush, Held, flushVars,
             TypeOK
    <3>6. NoSpuriousDuplicate'
      BY <3>1, <3>2, PostOutcome DEF NoSpuriousDuplicate
    <3>7. OnlyKnownLosses'
      BY <3>1, <3>2, <3>3, PostOutcome
         DEF OnlyKnownLosses, Lost, Holding, InFlush, Held, flushVars, TypeOK
    <3>8. QED
      BY <3>4, <3>5, <3>6, <3>7
  <2>3. CASE \/ HeartbeatSucceeds \/ HeartbeatFails
             \/ LinkDown \/ LinkRestored \/ UNCHANGED vars
    <3>1. /\ UNCHANGED <<received, unacked, reports, file, todo, failed,
                         produced, clobbered, crashed>>
          /\ \A f \in Flush : phase'[f] # "posting" => phase[f] # "posting"
      BY <2>3 DEF HeartbeatSucceeds, HeartbeatFails, PostFails, LinkDown,
                  LinkRestored, vars, centerVars, flushVars, historyVars,
                  boundVars, TypeOK
    <3>2. QED
      BY <3>1 DEF Accounted, Lost, SingleHolder, NoSpuriousDuplicate,
                  OnlyKnownLosses, Holding, InFlush, Held
  <2>4. ASSUME NEW f \in Flush, FlushReads(f) PROVE Goal
    <3>1. /\ todo[f] = {} /\ failed[f] = {}
          /\ todo' = IF phase'[f] = "posting"
                     THEN [todo EXCEPT ![f] = file] ELSE todo
          /\ file' = IF phase'[f] = "posting" THEN {} ELSE file
          /\ \A g \in Flush \ {f} : phase'[g] = phase[g]
          /\ UNCHANGED <<received, unacked, reports, failed, produced,
                         clobbered, crashed>>
      BY <2>4 DEF FlushReads, Accounted, Lost, Held, centerVars, historyVars,
                  TypeOK
    <3>2. SingleHolder'
      BY <3>1 DEF SingleHolder, Held, TypeOK
    <3>3. CASE phase'[f] = "posting"
      <4>1. InFlush' = InFlush \cup file
        BY <3>1, <3>3 DEF InFlush, Held, TypeOK
      <4>2. Holding' = Holding
        BY <3>1, <3>3, <4>1 DEF Holding
      <4>3. Accounted'
        BY <3>1, <3>3, <4>2 DEF Accounted, Lost, Held, TypeOK
      <4>4. QED
        BY <3>1, <3>2, <4>2, <4>3
           DEF NoSpuriousDuplicate, OnlyKnownLosses, Lost
    <3>4. CASE phase'[f] # "posting"
      <4>1. Holding' = Holding
        BY <3>1, <3>4 DEF Holding, InFlush, Held
      <4>2. Accounted'
        BY <3>1, <3>4, <4>1 DEF Accounted, Lost, Held
      <4>3. QED
        BY <3>1, <3>2, <4>1, <4>2
           DEF NoSpuriousDuplicate, OnlyKnownLosses, Lost
    <3>5. QED
      BY <3>3, <3>4
  <2>5. ASSUME NEW f \in Flush, NEW r \in Results,
               FlushPosts(f, r) \/ FlushPostRaises(f, r)
        PROVE  Goal
    <3>1. r \in todo[f] /\ received[r] <= unacked[r]
      BY <2>5 DEF FlushPosts, FlushPostRaises, Accounted, Lost, Holding,
                  InFlush, Held
    <3>2. CASE FlushPosts(f, r)
      <4>1. PostSucceeds(r) /\ FlushAdvances(f, r, {})
        BY <3>2 DEF FlushPosts
      <4>2. QED
        BY <3>1, <4>1, PostOutcome, FlushStepInv
    <3>3. CASE FlushPostRaises(f, r)
      <4>1. PostRaises(r) /\ FlushAdvances(f, r, {r})
        BY <3>3 DEF FlushPostRaises
      <4>2. QED
        BY <3>1, <4>1, PostOutcome, FlushStepInv
    <3>4. QED
      BY <2>5, <3>2, <3>3
  <2>6. CASE CrashAndRestart
    <3>1. /\ reports' = {} /\ file' = file
          /\ \A f \in Flush : Held(f)' = {} /\ todo'[f] = {} /\ failed'[f] = {}
          /\ crashed' = crashed \cup reports \cup InFlush
          /\ UNCHANGED <<received, unacked, produced, clobbered>>
      BY <2>6 DEF CrashAndRestart, Held, centerVars
    <3>2. InFlush' = {} /\ Holding' = file
      BY <3>1 DEF Holding, InFlush
    <3>3. SingleHolder'
      BY <3>1 DEF SingleHolder
    <3>4. Accounted'
      BY <3>1, <3>2 DEF Accounted, Lost, Holding
    <3>5. QED
      BY <3>1, <3>2, <3>3, <3>4 DEF NoSpuriousDuplicate, OnlyKnownLosses, Lost,
                                    Holding
  <2>7. QED
    BY <2>1, <2>2, <2>3, <2>4, <2>5, <2>6 DEF Next
<1>3. QED
  BY <1>1, <1>2, TypeCorrect, PTL DEF Spec, ResultInv

(* The center processes a record more than once only for POSTs that the    *)
(* agent saw fail (_task_completion recognises no repetition).             *)
THEOREM NoSpuriousDuplicates == Spec => []NoSpuriousDuplicate
  BY ResultsAccounted, PTL DEF ResultInv

(* A record is never both in a POST of _report_task_completion and in the  *)
(* file or in a flush, nor in two flushes.                                 *)
THEOREM HeldOnce == Spec => []SingleHolder
  BY ResultsAccounted, PTL DEF ResultInv

(* A record leaves the agent unsent only when the process dies or when a   *)
(* flush writes its failures over the buffer file.                         *)
THEOREM LossesAreKnown == Spec => []OnlyKnownLosses
  BY ResultsAccounted, PTL DEF ResultInv

-----------------------------------------------------------------------------
(* The refinement of ResultChannel. *)

(* A flush moves a record from the agent to the center, or keeps it, and   *)
(* clobbers the rest of the file when it writes its failures.              *)
LEMMA FlushHolds ==
    ASSUME ResultInv, NEW f \in Flush, NEW r \in todo[f],
           NEW fails, fails \in SUBSET {r},
           FlushAdvances(f, r, fails)
    PROVE  \E dropped \in SUBSET Holding :
              /\ r \notin dropped
              /\ Holding' = (Holding \ (dropped \cup {r})) \cup fails
              /\ Lost' = Lost \cup dropped
<1> USE DEF ResultInv, TypeOK
<1>1. crashed' = crashed /\ reports' = reports /\ r \in Holding
  BY DEF FlushAdvances, Holding, InFlush, Held
<1>2. CASE todo[f] = {r} /\ failed[f] \cup fails # {}
  <2> DEFINE dropped == file \ (failed[f] \cup fails)
  <2>1. /\ todo' = [todo EXCEPT ![f] = {}]
        /\ failed' = [failed EXCEPT ![f] = {}]
        /\ file' = failed[f] \cup fails
        /\ clobbered' = clobbered \cup dropped
    BY <1>2 DEF FlushAdvances, RewriteFile
  <2>2. dropped = file /\ r \notin file /\ dropped \in SUBSET Holding
    BY DEF SingleHolder, Held, Holding
  <2>3. Holding' = (Holding \ (dropped \cup {r})) \cup fails
    <3>1. ASSUME NEW x \in Holding'
          PROVE  x \in (Holding \ (dropped \cup {r})) \cup fails
      BY <1>1, <1>2, <2>1, <2>2, <3>1
         DEF Holding, InFlush, Held, SingleHolder
    <3>2. ASSUME NEW x \in (Holding \ (dropped \cup {r})) \cup fails
          PROVE  x \in Holding'
      BY <1>1, <1>2, <2>1, <2>2, <3>2
         DEF Holding, InFlush, Held, SingleHolder
    <3>3. QED
      BY <3>1, <3>2
  <2>4. Lost' = Lost \cup dropped
    BY <1>1, <2>1 DEF Lost
  <2>5. QED
    BY <2>2, <2>3, <2>4
<1>3. CASE ~(todo[f] = {r} /\ failed[f] \cup fails # {})
  <2>1. /\ todo' = [todo EXCEPT ![f] = @ \ {r}]
        /\ failed' = [failed EXCEPT ![f] = @ \cup fails]
        /\ file' = file /\ clobbered' = clobbered
    BY <1>3 DEF FlushAdvances, RewriteFile
  <2>2. Holding' = (Holding \ {r}) \cup fails
    <3>1. ASSUME NEW x \in Holding'
          PROVE  x \in (Holding \ {r}) \cup fails
      BY <1>1, <2>1, <3>1 DEF Holding, InFlush, Held, SingleHolder
    <3>2. ASSUME NEW x \in (Holding \ {r}) \cup fails
          PROVE  x \in Holding'
      BY <1>1, <2>1, <3>2 DEF Holding, InFlush, Held, SingleHolder
    <3>3. QED
      BY <3>1, <3>2
  <2>3. Lost' = Lost
    BY <1>1, <2>1 DEF Lost
  <2>4. WITNESS {} \in SUBSET Holding
  <2>5. QED
    BY <2>2, <2>3
<1>4. QED
  BY <1>2, <1>3

(* The agent's result path is an at-least-once channel: every step of it   *)
(* produces a record, hands records over, loses some, or changes nothing   *)
(* that ResultChannel speaks of.                                           *)
THEOREM ResultPathIsChannel == Spec => ImplementsChannel
<1>1. Init => Channel!ChannelInit
  BY DEF Init, Channel!ChannelInit, Lost, Holding, InFlush, Held
<1>2. ResultInv /\ [Next]_vars => [Channel!ChannelNext]_(Channel!channelVars)
  <2> DEFINE Goal == Channel!ChannelNext \/ UNCHANGED Channel!channelVars
  <2> SUFFICES ASSUME ResultInv, [Next]_vars PROVE Goal
    OBVIOUS
  <2> USE DEF ResultInv
  <2>1. ASSUME NEW r \in Results, ReportTaskCompletion(r) PROVE Goal
    <3>1. r \notin Holding \cup Lost /\ received[r] = 0
      BY <2>1 DEF ReportTaskCompletion, Accounted, Lost
    <3>2. /\ UNCHANGED <<flushVars, received, clobbered, crashed>>
          /\ reports' \cup file' = reports \cup file \cup {r}
      BY <2>1 DEF ReportTaskCompletion, BufferLocally, centerVars
    <3>3. Holding' = Holding \cup {r}
      <4>1. InFlush' = InFlush
        BY <3>2 DEF InFlush, Held, flushVars
      <4>2. QED
        BY <3>2, <4>1 DEF Holding
    <3>4. Channel!Produce(r)
      BY <3>1, <3>2, <3>3 DEF Channel!Produce, Lost
    <3>5. QED
      BY <3>4 DEF Channel!ChannelNext
  <2>2. ASSUME NEW r \in Results, ReportReturns(r) PROVE Goal
    <3>1. /\ r \in reports /\ reports' = reports \ {r}
          /\ UNCHANGED <<flushVars, clobbered, crashed>>
      BY <2>2 DEF ReportReturns
    <3>2. /\ InFlush' = InFlush
          /\ r \notin InFlush /\ r \notin file /\ r \in Holding
      BY <3>1 DEF InFlush, Held, Holding, flushVars, SingleHolder
    <3>3. CASE PostSucceeds(r) /\ UNCHANGED file
      <4>1. /\ Holding' = Holding \ {r}
            /\ received' = [received EXCEPT ![r] = @ + 1]
        BY <3>1, <3>2, <3>3 DEF Holding, PostSucceeds, Arrives
      <4>2. Channel!HandOver(r, {})
        BY <3>1, <3>2, <4>1 DEF Channel!HandOver, Lost
      <4>3. QED
        BY <4>2 DEF Channel!ChannelNext
    <3>4. CASE PostFails /\ BufferLocally(r)
      <4>1. Holding' = Holding /\ received' = received
        BY <3>1, <3>2, <3>4 DEF Holding, PostFails, BufferLocally
      <4>2. QED
        BY <3>1, <4>1 DEF Channel!channelVars, Lost
    <3>5. CASE PostLosesReply(r) /\ BufferLocally(r)
      <4>1. Holding' = Holding /\ received' = [received EXCEPT ![r] = @ + 1]
        BY <3>1, <3>2, <3>5 DEF Holding, PostLosesReply, Arrives, BufferLocally
      <4>2. Channel!HandOverUnacknowledged(r, {})
        BY <3>1, <3>2, <4>1 DEF Channel!HandOverUnacknowledged, Lost
      <4>3. QED
        BY <4>2 DEF Channel!ChannelNext
    <3>6. QED
      BY <2>2, <3>3, <3>4, <3>5 DEF ReportReturns, PostRaises
  <2>3. CASE \/ HeartbeatSucceeds \/ HeartbeatFails
             \/ LinkDown \/ LinkRestored \/ UNCHANGED vars
    <3>1. UNCHANGED <<received, reports, file, todo, failed, clobbered,
                      crashed>>
      BY <2>3 DEF HeartbeatSucceeds, HeartbeatFails, PostFails, LinkDown,
                  LinkRestored, vars, centerVars, flushVars, historyVars,
                  boundVars
    <3>2. QED
      BY <3>1 DEF Channel!channelVars, Lost, Holding, InFlush, Held
  <2>4. ASSUME NEW f \in Flush, FlushReads(f) PROVE Goal
    <3>1. /\ todo[f] = {} /\ failed[f] = {}
          /\ \/ UNCHANGED <<file, todo>>
             \/ todo' = [todo EXCEPT ![f] = file] /\ file' = {}
          /\ UNCHANGED <<received, reports, failed, clobbered, crashed>>
      BY <2>4 DEF FlushReads, Accounted, Lost, Held, centerVars, historyVars
    <3>2. InFlush' \cup file' = InFlush \cup file
      BY <3>1 DEF InFlush, Held, TypeOK
    <3>3. Holding' = Holding
      BY <3>1, <3>2 DEF Holding
    <3>4. QED
      BY <3>1, <3>3 DEF Channel!channelVars, Lost
  <2>5. ASSUME NEW f \in Flush, NEW r \in Results, FlushPosts(f, r) PROVE Goal
    <3>1. /\ r \in todo[f] /\ FlushAdvances(f, r, {}) /\ r \in Holding
          /\ received' = [received EXCEPT ![r] = @ + 1]
      BY <2>5 DEF FlushPosts, PostSucceeds, Arrives, Holding, InFlush, Held
    <3>2. PICK dropped \in SUBSET Holding :
              /\ r \notin dropped
              /\ Holding' = (Holding \ (dropped \cup {r})) \cup {}
              /\ Lost' = Lost \cup dropped
      BY <3>1, FlushHolds
    <3>3. Channel!HandOver(r, dropped)
      BY <3>1, <3>2 DEF Channel!HandOver, Lost
    <3>4. QED
      BY <3>2, <3>3 DEF Channel!ChannelNext
  <2>6. ASSUME NEW f \in Flush, NEW r \in Results, FlushPostRaises(f, r)
        PROVE  Goal
    <3>1. r \in todo[f] /\ FlushAdvances(f, r, {r}) /\ r \in Holding
      BY <2>6 DEF FlushPostRaises, Holding, InFlush, Held
    <3>2. PICK dropped \in SUBSET Holding :
              /\ r \notin dropped
              /\ Holding' = (Holding \ (dropped \cup {r})) \cup {r}
              /\ Lost' = Lost \cup dropped
      BY <3>1, FlushHolds
    <3>3. Holding' = Holding \ dropped
      BY <3>1, <3>2
    <3>4. CASE PostFails
      <4>1. Channel!Lose(dropped)
        BY <3>2, <3>3, <3>4 DEF Channel!Lose, PostFails, Lost
      <4>2. QED
        BY <3>2, <4>1 DEF Channel!ChannelNext
    <3>5. CASE PostLosesReply(r)
      <4>1. Channel!HandOverUnacknowledged(r, dropped)
        BY <3>1, <3>2, <3>3, <3>5
           DEF Channel!HandOverUnacknowledged, PostLosesReply, Arrives, Lost
      <4>2. QED
        BY <3>2, <4>1 DEF Channel!ChannelNext
    <3>6. QED
      BY <2>6, <3>4, <3>5 DEF FlushPostRaises, PostRaises
  <2>7. CASE CrashAndRestart
    <3> DEFINE dropped == reports \cup InFlush
    <3>1. /\ InFlush' = {} /\ reports' = {} /\ file' = file
          /\ Lost' = Lost \cup dropped /\ received' = received
      BY <2>7 DEF CrashAndRestart, InFlush, Held, Lost, centerVars
    <3>2. Holding' = Holding \ dropped /\ dropped \in SUBSET Holding
      BY <3>1 DEF Holding, SingleHolder, InFlush, Held
    <3>3. Channel!Lose(dropped)
      BY <3>1, <3>2 DEF Channel!Lose, Lost
    <3>4. QED
      BY <3>2, <3>3 DEF Channel!ChannelNext
  <2>8. QED
    BY <2>1, <2>2, <2>3, <2>4, <2>5, <2>6, <2>7 DEF Next
<1>3. QED
  BY <1>1, <1>2, ResultsAccounted, PTL
     DEF Spec, ImplementsChannel, Channel!ChannelSpec

-----------------------------------------------------------------------------
(* Dashboards: the list without some                                       *)

(* Induction over the naturals, for a set of them. *)
LEMMA NaturalsOf ==
    ASSUME NEW Q, 0 \in Q, \A n \in Nat : n \in Q => n + 1 \in Q
    PROVE  Nat \subseteq Q
<1> DEFINE Less == {pair \in Nat \X Nat : pair[1] < pair[2]}
<1>1. IsWellFoundedOn(Less, Nat)
  BY NatLessThanWellFounded DEF OpToRel
<1>2. SUFFICES ASSUME Nat \ Q # {} PROVE FALSE
  OBVIOUS
<1>3. PICK i \in Nat \ Q : \A j \in Nat \ Q : <<j, i>> \notin Less
  <2> HIDE DEF Less
  <2> QED
    BY <1>1, <1>2, WFMin
<1>4. i - 1 \in Nat \ Q
  BY <1>3
<1>5. /\ <<i - 1, i>> \in Nat \X Nat
      /\ <<i - 1, i>>[1] = i - 1 /\ <<i - 1, i>>[2] = i
  BY <1>4
<1>6. <<i - 1, i>> \in Less
  BY <1>4, <1>5
<1> QED
  BY <1>3, <1>4, <1>6

(* The function that the definition of Others speaks of. *)
OthersStep(f, n, list, gone) ==
    IF n = 0 THEN <<>>
    ELSE IF list[n] \in gone THEN f[n - 1]
    ELSE Append(f[n - 1], list[n])

LEMMA OthersExist ==
    ASSUME NEW S, NEW list \in Seq(S), NEW gone
    PROVE  \E f : f = [n \in 0..Len(list) |-> OthersStep(f, n, list, gone)]
<1> DEFINE Up(f, m) == f = [n \in 0..m |-> OthersStep(f, n, list, gone)]
           Q == {m \in Nat : \E f : Up(f, m)}
<1>1. 0 \in Q
  <2>1. Up([n \in 0..0 |-> <<>>], 0)
    BY DEF OthersStep
  <2> QED
    BY <2>1
<1>2. ASSUME NEW m \in Nat, m \in Q
      PROVE  m + 1 \in Q
  <2>1. PICK f : Up(f, m)
    BY <1>2
  <2> DEFINE g == [n \in 0..(m + 1) |-> OthersStep(f, n, list, gone)]
  <2>2. \A n \in 0..m : g[n] = f[n]
    BY <2>1
  <2>3. ASSUME NEW n \in 0..(m + 1)
        PROVE  OthersStep(f, n, list, gone) = OthersStep(g, n, list, gone)
    <3>1. n # 0 => n - 1 \in 0..m
      OBVIOUS
    <3>2. n # 0 => g[n - 1] = f[n - 1]
      BY <2>2, <3>1
    <3> HIDE DEF g
    <3> QED
      BY <3>2 DEF OthersStep
  <2>4. Up(g, m + 1)
    BY <2>3, Zenon
  <2> HIDE DEF g, Up
  <2> QED
    BY <2>4
<1>3. Len(list) \in Q
  <2> HIDE DEF Q
  <2> QED
    BY <1>1, <1>2, NaturalsOf, LenProperties
<1> QED
  BY <1>3

LEMMA OthersDef ==
    ASSUME NEW S, NEW list \in Seq(S), NEW gone
    PROVE  \E f : /\ f = [n \in 0..Len(list) |-> OthersStep(f, n, list, gone)]
                  /\ Others(list, gone) = f[Len(list)]
<1> DEFINE Up(f) == f = [n \in 0..Len(list) |-> OthersStep(f, n, list, gone)]
           others == CHOOSE f : Up(f)
<1>1. Up(others)
  <2>1. \E f : Up(f)
    BY OthersExist
  <2> HIDE DEF Up
  <2> QED
    BY <2>1
<1>2. Others(list, gone) = others[Len(list)]
  BY Zenon DEF Others, OthersStep
<1> HIDE DEF others
<1> QED
  BY <1>1, <1>2

(* What rest is to the first n of list, where no two are the same. *)
IsRest(rest, list, gone, n) ==
    /\ \A k \in DOMAIN rest :
          \E i \in 1..n : i >= k /\ rest[k] = list[i] /\ list[i] \notin gone
    /\ \A i \in 1..n : list[i] \notin gone => \E k \in DOMAIN rest : rest[k] = list[i]
    /\ \A k, l \in DOMAIN rest : rest[k] = rest[l] => k = l
    /\ \A m \in 0..n : (\A i \in 1..m : list[i] \notin gone) =>
          m <= Len(rest) /\ \A i \in 1..m : rest[i] = list[i]

(* Removing keeps the order and every other dashboard, moves none to a     *)
(* later position, and none at all before the first that is removed.       *)
LEMMA OthersAre ==
    ASSUME NEW S, NEW list \in Seq(S), NEW gone,
           \A i, j \in DOMAIN list : list[i] = list[j] => i = j
    PROVE  Others(list, gone) \in Seq(S) /\ IsRest(Others(list, gone), list, gone, Len(list))
<1>1. PICK f : /\ f = [n \in 0..Len(list) |-> OthersStep(f, n, list, gone)]
               /\ Others(list, gone) = f[Len(list)]
  BY OthersDef
<1> DEFINE N == Len(list)
           Q == {n \in Nat : n <= N => f[n] \in Seq(S) /\ IsRest(f[n], list, gone, n)}
<1>2. N \in Nat /\ DOMAIN list = 1..N
  BY LenProperties
<1>3. \A n \in 0..N : f[n] = OthersStep(f, n, list, gone)
  BY <1>1
<1>4. 0 \in Q
  <2>1. f[0] = <<>>
    BY <1>2, <1>3 DEF OthersStep
  <2>2. <<>> \in Seq(S) /\ Len(<<>>) = 0 /\ DOMAIN <<>> = {}
    BY EmptySeq, LenProperties
  <2>3. \A m \in 0..0 : m = 0
    OBVIOUS
  <2>4. 1..0 = {}
    OBVIOUS
  <2> HIDE DEF Q
  <2>5. IsRest(<<>>, list, gone, 0)
    BY <2>2, <2>3, <2>4 DEF IsRest
  <2> QED
    BY <2>1, <2>2, <2>5 DEF Q
<1>5. ASSUME NEW n \in Nat, n \in Q
      PROVE  n + 1 \in Q
  <2> SUFFICES ASSUME n + 1 <= N
               PROVE  f[n + 1] \in Seq(S) /\ IsRest(f[n + 1], list, gone, n + 1)
    OBVIOUS
  <2> DEFINE rest == f[n]  x == list[n + 1]
  <2>1. rest \in Seq(S) /\ IsRest(rest, list, gone, n)
    BY <1>2, <1>5
  <2>2. x \in S
    BY <1>2, ElementOfSeq
  <2>3. f[n + 1] = IF x \in gone THEN rest ELSE Append(rest, x)
    BY <1>2, <1>3 DEF OthersStep
  <2>4. Len(rest) \in Nat /\ DOMAIN rest = 1..Len(rest)
    BY <2>1, LenProperties
  <2> HIDE DEF rest, x, Q
  <2>5. CASE x \in gone
    <3>1. f[n + 1] = rest
      BY <2>3, <2>5
    <3>2. IsRest(rest, list, gone, n + 1)
      BY <2>1, <2>4, <2>5 DEF IsRest, x
    <3> QED
      BY <2>1, <3>1, <3>2
  <2>6. CASE x \notin gone
    <3> DEFINE more == Append(rest, x)
    <3>1. /\ more \in Seq(S) /\ Len(more) = Len(rest) + 1
          /\ \A i \in 1..Len(rest) : more[i] = rest[i]
          /\ more[Len(rest) + 1] = x
      BY <2>1, <2>2, AppendProperties
    <3>2. DOMAIN more = 1..(Len(rest) + 1)
      BY <3>1, LenProperties
    <3> HIDE DEF more
    <3>3. Len(rest) <= n
      <4>1. CASE Len(rest) = 0
        BY <4>1
      <4>2. CASE Len(rest) # 0
        BY <2>1, <2>4, <4>2 DEF IsRest
      <4> QED
        BY <4>1, <4>2
    <3>4. \A k \in DOMAIN more : \E i \in 1..(n + 1) :
             i >= k /\ more[k] = list[i] /\ list[i] \notin gone
      BY <2>1, <2>4, <2>6, <3>1, <3>2, <3>3 DEF IsRest, x
    <3>5. \A i \in 1..(n + 1) : list[i] \notin gone =>
             \E k \in DOMAIN more : more[k] = list[i]
      BY <2>1, <2>4, <2>6, <3>1, <3>2 DEF IsRest, x
    <3>6. \A k \in 1..Len(rest) : rest[k] # x
      BY <1>2, <2>1, <2>4 DEF IsRest, x
    <3>7. \A k, l \in DOMAIN more : more[k] = more[l] => k = l
      BY <2>1, <2>4, <3>1, <3>2, <3>6 DEF IsRest
    <3>8. ASSUME NEW m \in 0..(n + 1), \A i \in 1..m : list[i] \notin gone
          PROVE  m <= Len(more) /\ \A i \in 1..m : more[i] = list[i]
      <4>1. CASE m <= n
        <5>1. m \in 0..n
          BY <3>8, <4>1
        <5>2. m <= Len(rest) /\ \A i \in 1..m : rest[i] = list[i]
          BY <2>1, <3>8, <5>1, Zenon DEF IsRest
        <5> QED
          BY <2>4, <3>1, <5>1, <5>2
      <4>2. CASE m = n + 1
        <5>1. n <= Len(rest) /\ \A i \in 1..n : rest[i] = list[i]
          <6>1. n \in 0..n /\ \A i \in 1..n : list[i] \notin gone
            BY <3>8, <4>2
          <6> QED
            BY <2>1, <6>1, Zenon DEF IsRest
        <5>2. Len(rest) = n
          <6>1. n <= Len(rest)
            BY <5>1
          <6>2. n \in Nat /\ Len(rest) \in Nat
            BY <2>4
          <6> QED
            BY <3>3, <6>1, <6>2
        <5>3. \A i \in 1..n : more[i] = list[i]
          BY <3>1, <5>1, <5>2
        <5>4. more[n + 1] = list[n + 1]
          BY <3>1, <5>2 DEF x
        <5>5. m <= Len(more)
          BY <3>1, <4>2, <5>2
        <5> QED
          BY <4>2, <5>3, <5>4, <5>5
      <4> QED
        BY <4>1, <4>2
    <3>9. IsRest(more, list, gone, n + 1)
      BY <3>4, <3>5, <3>7, <3>8, Zenon DEF IsRest
    <3> QED
      BY <2>3, <2>6, <3>1, <3>9 DEF more
  <2> QED
    BY <2>5, <2>6
<1>6. N \in Q
  <2> HIDE DEF Q
  <2> QED
    BY <1>2, <1>4, <1>5, NaturalsOf
<1> QED
  BY <1>1, <1>2, <1>6

-----------------------------------------------------------------------------
(* Dashboards: the inductive invariant                                     *)

Stages == {"unposted", "posted", "sending", "done"}

(* The type invariant. *)
RelayTypeOK ==
    /\ link \in [Clients -> {"away", "reading", "stuck", "broken", "gone"}]
    /\ clients \in Seq(Clients)
    /\ got \in [Clients -> Seq(Updates)]
    /\ posted \in [Sources -> 0..Chunks]
    /\ awaits \subseteq Sources
    /\ relay \in [Updates -> [at : Stages, next : Nat \ {0},
                              to : Clients \cup {None}, dead : SUBSET Clients]]
    /\ audience \in [Updates -> SUBSET Clients]
    /\ shifted \subseteq Updates
    /\ timedOut \subseteq Sources

(* Whoever is connected is in the list, once; whoever is to be removed is  *)
(* not connected; and a dashboard that has not come yet is nowhere.        *)
Listed ==
    /\ \A i, j \in DOMAIN clients : clients[i] = clients[j] => i = j
    /\ \A c \in Connected : c \in Range(clients)
    /\ \A c \in Clients : link[c] = "away" =>
           /\ c \notin Range(clients) /\ got[c] = <<>>
           /\ \A u \in Updates :
                 c \notin audience[u] \cup relay[u].dead \cup {relay[u].to}
    /\ \A u \in Updates : relay[u].dead \cap Connected = {}

(* While a source has waited for every answer, only its last update can be *)
(* under way, and then it waits.                                           *)
InTurn ==
    \A u \in Updates :
        /\ relay[u].at = "unposted" <=> u[2] > posted[u[1]]
        /\ relay[u].at \in {"unposted", "posted"} =>
              \A c \in Clients : u \notin Range(got[c])
        /\ u[1] \notin timedOut /\ relay[u].at \in {"posted", "sending"} =>
              u[2] = posted[u[1]] /\ u[1] \in awaits

(* Those of the list that have been sent an update are behind the loop...  *)
SentBehind ==
    \A u \in Updates : relay[u].at = "sending" =>
        \A i \in DOMAIN clients : u \in Range(got[clients[i]]) => i < relay[u].next

(* ...and those that have not are ahead of it, unless a removal has moved  *)
(* them.                                                                   *)
UnsentAhead ==
    \A u \in Updates \ shifted : relay[u].at = "sending" =>
        \A c \in audience[u] \cap Connected :
            \/ u \in Range(got[c])
            \/ \E i \in DOMAIN clients : i >= relay[u].next /\ clients[i] = c

ShownInv ==
    RelayTypeOK /\ Listed /\ InTurn /\ SentBehind /\ UnsentAhead /\ ShownInOrder

LEMMA RangeOfAppend ==
    ASSUME NEW S, NEW s \in Seq(S), NEW e \in S
    PROVE  Range(Append(s, e)) = Range(s) \cup {e}
<1>1. /\ Append(s, e) \in Seq(S) /\ Len(Append(s, e)) = Len(s) + 1
      /\ \A i \in 1..Len(s) : Append(s, e)[i] = s[i]
      /\ Append(s, e)[Len(s) + 1] = e
  BY AppendProperties
<1>2. /\ Len(s) \in Nat /\ DOMAIN s = 1..Len(s)
      /\ DOMAIN Append(s, e) = 1..(Len(s) + 1)
  BY <1>1, LenProperties
<1> DEFINE t == Append(s, e)
<1> HIDE DEF t
<1>3. \A i \in DOMAIN s : i \in DOMAIN t /\ t[i] = s[i]
  BY <1>1, <1>2 DEF t
<1>4. Len(s) + 1 \in DOMAIN t /\ t[Len(s) + 1] = e
  BY <1>1, <1>2 DEF t
<1>5. \A i \in DOMAIN t : i \in DOMAIN s \/ i = Len(s) + 1
  BY <1>2 DEF t
<1>6. Range(t) = Range(s) \cup {e}
  BY <1>3, <1>4, <1>5, Zenon DEF Range
<1> QED
  BY <1>6 DEF t

LEMMA ShownInit == RelayInit => ShownInv
<1> SUFFICES ASSUME RelayInit PROVE ShownInv
  OBVIOUS
<1>1. /\ <<>> \in Seq(Clients) /\ <<>> \in Seq(Updates) /\ DOMAIN <<>> = {}
  BY EmptySeq, LenProperties
<1>2. Range(<<>>) = {}
  BY <1>1 DEF Range
<1>3. RelayTypeOK
  BY <1>1, DashboardsAssumption DEF RelayInit, RelayTypeOK, Start, Stages
<1>4. Connected = {}
  BY DEF RelayInit, Connected
<1>5. \A u \in Updates : /\ relay[u].dead = {} /\ relay[u].at = "unposted"
                          /\ relay[u].to = None
  BY DEF RelayInit, Start
<1>6. Listed
  BY <1>1, <1>2, <1>4, <1>5, DashboardsAssumption DEF RelayInit, Listed
<1>7. \A u \in Updates : posted[u[1]] = 0 /\ u[2] > 0
  BY DashboardsAssumption DEF RelayInit, Updates
<1>8. InTurn
  BY <1>2, <1>5, <1>7 DEF RelayInit, InTurn
<1>9. SentBehind /\ UnsentAhead
  BY <1>5 DEF SentBehind, UnsentAhead
<1>10. ShownInOrder
  BY <1>1 DEF RelayInit, ShownInOrder
<1> QED
  BY <1>3, <1>6, <1>8, <1>9, <1>10 DEF ShownInv

(* What a removal does to the list, to the updates it shifts and to those  *)
(* it does not.                                                            *)
LEMMA RemovalKeeps ==
    ASSUME RelayTypeOK, Listed, NEW gone, NEW finished, gone \cap Connected = {},
           Without(gone, finished)
    PROVE  /\ clients' \in Seq(Clients) /\ shifted' \subseteq Updates
           /\ \A k, l \in DOMAIN clients' : clients'[k] = clients'[l] => k = l
           /\ \A k \in DOMAIN clients' :
                 \E i \in DOMAIN clients : i >= k /\ clients'[k] = clients[i]
           /\ Range(clients') \subseteq Range(clients)
           /\ \A c \in Connected : c \in Range(clients')
           /\ \A u \in Updates : u \notin shifted' /\ u \notin finished =>
                 /\ u \notin shifted
                 /\ relay[u].at = "sending" => \A c \in Connected :
                       (\E i \in DOMAIN clients : i >= relay[u].next /\ clients[i] = c) =>
                       (\E k \in DOMAIN clients' : k >= relay[u].next /\ clients'[k] = c)
<1> USE DEF RelayTypeOK
<1>1. /\ clients' \in Seq(Clients)
      /\ IsRest(clients', clients, gone, Len(clients))
  BY OthersAre DEF Listed, Without
<1>2. /\ Len(clients) \in Nat /\ DOMAIN clients = 1..Len(clients)
      /\ Len(clients') \in Nat /\ DOMAIN clients' = 1..Len(clients')
  BY <1>1, LenProperties
<1>3. shifted' \subseteq Updates
  BY DEF Without
<1>4. \A k, l \in DOMAIN clients' : clients'[k] = clients'[l] => k = l
  BY <1>1 DEF IsRest
<1>5. \A k \in DOMAIN clients' :
         \E i \in DOMAIN clients : i >= k /\ clients'[k] = clients[i]
  BY <1>1, <1>2 DEF IsRest
<1>6. Range(clients') \subseteq Range(clients)
  BY <1>5 DEF Range
<1>7. ASSUME NEW c \in Connected
      PROVE  \E k \in DOMAIN clients' : clients'[k] = c
  <2>1. PICK i \in DOMAIN clients : clients[i] = c
    BY <1>7 DEF Listed, Range
  <2>2. clients[i] \notin gone
    BY <1>7, <2>1
  <2> QED
    BY <1>1, <1>2, <2>1, <2>2 DEF IsRest
<1>8. \A c \in Connected : c \in Range(clients')
  BY <1>7 DEF Range
<1>9. ASSUME NEW u \in Updates, u \notin shifted', u \notin finished
      PROVE  u \notin shifted
  BY <1>9 DEF Without
<1>10. ASSUME NEW u \in Updates, u \notin shifted', u \notin finished,
              relay[u].at = "sending", NEW c \in Connected,
              NEW i \in DOMAIN clients, i >= relay[u].next, clients[i] = c
       PROVE  \E k \in DOMAIN clients' : k >= relay[u].next /\ clients'[k] = c
  <2>1. PICK k \in DOMAIN clients' : clients'[k] = c
    BY <1>7
  <2>2. relay[u].next \in Nat \ {0}
    BY <1>10
  <2>3. \A j \in DOMAIN clients : j < relay[u].next => clients[j] \notin gone
    BY <1>10 DEF Without
  <2> DEFINE m == relay[u].next - 1
  <2>4. m \in 0..Len(clients) /\ m < i
    BY <1>2, <1>10, <2>2
  <2>5. \A j \in 1..m : clients[j] \notin gone
    <3>1. \A j \in 1..m : j \in DOMAIN clients /\ j < relay[u].next
      BY <1>2, <2>2, <2>4
    <3> HIDE DEF m
    <3> QED
      BY <2>3, <3>1
  <2> HIDE DEF m
  <2>6. \A j \in 1..m : clients'[j] = clients[j]
    BY <1>1, <2>4, <2>5, Zenon DEF IsRest
  <2>7. CASE k > m
    BY <1>2, <2>1, <2>2, <2>7 DEF m
  <2>8. CASE ~(k > m)
    <3>1. k \in 1..m /\ k \in DOMAIN clients
      BY <1>2, <2>4, <2>8
    <3>2. clients[k] = clients[i]
      BY <1>10, <2>1, <2>6, <3>1
    <3>3. k = i
      BY <1>10, <3>1, <3>2 DEF Listed
    <3> QED
      BY <1>2, <2>4, <3>1, <3>3
  <2> QED
    BY <2>7, <2>8
<1> QED
  BY <1>1, <1>3, <1>4, <1>5, <1>6, <1>8, <1>9, <1>10

(* A new dashboard. *)
LEMMA ConnectKeeps ==
    ASSUME ShownInv, NEW c \in Clients, Connect(c)
    PROVE  ShownInv'
<1> USE DEF ShownInv
<1> DEFINE n == Len(clients)
<1>1. /\ link[c] = "away" /\ link' = [link EXCEPT ![c] = "reading"]
      /\ clients' = Append(clients, c)
      /\ UNCHANGED <<got, posted, awaits, relay, audience, shifted, timedOut>>
  BY DEF Connect, Becomes
<1>2. RelayTypeOK'
  BY <1>1, AppendProperties DEF RelayTypeOK
<1>3. /\ n \in Nat /\ DOMAIN clients = 1..n /\ DOMAIN clients' = 1..(n + 1)
      /\ \A i \in 1..n : clients'[i] = clients[i]
      /\ clients'[n + 1] = c
  BY <1>1, <1>2, AppendProperties, LenProperties DEF RelayTypeOK
<1> HIDE DEF n
<1>4. Range(clients') = Range(clients) \cup {c}
  BY <1>1, RangeOfAppend DEF RelayTypeOK
<1>5. Connected' = Connected \cup {c}
  BY <1>1 DEF Connected, RelayTypeOK
<1>6. /\ c \notin Range(clients) /\ got[c] = <<>>
      /\ \A u \in Updates : c \notin audience[u] /\ c \notin relay[u].dead
      /\ c \notin Connected
  BY <1>1 DEF Listed, Connected
<1>7. \A i \in 1..n : clients[i] # c
  BY <1>3, <1>6 DEF Range
<1>8. \A i, j \in DOMAIN clients' : clients'[i] = clients'[j] => i = j
  BY <1>3, <1>7 DEF Listed
<1>9. Listed'
  <2>1. \A d \in Clients : link'[d] = "away" => d # c /\ link[d] = "away"
    BY <1>1 DEF RelayTypeOK
  <2>2. \A u \in Updates : relay'[u].dead \cap Connected' = {}
    BY <1>1, <1>5, <1>6 DEF Listed
  <2> QED
    BY <1>1, <1>4, <1>5, <1>8, <2>1, <2>2 DEF Listed
<1>10. InTurn' /\ ShownInOrder'
  BY <1>1 DEF InTurn, ShownInOrder
<1>11. SentBehind'
  <2> SUFFICES ASSUME NEW u \in Updates, relay[u].at = "sending",
                      NEW i \in DOMAIN clients', u \in Range(got[clients'[i]])
               PROVE  i < relay[u].next
    BY <1>1 DEF SentBehind
  <2>1. i # n + 1
    BY <1>3, <1>6, EmptySeq, LenProperties DEF Range
  <2> QED
    BY <1>3, <2>1 DEF SentBehind
<1>12. UnsentAhead'
  <2> SUFFICES ASSUME NEW u \in Updates \ shifted, relay[u].at = "sending",
                      NEW d \in audience[u] \cap Connected, u \notin Range(got[d])
               PROVE  \E i \in DOMAIN clients' : i >= relay[u].next /\ clients'[i] = d
    BY <1>1, <1>5, <1>6 DEF UnsentAhead
  <2> QED
    BY <1>3 DEF UnsentAhead
<1> QED
  BY <1>2, <1>9, <1>10, <1>11, <1>12

(* A dashboard stops reading, reads again, or is lost. *)
LEMMA TurnKeeps ==
    ASSUME ShownInv, NEW c \in Clients, Turn(c)
    PROVE  ShownInv'
<1> USE DEF ShownInv
<1>1. /\ link[c] # "away"
      /\ \E state \in {"reading", "stuck", "broken"} : link' = [link EXCEPT ![c] = state]
      /\ UNCHANGED <<clients, got, posted, awaits, relay, audience, shifted, timedOut>>
  BY DEF Turn, Stick, Drain, Break, Becomes, Connected
<1>2. RelayTypeOK'
  BY <1>1 DEF RelayTypeOK
<1>3. Connected' \subseteq Connected
  BY DEF Turn, Stick, Drain, Break, Becomes, Connected, RelayTypeOK
<1>4. \A d \in Clients : link'[d] = "away" => link[d] = "away"
  BY <1>1 DEF RelayTypeOK
<1>5. Listed'
  BY <1>1, <1>3, <1>4 DEF Listed
<1>6. InTurn' /\ ShownInOrder' /\ SentBehind'
  BY <1>1 DEF InTurn, ShownInOrder, SentBehind
<1>7. UnsentAhead'
  BY <1>1, <1>3 DEF UnsentAhead
<1> QED
  BY <1>2, <1>5, <1>6, <1>7

(* A dashboard that is lost leaves the list. *)
LEMMA LeaveKeeps ==
    ASSUME ShownInv, NEW c \in Clients, Leave(c)
    PROVE  ShownInv'
<1> USE DEF ShownInv
<1>1. /\ link[c] = "broken" /\ link' = [link EXCEPT ![c] = "gone"]
      /\ Without({c}, {})
      /\ UNCHANGED <<got, posted, awaits, relay, audience, timedOut>>
  BY DEF Leave, Becomes
<1>2. {c} \cap Connected = {}
  BY <1>1 DEF Connected
<1>3. /\ clients' \in Seq(Clients) /\ shifted' \subseteq Updates
      /\ \A k, l \in DOMAIN clients' : clients'[k] = clients'[l] => k = l
      /\ \A k \in DOMAIN clients' :
            \E i \in DOMAIN clients : i >= k /\ clients'[k] = clients[i]
      /\ Range(clients') \subseteq Range(clients)
      /\ \A d \in Connected : d \in Range(clients')
      /\ \A u \in Updates : u \notin shifted' =>
            /\ u \notin shifted
            /\ relay[u].at = "sending" => \A d \in Connected :
                  (\E i \in DOMAIN clients : i >= relay[u].next /\ clients[i] = d) =>
                  (\E k \in DOMAIN clients' : k >= relay[u].next /\ clients'[k] = d)
  BY <1>1, <1>2, RemovalKeeps
<1>4. RelayTypeOK'
  BY <1>1, <1>3 DEF RelayTypeOK
<1>5. Connected' = Connected
  BY <1>1 DEF Connected, RelayTypeOK
<1>6. \A d \in Clients : link'[d] = "away" => link[d] = "away"
  BY <1>1 DEF RelayTypeOK
<1>7. Listed'
  BY <1>1, <1>3, <1>5, <1>6 DEF Listed
<1>8. InTurn' /\ ShownInOrder'
  BY <1>1 DEF InTurn, ShownInOrder
<1>9. SentBehind'
  <2> SUFFICES ASSUME NEW u \in Updates, relay[u].at = "sending",
                      NEW k \in DOMAIN clients', u \in Range(got[clients'[k]])
               PROVE  k < relay[u].next
    BY <1>1 DEF SentBehind
  <2>1. PICK i \in DOMAIN clients : i >= k /\ clients'[k] = clients[i]
    BY <1>3
  <2>2. i < relay[u].next
    BY <2>1 DEF SentBehind
  <2>3. i \in Nat /\ k \in Nat /\ relay[u].next \in Nat
    BY <1>3, LenProperties DEF RelayTypeOK
  <2> QED
    BY <2>1, <2>2, <2>3
<1>10. UnsentAhead'
  BY <1>1, <1>3, <1>5 DEF UnsentAhead
<1> QED
  BY <1>4, <1>7, <1>8, <1>9, <1>10

LEMMA UpdateParts ==
    \A u \in Updates : /\ u[1] \in Sources /\ u[2] \in 1..Chunks
                       /\ u = <<u[1], u[2]>>
BY DEF Updates

(* A source posts its next update. *)
LEMMA PostKeeps ==
    ASSUME ShownInv, NEW s \in Sources, Post(s)
    PROVE  ShownInv'
<1> USE DEF ShownInv
<1> DEFINE w == <<s, posted[s] + 1>>
<1>1. /\ s \notin awaits /\ posted[s] < Chunks
      /\ posted' = [posted EXCEPT ![s] = posted[s] + 1]
      /\ awaits' = awaits \cup {s}
      /\ relay' = [relay EXCEPT ![w] = Start("posted")]
      /\ UNCHANGED <<link, clients, got, audience, shifted, timedOut>>
  BY DEF Post
<1>2. posted[s] \in 0..Chunks /\ Chunks \in Nat
  BY DashboardsAssumption DEF RelayTypeOK
<1>3. w \in Updates /\ w[1] = s /\ w[2] = posted[s] + 1
  BY <1>1, <1>2 DEF Updates
<1> HIDE DEF w
<1>4. Start("posted") = [at |-> "posted", next |-> 1, to |-> None, dead |-> {}]
  BY DEF Start
<1>5. RelayTypeOK'
  BY <1>1, <1>2, <1>3, <1>4 DEF RelayTypeOK, Stages
<1>6. relay[w].at = "unposted"
  BY <1>2, <1>3 DEF InTurn
<1>7. /\ \A u \in Updates \ {w} : relay'[u] = relay[u]
      /\ relay'[w].at = "posted" /\ relay'[w].dead = {} /\ relay'[w].to = None
  BY <1>1, <1>3, <1>4 DEF RelayTypeOK
<1>8. Connected' = Connected
  BY <1>1 DEF Connected
<1>9. Listed'
  BY <1>1, <1>7, <1>8, DashboardsAssumption DEF Listed
<1>10. InTurn'
  <2> SUFFICES ASSUME NEW u \in Updates
               PROVE  /\ relay'[u].at = "unposted" <=> u[2] > posted'[u[1]]
                      /\ relay'[u].at \in {"unposted", "posted"} =>
                            \A c \in Clients : u \notin Range(got[c])
                      /\ u[1] \notin timedOut /\ relay'[u].at \in {"posted", "sending"} =>
                            u[2] = posted'[u[1]] /\ u[1] \in awaits'
    BY <1>1 DEF InTurn
  <2>1. CASE u = w
    BY <1>1, <1>2, <1>3, <1>6, <1>7, <2>1 DEF InTurn, RelayTypeOK
  <2>2. CASE u # w
    <3>1. relay'[u] = relay[u]
      BY <1>7, <2>2
    <3>2. CASE u[1] # s
      BY <1>1, <3>1, <3>2, UpdateParts DEF InTurn, RelayTypeOK
    <3>3. CASE u[1] = s
      <4>1. u[2] # posted[s] + 1
        BY <2>2, <3>3, UpdateParts DEF w
      <4>2. posted'[s] = posted[s] + 1
        BY <1>1 DEF RelayTypeOK
      <4>3. u[2] \in Nat /\ posted[s] \in Nat
        BY <1>2, UpdateParts
      <4>4. u[2] > posted'[s] <=> u[2] > posted[s]
        BY <4>1, <4>2, <4>3
      <4> QED
        BY <1>1, <3>1, <3>3, <4>4 DEF InTurn
    <3> QED
      BY <3>2, <3>3
  <2> QED
    BY <2>1, <2>2
<1>11. \A u \in Updates : relay'[u].at = "sending" =>
          relay'[u] = relay[u] /\ relay[u].at = "sending"
  BY <1>7
<1>12. SentBehind' /\ UnsentAhead'
  BY <1>1, <1>8, <1>11 DEF SentBehind, UnsentAhead
<1>13. ShownInOrder'
  BY <1>1 DEF ShownInOrder
<1> QED
  BY <1>5, <1>9, <1>10, <1>12, <1>13

(* A source gives up waiting. *)
LEMMA TimeoutKeeps ==
    ASSUME ShownInv, NEW s \in Sources, Timeout(s)
    PROVE  ShownInv'
<1> USE DEF ShownInv
<1>1. /\ awaits' = awaits \ {s} /\ timedOut' = timedOut \cup {s}
      /\ UNCHANGED <<link, clients, got, posted, relay, audience, shifted>>
  BY DEF Timeout
<1>2. RelayTypeOK'
  BY <1>1 DEF RelayTypeOK
<1>3. Connected' = Connected
  BY <1>1 DEF Connected
<1>4. Listed' /\ SentBehind' /\ UnsentAhead'
  BY <1>1, <1>3 DEF Listed, SentBehind, UnsentAhead
<1>5. InTurn'
  BY <1>1 DEF InTurn
<1>6. ShownInOrder'
  BY <1>1 DEF ShownInOrder
<1> QED
  BY <1>2, <1>4, <1>5, <1>6

(* The center begins to send an update. *)
LEMMA BeginKeeps ==
    ASSUME ShownInv, NEW w \in Updates, Begin(w)
    PROVE  ShownInv'
<1> USE DEF ShownInv
<1>1. /\ relay[w].at = "posted"
      /\ relay' = [relay EXCEPT ![w] = Start("sending")]
      /\ audience' = [audience EXCEPT ![w] = Range(clients)]
      /\ UNCHANGED <<link, clients, got, posted, awaits, shifted, timedOut>>
  BY DEF Begin
<1>2. Range(clients) \in SUBSET Clients
  BY RangeOfSeq DEF RelayTypeOK
<1>3. Start("sending") = [at |-> "sending", next |-> 1, to |-> None, dead |-> {}]
  BY DEF Start
<1>4. RelayTypeOK'
  BY <1>1, <1>2, <1>3 DEF RelayTypeOK, Stages
<1>5. /\ \A u \in Updates \ {w} : relay'[u] = relay[u] /\ audience'[u] = audience[u]
      /\ relay'[w].at = "sending" /\ relay'[w].dead = {} /\ relay'[w].to = None
      /\ relay'[w].next = 1 /\ audience'[w] = Range(clients)
  BY <1>1, <1>3 DEF RelayTypeOK
<1>6. Connected' = Connected
  BY <1>1 DEF Connected
<1>7. Listed'
  BY <1>1, <1>5, <1>6, DashboardsAssumption DEF Listed
<1>8. InTurn'
  BY <1>1, <1>5 DEF InTurn
<1>9. \A c \in Clients : w \notin Range(got[c])
  BY <1>1 DEF InTurn
<1>10. SentBehind'
  <2> SUFFICES ASSUME NEW u \in Updates, relay'[u].at = "sending",
                      NEW i \in DOMAIN clients, u \in Range(got[clients[i]])
               PROVE  i < relay'[u].next
    BY <1>1 DEF SentBehind
  <2>1. clients[i] \in Clients
    BY ElementOfSeq, LenProperties DEF RelayTypeOK
  <2>2. u # w
    BY <1>9, <2>1
  <2> QED
    BY <1>5, <2>2 DEF SentBehind
<1>11. UnsentAhead'
  <2> SUFFICES ASSUME NEW u \in Updates \ shifted, relay'[u].at = "sending",
                      NEW c \in audience'[u] \cap Connected, u \notin Range(got[c])
               PROVE  \E i \in DOMAIN clients : i >= relay'[u].next /\ clients[i] = c
    BY <1>1, <1>6 DEF UnsentAhead
  <2>1. CASE u = w
    <3>1. PICK i \in DOMAIN clients : clients[i] = c
      BY <1>5, <2>1 DEF Range
    <3>2. i \in Nat \ {0}
      BY <3>1, LenProperties DEF RelayTypeOK
    <3> QED
      BY <1>5, <2>1, <3>1, <3>2
  <2>2. CASE u # w
    BY <1>5, <2>2 DEF UnsentAhead
  <2> QED
    BY <2>1, <2>2
<1>12. ShownInOrder'
  BY <1>1 DEF ShownInOrder
<1> QED
  BY <1>4, <1>7, <1>8, <1>10, <1>11, <1>12

(* The center sends an update to the next of the list, or finds that it is *)
(* lost.                                                                   *)
LEMMA SendStep ==
    ASSUME RelayTypeOK, NEW w \in Updates, Send(w)
    PROVE  \E c \in Clients :
              /\ relay[w].at = "sending" /\ relay[w].next \in DOMAIN clients
              /\ clients[relay[w].next] = c
              /\ relay' \in [Updates -> [at : Stages, next : Nat \ {0},
                                         to : Clients \cup {None},
                                         dead : SUBSET Clients]]
              /\ \A u \in Updates \ {w} : relay'[u] = relay[u]
              /\ relay'[w].at = "sending" /\ relay'[w].next = relay[w].next + 1
              /\ \/ /\ c \in Connected
                    /\ got' = [got EXCEPT ![c] = Append(got[c], w)]
                    /\ relay'[w].to \in {c, None} /\ relay'[w].dead = relay[w].dead
                 \/ /\ c \notin Connected /\ got' = got
                    /\ relay'[w].to = relay[w].to
                    /\ relay'[w].dead = relay[w].dead \cup {c}
<1> USE DEF RelayTypeOK
<1> DEFINE c == clients[relay[w].next]
<1>1. relay[w].at = "sending" /\ relay[w].next \in DOMAIN clients
  BY DEF Send
<1>2. c \in Clients
  BY <1>1, ElementOfSeq, LenProperties
<1>3. relay[w].next \in Nat \ {0} /\ relay[w].dead \in SUBSET Clients
  OBVIOUS
<1>4. CASE c \in Connected
  <2> DEFINE to == IF link[c] = "stuck" THEN c ELSE None
  <2>1. /\ got' = [got EXCEPT ![c] = Append(got[c], w)]
        /\ relay' = [relay EXCEPT ![w].next = @ + 1, ![w].to = to]
    BY <1>4 DEF Send
  <2>2. to \in {c, None}
    OBVIOUS
  <2> HIDE DEF c, to
  <2>3. /\ relay' \in [Updates -> [at : Stages, next : Nat \ {0},
                                   to : Clients \cup {None}, dead : SUBSET Clients]]
        /\ \A u \in Updates \ {w} : relay'[u] = relay[u]
        /\ relay'[w].at = "sending" /\ relay'[w].next = relay[w].next + 1
        /\ relay'[w].to = to /\ relay'[w].dead = relay[w].dead
    <3>1. relay' = [u \in Updates |-> IF u = w THEN relay'[w] ELSE relay[u]]
      BY <2>1
    <3>2. relay'[w] = [at |-> relay[w].at, next |-> relay[w].next + 1, to |-> to,
                       dead |-> relay[w].dead]
      BY <2>1
    <3>3. relay'[w] \in [at : Stages, next : Nat \ {0}, to : Clients \cup {None},
                         dead : SUBSET Clients]
      BY <1>2, <1>3, <2>2, <3>2
    <3> QED
      BY <1>1, <3>1, <3>2, <3>3
  <2> QED
    BY <1>1, <1>2, <1>4, <2>1, <2>2, <2>3 DEF c
<1>5. CASE c \notin Connected
  <2>1. /\ got' = got
        /\ relay' = [relay EXCEPT ![w].next = @ + 1, ![w].dead = @ \cup {c}]
    BY <1>5 DEF Send
  <2> HIDE DEF c
  <2>2. /\ relay' \in [Updates -> [at : Stages, next : Nat \ {0},
                                   to : Clients \cup {None}, dead : SUBSET Clients]]
        /\ \A u \in Updates \ {w} : relay'[u] = relay[u]
        /\ relay'[w].at = "sending" /\ relay'[w].next = relay[w].next + 1
        /\ relay'[w].to = relay[w].to /\ relay'[w].dead = relay[w].dead \cup {c}
    <3>1. relay' = [u \in Updates |-> IF u = w THEN relay'[w] ELSE relay[u]]
      BY <2>1
    <3>2. relay'[w] = [at |-> relay[w].at, next |-> relay[w].next + 1,
                       to |-> relay[w].to, dead |-> relay[w].dead \cup {c}]
      BY <2>1
    <3>3. relay'[w] \in [at : Stages, next : Nat \ {0}, to : Clients \cup {None},
                         dead : SUBSET Clients]
      BY <1>2, <1>3, <3>2
    <3> QED
      BY <1>1, <3>1, <3>2, <3>3
  <2> QED
    BY <1>1, <1>2, <1>5, <2>1, <2>2 DEF c
<1> QED
  BY <1>4, <1>5

LEMMA SendKeeps ==
    ASSUME ShownInv, NEW w \in Updates, Send(w)
    PROVE  ShownInv'
<1> USE DEF ShownInv
<1>1. PICK c \in Clients :
              /\ relay[w].at = "sending" /\ relay[w].next \in DOMAIN clients
              /\ clients[relay[w].next] = c
              /\ relay' \in [Updates -> [at : Stages, next : Nat \ {0},
                                         to : Clients \cup {None},
                                         dead : SUBSET Clients]]
              /\ \A u \in Updates \ {w} : relay'[u] = relay[u]
              /\ relay'[w].at = "sending" /\ relay'[w].next = relay[w].next + 1
              /\ \/ /\ c \in Connected
                    /\ got' = [got EXCEPT ![c] = Append(got[c], w)]
                    /\ relay'[w].to \in {c, None} /\ relay'[w].dead = relay[w].dead
                 \/ /\ c \notin Connected /\ got' = got
                    /\ relay'[w].to = relay[w].to
                    /\ relay'[w].dead = relay[w].dead \cup {c}
  BY SendStep
<1>2. UNCHANGED <<link, clients, posted, awaits, audience, shifted, timedOut>>
  BY DEF Send
<1>3. Connected' = Connected
  BY <1>2 DEF Connected
<1>4. c \in Range(clients)
  BY <1>1 DEF Range
<1>5. got \in [Clients -> Seq(Updates)] /\ Append(got[c], w) \in Seq(Updates)
  BY AppendProperties DEF RelayTypeOK
<1>6. /\ got' \in [Clients -> Seq(Updates)]
      /\ \A d \in Clients \ {c} : got'[d] = got[d]
      /\ Range(got'[c]) = IF c \in Connected THEN Range(got[c]) \cup {w}
                                             ELSE Range(got[c])
  <2>1. CASE c \notin Connected
    BY <1>1, <1>5, <2>1
  <2>2. CASE c \in Connected
    <3>1. got' = [got EXCEPT ![c] = Append(got[c], w)]
      BY <1>1, <2>2
    <3>2. got[c] \in Seq(Updates)
      BY <1>5
    <3>3. Range(Append(got[c], w)) = Range(got[c]) \cup {w}
      BY <3>2, RangeOfAppend
    <3>4. got'[c] = Append(got[c], w)
      BY <1>5, <3>1
    <3>5. /\ got' \in [Clients -> Seq(Updates)]
          /\ \A d \in Clients \ {c} : got'[d] = got[d]
      BY <1>5, <3>1
    <3> QED
      BY <2>2, <3>3, <3>4, <3>5
  <2> QED
    BY <2>1, <2>2
<1>7. RelayTypeOK'
  BY <1>1, <1>2, <1>6 DEF RelayTypeOK
<1>8. link[c] # "away"
  BY <1>4 DEF Listed
<1>9. Listed'
  <2>1. \A u \in Updates : relay'[u].dead \cap Connected = {}
    BY <1>1 DEF Listed
  <2>2. \A d \in Clients, u \in Updates : link[d] = "away" =>
            d \notin audience[u] \cup relay'[u].dead \cup {relay'[u].to}
    BY <1>1, <1>8, DashboardsAssumption DEF Listed
  <2>3. \A d \in Clients : link[d] = "away" => d \notin Range(clients) /\ got'[d] = <<>>
    BY <1>6, <1>8 DEF Listed
  <2> QED
    BY <1>2, <1>3, <2>1, <2>2, <2>3 DEF Listed
<1>10. \A u \in Updates : relay'[u].at = relay[u].at
  BY <1>1
<1>11. \A u \in Updates \ {w} : \A d \in Clients :
          u \in Range(got'[d]) <=> u \in Range(got[d])
  BY <1>6
<1>12. InTurn'
  <2>1. \A u \in Updates : relay'[u].at \in {"unposted", "posted"} =>
           \A d \in Clients : u \notin Range(got'[d])
    BY <1>1, <1>10, <1>11 DEF InTurn
  <2> QED
    BY <1>2, <1>10, <2>1 DEF InTurn
<1>13. \A i \in DOMAIN clients : /\ i \in Nat /\ clients[i] \in Clients
                                 /\ clients[i] = c => i = relay[w].next
  BY <1>1, ElementOfSeq, LenProperties DEF RelayTypeOK, Listed
<1>14. \A u \in Updates : relay[u].next \in Nat
  BY DEF RelayTypeOK
<1>15. SentBehind'
  <2> SUFFICES ASSUME NEW u \in Updates, relay[u].at = "sending",
                      NEW i \in DOMAIN clients, u \in Range(got'[clients[i]])
               PROVE  i < relay'[u].next
    BY <1>2, <1>10 DEF SentBehind
  <2>1. CASE u # w
    BY <1>1, <1>11, <1>13, <2>1 DEF SentBehind
  <2>2. CASE u = w /\ i = relay[w].next
    BY <1>1, <1>13, <2>2
  <2>3. CASE u = w /\ i # relay[w].next
    <3>1. u \in Range(got[clients[i]])
      BY <1>6, <1>13, <2>3
    <3>2. i < relay[w].next
      BY <2>3, <3>1 DEF SentBehind
    <3> QED
      BY <1>1, <1>13, <1>14, <2>3, <3>2
  <2> QED
    BY <2>1, <2>2, <2>3
<1>16. UnsentAhead'
  <2> SUFFICES ASSUME NEW u \in Updates \ shifted, relay[u].at = "sending",
                      NEW d \in audience[u] \cap Connected, u \notin Range(got'[d])
               PROVE  \E i \in DOMAIN clients : i >= relay'[u].next /\ clients[i] = d
    BY <1>2, <1>3, <1>10 DEF UnsentAhead
  <2>1. d \in Clients
    BY DEF Connected
  <2>2. u \notin Range(got[d])
    BY <1>6, <2>1
  <2>3. PICK i \in DOMAIN clients : i >= relay[u].next /\ clients[i] = d
    BY <2>2 DEF UnsentAhead
  <2>4. CASE u # w
    BY <1>1, <2>3, <2>4
  <2>5. CASE u = w
    <3>1. d # c
      BY <1>6, <2>5
    <3>2. i # relay[w].next
      BY <1>1, <2>3, <3>1
    <3> QED
      BY <1>1, <1>13, <1>14, <2>3, <2>5, <3>2
  <2> QED
    BY <2>4, <2>5
<1>17. ShownInOrder'
  <2>1. CASE c \notin Connected
    <3>1. got' = got
      BY <1>1, <2>1
    <3> QED
      BY <1>2, <3>1 DEF ShownInOrder
  <2>2. CASE c \in Connected
    <3>1. got' = [got EXCEPT ![c] = Append(got[c], w)]
      BY <1>1, <2>2
    <3> DEFINE n == Len(got[c])
    <3>2. /\ n \in Nat /\ DOMAIN got[c] = 1..n /\ DOMAIN got'[c] = 1..(n + 1)
          /\ \A i \in 1..n : got'[c][i] = got[c][i]
          /\ got'[c][n + 1] = w
      BY <1>5, <3>1, AppendProperties, LenProperties
    <3> HIDE DEF n
    <3>3. w \notin Range(got[c])
      BY <1>1, <1>13, <1>14 DEF SentBehind
    <3>4. ASSUME NEW i \in 1..n
          PROVE  LET u == got[c][i]
                 IN  u # w /\ (u[1] = w[1] /\ u[1] \notin timedOut => u[2] < w[2])
      <4> DEFINE u == got[c][i]
      <4>1. u \in Range(got[c]) /\ u \in Updates
        BY <1>5, <3>2, ElementOfSeq DEF Range, n
      <4> HIDE DEF u
      <4>2. relay[u].at # "unposted"
        BY <4>1 DEF InTurn
      <4>3. ASSUME u[1] = w[1], u[1] \notin timedOut
            PROVE  u[2] < w[2]
        <5>1. w[2] = posted[w[1]]
          BY <1>1, <4>3 DEF InTurn
        <5>2. u[2] \in Nat /\ w[2] \in Nat /\ ~(u[2] > posted[u[1]])
          BY <4>1, <4>2, UpdateParts DEF InTurn
        <5>3. u[2] # w[2]
          BY <3>3, <4>1, <4>3, UpdateParts
        <5> QED
          BY <4>3, <5>1, <5>2, <5>3
      <4> QED
        BY <3>3, <4>1, <4>3 DEF u
    <3> SUFFICES ASSUME NEW d \in Clients, NEW i \in DOMAIN got'[d],
                        NEW j \in DOMAIN got'[d], i < j
                 PROVE  LET u == got'[d][i]  v == got'[d][j]
                        IN  u # v /\ (u[1] = v[1] /\ u[1] \notin timedOut => u[2] < v[2])
      BY <1>2 DEF ShownInOrder
    <3>5. CASE d # c
      <4>1. got'[d] = got[d]
        BY <1>6, <3>5
      <4> QED
        BY <4>1 DEF ShownInOrder
    <3>6. CASE d = c /\ j = n + 1
      <4>1. i \in 1..n
        BY <3>2, <3>6
      <4> QED
        BY <3>2, <3>4, <3>6, <4>1
    <3>7. CASE d = c /\ j # n + 1
      <4>1. i \in 1..n /\ j \in 1..n
        BY <3>2, <3>7
      <4> QED
        BY <3>2, <3>7, <4>1 DEF ShownInOrder
    <3> QED
      BY <3>5, <3>6, <3>7
  <2> QED
    BY <2>1, <2>2
<1> QED
  BY <1>7, <1>9, <1>12, <1>15, <1>16, <1>17

(* A socket takes an update at last, or is lost. *)
LEMMA SentStep ==
    ASSUME RelayTypeOK, NEW w \in Updates, Sent(w)
    PROVE  /\ relay' \in [Updates -> [at : Stages, next : Nat \ {0},
                                      to : Clients \cup {None}, dead : SUBSET Clients]]
           /\ \A u \in Updates \ {w} : relay'[u] = relay[u]
           /\ relay'[w].at = relay[w].at /\ relay'[w].next = relay[w].next
           /\ relay'[w].to = None
           /\ \/ relay'[w].dead = relay[w].dead
              \/ /\ relay[w].to \notin Connected
                 /\ relay'[w].dead = relay[w].dead \cup {relay[w].to}
<1>1. /\ relay[w].to # None
      /\ \/ relay' = [relay EXCEPT ![w].to = None]
         \/ /\ relay[w].to \notin Connected
            /\ relay' = [relay EXCEPT ![w].to = None, ![w].dead = @ \cup {relay[w].to}]
  BY DEF Sent
<1>2. relay[w].to \in Clients
  BY <1>1 DEF RelayTypeOK
<1>3. CASE relay' = [relay EXCEPT ![w].to = None]
  <2>1. relay' = [u \in Updates |-> IF u = w THEN relay'[w] ELSE relay[u]]
    BY <1>3 DEF RelayTypeOK
  <2>2. relay'[w] = [at |-> relay[w].at, next |-> relay[w].next, to |-> None,
                     dead |-> relay[w].dead]
    BY <1>3 DEF RelayTypeOK
  <2>3. relay'[w] \in [at : Stages, next : Nat \ {0}, to : Clients \cup {None},
                       dead : SUBSET Clients]
    BY <2>2 DEF RelayTypeOK
  <2> QED
    BY <2>1, <2>2, <2>3 DEF RelayTypeOK
<1>4. CASE /\ relay[w].to \notin Connected
           /\ relay' = [relay EXCEPT ![w].to = None, ![w].dead = @ \cup {relay[w].to}]
  <2>1. relay' = [u \in Updates |-> IF u = w THEN relay'[w] ELSE relay[u]]
    BY <1>4 DEF RelayTypeOK
  <2>2. relay'[w] = [at |-> relay[w].at, next |-> relay[w].next, to |-> None,
                     dead |-> relay[w].dead \cup {relay[w].to}]
    BY <1>4 DEF RelayTypeOK
  <2>3. relay'[w] \in [at : Stages, next : Nat \ {0}, to : Clients \cup {None},
                       dead : SUBSET Clients]
    BY <1>2, <2>2 DEF RelayTypeOK
  <2> QED
    BY <1>4, <2>1, <2>2, <2>3 DEF RelayTypeOK
<1> QED
  BY <1>1, <1>3, <1>4

LEMMA SentKeeps ==
    ASSUME ShownInv, NEW w \in Updates, Sent(w)
    PROVE  ShownInv'
<1> USE DEF ShownInv
<1>1. UNCHANGED <<link, clients, got, posted, awaits, audience, shifted, timedOut>>
  BY DEF Sent
<1>2. relay[w].to \in Clients
  BY DEF Sent, RelayTypeOK
<1>3. /\ relay' \in [Updates -> [at : Stages, next : Nat \ {0},
                                 to : Clients \cup {None}, dead : SUBSET Clients]]
      /\ \A u \in Updates \ {w} : relay'[u] = relay[u]
      /\ relay'[w].at = relay[w].at /\ relay'[w].next = relay[w].next
      /\ relay'[w].to = None
      /\ \/ relay'[w].dead = relay[w].dead
         \/ /\ relay[w].to \notin Connected
            /\ relay'[w].dead = relay[w].dead \cup {relay[w].to}
  BY SentStep
<1>4. RelayTypeOK'
  BY <1>1, <1>3 DEF RelayTypeOK
<1>5. Connected' = Connected
  BY <1>1 DEF Connected
<1>6. \A d \in Clients : link[d] = "away" => d # relay[w].to
  BY DEF Listed
<1>7. Listed'
  BY <1>1, <1>3, <1>5, <1>6, DashboardsAssumption DEF Listed
<1>8. \A u \in Updates : relay'[u].at = relay[u].at /\ relay'[u].next = relay[u].next
  BY <1>3
<1>9. InTurn' /\ SentBehind' /\ UnsentAhead'
  BY <1>1, <1>5, <1>8 DEF InTurn, SentBehind, UnsentAhead
<1>10. ShownInOrder'
  BY <1>1 DEF ShownInOrder
<1> QED
  BY <1>4, <1>7, <1>9, <1>10

(* The loop of an update is over. *)
LEMMA FinishKeeps ==
    ASSUME ShownInv, NEW w \in Updates, Finish(w)
    PROVE  ShownInv'
<1> USE DEF ShownInv
<1>1. /\ relay[w].at = "sending" /\ relay' = [relay EXCEPT ![w] = Start("done")]
      /\ Without(relay[w].dead, {w})
      /\ awaits' = awaits \ {s \in Sources : w = <<s, posted[s]>>}
      /\ audience' = [audience EXCEPT ![w] = {}]
      /\ UNCHANGED <<link, got, posted, timedOut>>
  BY DEF Finish
<1>2. relay[w].dead \cap Connected = {}
  BY DEF Listed
<1>3. /\ clients' \in Seq(Clients) /\ shifted' \subseteq Updates
      /\ \A k, l \in DOMAIN clients' : clients'[k] = clients'[l] => k = l
      /\ \A k \in DOMAIN clients' :
            \E i \in DOMAIN clients : i >= k /\ clients'[k] = clients[i]
      /\ Range(clients') \subseteq Range(clients)
      /\ \A d \in Connected : d \in Range(clients')
      /\ \A u \in Updates : u \notin shifted' /\ u # w =>
            /\ u \notin shifted
            /\ relay[u].at = "sending" => \A d \in Connected :
                  (\E i \in DOMAIN clients : i >= relay[u].next /\ clients[i] = d) =>
                  (\E k \in DOMAIN clients' : k >= relay[u].next /\ clients'[k] = d)
  BY <1>1, <1>2, RemovalKeeps
<1>4. Start("done") = [at |-> "done", next |-> 1, to |-> None, dead |-> {}]
  BY DEF Start
<1>5. RelayTypeOK'
  BY <1>1, <1>3, <1>4 DEF RelayTypeOK, Stages
<1>6. /\ \A u \in Updates \ {w} : relay'[u] = relay[u] /\ audience'[u] = audience[u]
      /\ relay'[w].at = "done" /\ relay'[w].dead = {} /\ relay'[w].to = None
      /\ audience'[w] = {}
  BY <1>1, <1>4 DEF RelayTypeOK
<1>7. Connected' = Connected
  BY <1>1 DEF Connected
<1>8. Listed'
  BY <1>1, <1>3, <1>6, <1>7, DashboardsAssumption DEF Listed
<1>9. InTurn'
  <2>1. \A u \in Updates : /\ relay'[u].at = "unposted" <=> relay[u].at = "unposted"
                           /\ relay'[u].at \in {"posted", "sending"} =>
                                 u # w /\ relay'[u] = relay[u]
    BY <1>1, <1>6
  <2>2. \A u \in Updates : relay'[u].at \in {"unposted", "posted"} =>
           relay[u].at \in {"unposted", "posted"}
    BY <1>6
  <2>3. ASSUME NEW u \in Updates, u[1] \notin timedOut,
               relay'[u].at \in {"posted", "sending"}
        PROVE  u[2] = posted[u[1]] /\ u[1] \in awaits'
    <3>1. u # w /\ u[2] = posted[u[1]] /\ u[1] \in awaits
      BY <2>1, <2>3 DEF InTurn
    <3>2. w # <<u[1], posted[u[1]]>>
      BY <3>1, UpdateParts
    <3> QED
      BY <1>1, <3>1, <3>2
  <2> QED
    BY <1>1, <2>1, <2>2, <2>3 DEF InTurn
<1>10. SentBehind'
  <2> SUFFICES ASSUME NEW u \in Updates, relay'[u].at = "sending",
                      NEW k \in DOMAIN clients', u \in Range(got[clients'[k]])
               PROVE  k < relay'[u].next
    BY <1>1 DEF SentBehind
  <2>1. relay'[u] = relay[u] /\ relay[u].at = "sending"
    BY <1>6
  <2>2. PICK i \in DOMAIN clients : i >= k /\ clients'[k] = clients[i]
    BY <1>3
  <2>3. i < relay[u].next
    BY <2>1, <2>2 DEF SentBehind
  <2>4. i \in Nat /\ k \in Nat /\ relay[u].next \in Nat
    BY <1>3, LenProperties DEF RelayTypeOK
  <2> QED
    BY <2>1, <2>2, <2>3, <2>4
<1>11. UnsentAhead'
  <2> SUFFICES ASSUME NEW u \in Updates, u \notin shifted', relay'[u].at = "sending",
                      NEW d \in audience'[u] \cap Connected, u \notin Range(got[d])
               PROVE  \E k \in DOMAIN clients' :
                         k >= relay'[u].next /\ clients'[k] = d
    BY <1>1, <1>7 DEF UnsentAhead
  <2>1. u # w /\ relay'[u] = relay[u] /\ audience'[u] = audience[u]
    BY <1>6
  <2>2. u \notin shifted /\ relay[u].at = "sending"
    BY <1>3, <2>1
  <2>3. \E i \in DOMAIN clients : i >= relay[u].next /\ clients[i] = d
    BY <2>1, <2>2 DEF UnsentAhead
  <2> QED
    BY <1>3, <2>1, <2>2, <2>3
<1>12. ShownInOrder'
  BY <1>1 DEF ShownInOrder
<1> QED
  BY <1>5, <1>8, <1>9, <1>10, <1>11, <1>12

LEMMA ShownStep == ShownInv /\ [RelayNext]_relayVars => ShownInv'
<1> SUFFICES ASSUME ShownInv, [RelayNext]_relayVars PROVE ShownInv'
  OBVIOUS
<1>1. CASE UNCHANGED relayVars
  <2>1. UNCHANGED <<link, clients, got, posted, awaits, relay, audience, shifted, timedOut>>
    BY <1>1 DEF relayVars
  <2>2. Connected' = Connected
    BY <2>1 DEF Connected
  <2>3. RelayTypeOK' /\ Listed'
    BY <2>1, <2>2 DEF ShownInv, RelayTypeOK, Listed
  <2>4. InTurn' /\ SentBehind' /\ UnsentAhead' /\ ShownInOrder'
    BY <2>1, <2>2 DEF ShownInv, InTurn, SentBehind, UnsentAhead, ShownInOrder
  <2> QED
    BY <2>3, <2>4 DEF ShownInv
<1>2. CASE RelayNext
  BY <1>2, ConnectKeeps, TurnKeeps, LeaveKeeps, PostKeeps, TimeoutKeeps,
     BeginKeeps, SendKeeps, SentKeeps, FinishKeeps DEF RelayNext
<1> QED
  BY <1>1, <1>2

(* The inductive invariant of the dashboards: whatever the list does while *)
(* a loop runs over it, those behind the loop have been sent the update.   *)
THEOREM ListRelayed == RelaySpec => []ShownInv
<1> QED
  BY ShownInit, ShownStep, PTL DEF RelaySpec

(* No dashboard is sent an update twice, nor the chunks of an answer out   *)
(* of order, for any number of dashboards, of sources and of chunks        *)
(* (_broadcast_update).                                                    *)
THEOREM UpdatesInOrder == RelaySpec => []ShownInOrder
<1>1. ShownInv => ShownInOrder
  BY DEF ShownInv
<1> QED
  BY <1>1, ListRelayed, PTL

(* A dashboard that was connected all the time an update was relayed has   *)
(* been sent it when the relay ends, unless a removal moved the list       *)
(* (_broadcast_update, _handle_task_stream).                               *)
THEOREM SkipsExplained == RelaySpec => SkippedHasCause
<1> DEFINE Explained ==
        \A u \in Updates : relay[u].at = "sending" /\ relay'[u].at = "done" =>
            \A c \in audience[u] \cap Connected : u \in Range(got[c]) \/ u \in shifted
<1>1. ASSUME ShownInv, RelayNext PROVE Explained
  <2> SUFFICES ASSUME NEW u \in Updates, relay[u].at = "sending", relay'[u].at = "done",
                      NEW c \in audience[u] \cap Connected, u \notin shifted
               PROVE  u \in Range(got[c])
    OBVIOUS
  <2>1. Finish(u)
    <3> USE DEF ShownInv, RelayTypeOK
    <3>1. CASE \E d \in Clients : Connect(d) \/ Turn(d) \/ Leave(d)
      BY <3>1 DEF Connect, Turn, Leave
    <3>2. CASE \E s \in Sources : Timeout(s)
      BY <3>2 DEF Timeout
    <3>3. ASSUME NEW s \in Sources, Post(s) PROVE FALSE
      BY <1>1, <3>3 DEF Post, Start
    <3>4. ASSUME NEW w \in Updates, Begin(w) PROVE FALSE
      BY <1>1, <3>4 DEF Begin, Start
    <3>5. ASSUME NEW w \in Updates, Send(w) PROVE FALSE
      <4>1. relay'[w].at = "sending" /\ \A v \in Updates \ {w} : relay'[v] = relay[v]
        BY <1>1, <3>5, SendStep
      <4> QED
        BY <4>1
    <3>6. ASSUME NEW w \in Updates, Sent(w) PROVE FALSE
      <4>1. relay'[w].at = relay[w].at /\ \A v \in Updates \ {w} : relay'[v] = relay[v]
        BY <1>1, <3>6, SentStep
      <4> QED
        BY <4>1
    <3>7. ASSUME NEW w \in Updates, Finish(w) PROVE w = u
      BY <1>1, <3>7 DEF Finish
    <3> QED
      BY <1>1, <3>1, <3>2, <3>3, <3>4, <3>5, <3>6, <3>7 DEF RelayNext
  <2>2. \A i \in DOMAIN clients : ~(i >= relay[u].next)
    BY <1>1, <2>1, LenProperties DEF Finish, ShownInv, RelayTypeOK
  <2> QED
    BY <1>1, <2>2 DEF ShownInv, UnsentAhead
<1>2. ShownInv /\ [RelayNext]_relayVars => [Explained]_relayVars
  BY <1>1
<1> QED
  BY <1>2, ListRelayed, PTL DEF RelaySpec, SkippedHasCause

=============================================================================
