------------------------ MODULE FleetRegistry_proofs ------------------------
(***************************************************************************)
(* Proofs about FleetRegistry, for any agents, machines, secrets and       *)
(* faults.                                                                 *)
(*                                                                         *)
(* An agent keeps the secret the center wants to see because the store     *)
(* wants to see it too: a restart makes entries from rows, also of agents  *)
(* that were forgotten long ago (RowsAgree, RowSecretsAgree).              *)
(*                                                                         *)
(* A cleanup pass forgets what it has condemned.  As long as an entry is   *)
(* not touched, what the pass knows of it is true (CondemnedAreStale), and *)
(* it sees the entry itself (ReplacedAreTouched).                          *)
(***************************************************************************)
EXTENDS FleetRegistry, TLAPS

RowsAgree ==
    \A a \in Agents : Known(a) => rows[a] = RowOf(entry[a])

RowSecretsAgree ==
    \A a \in Agents \ excused :
        rows[a] # None /\ rows[a].secret # None
            => conf[Home[a]] = rows[a].secret

ReplacedAreTouched ==
    \A a \in Agents : replaced[a] # None => a \in touched

CondemnedAreStale ==
    \A a \in condemned \ touched :
        Known(a) => entry[a].status = "offline" /\ entry[a].overdue

RegistryInv ==
    /\ TypeOK
    /\ RowsAgree
    /\ RowSecretsAgree
    /\ ReplacedAreTouched
    /\ CondemnedAreStale

-----------------------------------------------------------------------------
(* Types *)

LEMMA NewSecretType == Fresh # {} => NewSecret \in Secrets
BY DEF Fresh, NewSecret

LEMMA TypeInit == Init => TypeOK
BY RegistryAssumption DEF Init, TypeOK

(* An agent whose entry changes stays known, and so do the others.         *)
LEMMA EntryChangeType ==
    ASSUME TypeOK, NEW a \in Agents, NEW e \in Entry,
           entry' = [entry EXCEPT ![a] = e]
    PROVE  /\ entry' \in [Agents -> Entry \cup {None}]
           /\ \A b \in Agents : Known(b) => Known(b)'
<1>1. entry \in [Agents -> Entry \cup {None}]
      BY DEF TypeOK
<1> QED
    BY <1>1, NoneAssumption DEF Known

(* What the entry of an agent is replaced by, and what the pass keeps.     *)
LEMMA ReplaceEntryType ==
    ASSUME TypeOK, NEW a \in Agents, NEW e \in Entry, ReplaceEntry(a, e)
    PROVE  /\ entry' \in [Agents -> Entry \cup {None}]
           /\ rows' \in [Agents -> Row \cup {None}]
           /\ touched' \subseteq Agents
           /\ pass = "idle" => touched' = {}
           /\ \A b \in Agents : Known(b) => Known(b)'
           /\ replaced' \in [Agents -> [status : Status, overdue : BOOLEAN]
                                            \cup {None}]
<1>1. RowOf(e) \in Row
      BY DEF RowOf, Row, Entry
<1>2. /\ entry' \in [Agents -> Entry \cup {None}]
      /\ rows' \in [Agents -> Row \cup {None}]
      BY <1>1 DEF TypeOK, ReplaceEntry
<1>3. touched' \subseteq Agents /\ (pass = "idle" => touched' = {})
      BY DEF TypeOK, ReplaceEntry, Touch
<1>4. \A b \in Agents : Known(b) => Known(b)'
      BY EntryChangeType DEF ReplaceEntry
<1>5. a \in scan => entry[a] \in Entry
      BY DEF TypeOK, Known
<1>6. a \in scan => [status |-> entry[a].status, overdue |-> entry[a].overdue]
                       \in [status : Status, overdue : BOOLEAN]
      BY <1>5 DEF Entry
<1>7. replaced' \in [Agents -> [status : Status, overdue : BOOLEAN] \cup {None}]
      BY <1>6 DEF TypeOK, ReplaceEntry
<1> QED
    BY <1>2, <1>3, <1>4, <1>7

LEMMA TypeStep == TypeOK /\ [Next]_vars => TypeOK'
<1> SUFFICES ASSUME TypeOK, [Next]_vars PROVE TypeOK'
    OBVIOUS
<1> USE RegistryAssumption
<1>1. ASSUME NEW a \in Agents, StartAgent(a) PROVE TypeOK'
      BY <1>1 DEF StartAgent, TypeOK, Known, registryVars, passVars, boundVars
<1>2. ASSUME NEW a \in Agents, RegisterNew(a) PROVE TypeOK'
  <2>1. NewSecret \in Secrets /\ NewEntry(NewSecret) \in Entry
        BY <1>2, NewSecretType
        DEF RegisterNew, Admitted, NewEntry, Entry, Status
  <2> QED
      BY <1>2, <2>1, ReplaceEntryType
      DEF RegisterNew, KeepSecret, Neighbours, TypeOK, passVars, boundVars
<1>3. ASSUME NEW a \in Agents, NewSecretLost(a) PROVE TypeOK'
  <2>1. NewSecret \in Secrets /\ NewEntry(NewSecret) \in Entry
        BY <1>3, NewSecretType
        DEF NewSecretLost, Admitted, NewEntry, Entry, Status
  <2> QED
      BY <1>3, <2>1, ReplaceEntryType
      DEF NewSecretLost, ProcessEnds, Fault, TypeOK, passVars
<1>4. ASSUME NEW a \in Agents, RegisterAgain(a) PROVE TypeOK'
  <2>1. entry[a] \in Entry
        BY <1>4 DEF RegisterAgain, Known, TypeOK
  <2>2. NewEntry(entry[a].secret) \in Entry
        BY <2>1 DEF NewEntry, Entry, Status
  <2> QED
      BY <1>4, <2>2, ReplaceEntryType
      DEF RegisterAgain, ProcessEnds, Fault, TypeOK, passVars
<1>5. ASSUME NEW a \in Agents, RegistrationRefused(a) PROVE TypeOK'
      BY <1>5
      DEF RegistrationRefused, ProcessEnds, TypeOK, Known, registryVars,
          passVars, boundVars
<1>6. ASSUME NEW a \in Agents, NEW s \in Status, Known(a), HeardOf(a, s)
      PROVE  /\ entry' \in [Agents -> Entry \cup {None}]
             /\ touched' \subseteq Agents
             /\ pass = "idle" => touched' = {}
             /\ \A b \in Agents : Known(b) => Known(b)'
  <2> DEFINE e == [entry[a] EXCEPT !.status = s, !.overdue = FALSE]
  <2>1. entry[a] \in Entry
        BY <1>6 DEF Known, TypeOK
  <2>2. e \in Entry
        BY <2>1 DEF Entry
  <2>3. entry' = [entry EXCEPT ![a] = e]
        BY <1>6, <2>1 DEF HeardOf, TypeOK, Entry
  <2>4. touched' \subseteq Agents /\ (pass = "idle" => touched' = {})
        BY <1>6 DEF HeardOf, Touch, TypeOK
  <2> HIDE DEF e
  <2> QED
      BY <2>2, <2>3, <2>4, EntryChangeType
<1>7. ASSUME NEW a \in Agents, Heartbeat(a) PROVE TypeOK'
      BY <1>6, <1>7
      DEF Heartbeat, HeartbeatAccepted, TypeOK, Status, passVars, agentVars,
          boundVars
<1>8. ASSUME NEW a \in Agents, Goodbye(a) PROVE TypeOK'
      BY <1>6, <1>8
      DEF Goodbye, HeartbeatAccepted, ProcessEnds, TypeOK, Status, passVars,
          boundVars
<1>9. ASSUME NEW a \in Agents, AgentDies(a) PROVE TypeOK'
      BY <1>9
      DEF AgentDies, ProcessEnds, TypeOK, Known, registryVars, passVars,
          boundVars
<1>10. ASSUME NEW a \in Agents, BecomesOverdue(a) PROVE TypeOK'
  <2> DEFINE e == [entry[a] EXCEPT !.overdue = TRUE]
  <2>1. entry[a] \in Entry
        BY <1>10 DEF BecomesOverdue, Known, TypeOK
  <2>2. e \in Entry /\ entry' = [entry EXCEPT ![a] = e]
        BY <1>10, <2>1 DEF BecomesOverdue, Entry
  <2> HIDE DEF e
  <2>3. /\ entry' \in [Agents -> Entry \cup {None}]
        /\ \A b \in Agents : Known(b) => Known(b)'
        BY <2>2, EntryChangeType
  <2> QED
      BY <1>10, <2>3
      DEF BecomesOverdue, TypeOK, passVars, agentVars, boundVars
<1>11. ASSUME NEW a \in Agents, RevokeAgent(a) PROVE TypeOK'
  <2> DEFINE e == [entry[a] EXCEPT !.status = "revoked", !.overdue = FALSE,
                                   !.secret = None, !.revoked = TRUE]
  <2>1. e \in Entry
    <3>1. entry[a] \in Entry
          BY <1>11 DEF RevokeAgent, Known, TypeOK
    <3> QED
        BY <3>1 DEF Entry, Status
  <2>2. RowOf(e) \in Row
        BY <2>1 DEF RowOf, Row, Entry
  <2>3. /\ entry' = [entry EXCEPT ![a] = e]
        /\ rows' = [rows EXCEPT ![a] = RowOf(e)]
        BY <1>11 DEF RevokeAgent
  <2> HIDE DEF e
  <2>4. /\ entry' \in [Agents -> Entry \cup {None}]
        /\ \A b \in Agents : Known(b) => Known(b)'
        BY <2>1, <2>3, EntryChangeType
  <2> QED
      BY <1>11, <2>2, <2>3, <2>4
      DEF RevokeAgent, Touch, TypeOK, passVars, agentVars, boundVars
<1>12. ASSUME NEW a \in Agents, MarkOffline(a) PROVE TypeOK'
  <2>1. ToScan \subseteq {b \in Agents : Known(b)}
        BY DEF ToScan, TypeOK
  <2>2. /\ scan' \subseteq {b \in Agents : Known(b)}
        /\ condemned' \subseteq Agents
        BY <1>12, <2>1 DEF MarkOffline, TypeOK
  <2>3. /\ entry' \in [Agents -> Entry \cup {None}]
        /\ \A b \in Agents : Known(b) => Known(b)'
    <3>1. CASE replaced[a] = None
      <4> DEFINE e == [entry[a] EXCEPT !.status = "offline",
                                       !.overdue = FALSE]
      <4>1. entry[a] \in Entry
            BY <1>12, <2>1 DEF MarkOffline, Known, TypeOK
      <4>2. e \in Entry
            BY <4>1 DEF Entry, Status
      <4>3. entry' = [entry EXCEPT ![a] = e]
            BY <1>12, <3>1, <4>1 DEF MarkOffline, TypeOK, Entry
      <4> HIDE DEF e
      <4> QED
          BY <4>2, <4>3, EntryChangeType
    <3>2. CASE replaced[a] # None
          BY <1>12, <3>2 DEF MarkOffline, TypeOK, Known
    <3> QED
        BY <3>1, <3>2
  <2> QED
      BY <1>12, <2>2, <2>3
      DEF MarkOffline, TypeOK, agentVars, boundVars
<1>13. PassEnds => /\ pass' = "idle" /\ scan' = {} /\ condemned' = {}
                   /\ touched' = {}
                   /\ replaced' \in [Agents -> [status : Status,
                                                overdue : BOOLEAN] \cup {None}]
       BY DEF PassEnds
<1>14. ASSUME NEW a \in Agents, PurgeAgent(a) PROVE TypeOK'
  <2>1. ToPurge \subseteq Agents
        BY DEF ToPurge, ToScan, TypeOK
  <2>2. entry' \in [Agents -> Entry \cup {None}]
        BY <1>14 DEF PurgeAgent, TypeOK
  <2>3. CASE PassEnds
        BY <1>13, <1>14, <2>2, <2>3
        DEF PurgeAgent, TypeOK, agentVars, boundVars
  <2>4. CASE ~PassEnds
        BY <1>14, <2>1, <2>2, <2>4
        DEF PurgeAgent, TypeOK, agentVars, boundVars
  <2> QED
      BY <2>3, <2>4
<1>15. CASE NothingToPurge
       BY <1>13, <1>15 DEF NothingToPurge, TypeOK, agentVars, boundVars
<1>16. CASE Restart
  <2>1. \A kept \in SUBSET Parsable :
            Loaded(kept) \in [Agents -> Entry \cup {None}]
        BY DEF Loaded, TypeOK, Row, Entry, Status
  <2>2. entry' \in [Agents -> Entry \cup {None}]
        BY <1>16, <2>1 DEF Restart
  <2> QED
      BY <1>13, <1>16, <2>2 DEF Restart, Fault, TypeOK, agentVars
<1>17. CASE UNCHANGED vars
       BY <1>17
       DEF TypeOK, Known, vars, registryVars, passVars, agentVars, boundVars
<1> QED
    BY <1>1, <1>2, <1>3, <1>4, <1>5, <1>7, <1>8, <1>9, <1>10, <1>11, <1>12,
       <1>14, <1>15, <1>16, <1>17
    DEF Next

(* Every variable of the registry, its store and the agents keeps its type.*)
THEOREM TypeCorrect == Spec => []TypeOK
BY TypeInit, TypeStep, PTL DEF Spec

-----------------------------------------------------------------------------
(* The inductive invariant *)

LEMMA InvInit == Init => RegistryInv
<1> SUFFICES ASSUME Init PROVE RegistryInv
    OBVIOUS
<1>1. TypeOK
      BY TypeInit
<1>2. RowsAgree /\ RowSecretsAgree /\ ReplacedAreTouched /\ CondemnedAreStale
      BY DEF Init, RowsAgree, RowSecretsAgree, ReplacedAreTouched,
             CondemnedAreStale, Known
<1> QED
    BY <1>1, <1>2 DEF RegistryInv

(* Rows are those of the entries. *)
LEMMA RowsStep == RegistryInv /\ [Next]_vars => RowsAgree'
<1> SUFFICES ASSUME RegistryInv, [Next]_vars PROVE RowsAgree'
    OBVIOUS
<1> USE DEF RegistryInv, RowsAgree, Known
<1>1. ASSUME NEW a \in Agents, NEW e, ReplaceEntry(a, e)
      PROVE  RowsAgree'
      BY <1>1 DEF ReplaceEntry, TypeOK
<1>2. ASSUME NEW a \in Agents, NEW s, Known(a), HeardOf(a, s), rows' = rows
      PROVE  RowsAgree'
      BY <1>2 DEF HeardOf, TypeOK, Entry, RowOf
<1>3. ASSUME NEW a \in Agents, BecomesOverdue(a)
      PROVE  RowsAgree'
      BY <1>3 DEF BecomesOverdue, TypeOK, Entry, RowOf
<1>4. ASSUME NEW a \in Agents, RevokeAgent(a)
      PROVE  RowsAgree'
      BY <1>4 DEF RevokeAgent, TypeOK
<1>5. ASSUME NEW a \in Agents, MarkOffline(a)
      PROVE  RowsAgree'
  <2>1. \A b \in Agents : RowOf(entry'[b]) = RowOf(entry[b]) \/ entry[b] = None
        BY <1>5 DEF MarkOffline, TypeOK, Entry, RowOf
  <2>2. \A b \in Agents : entry[b] = None => entry'[b] = None
        BY <1>5 DEF MarkOffline, ToScan, TypeOK
  <2> QED
      BY <1>5, <2>1, <2>2 DEF MarkOffline
<1>6. ASSUME NEW a \in Agents, PurgeAgent(a)
      PROVE  RowsAgree'
      BY <1>6 DEF PurgeAgent, TypeOK
<1>7. CASE Restart
  <2>1. \A kept \in SUBSET Parsable : \A a \in Agents :
            Loaded(kept)[a] # None => rows[a] = RowOf(Loaded(kept)[a])
        BY DEF Loaded, RowOf, TypeOK, Row
  <2> QED
      BY <1>7, <2>1 DEF Restart
<1>8. CASE entry' = entry /\ rows' = rows
      BY <1>8
<1> QED
    BY <1>1, <1>2, <1>3, <1>4, <1>5, <1>6, <1>7, <1>8
    DEF Next, vars, registryVars, StartAgent, RegisterNew, NewSecretLost,
        RegisterAgain, RegistrationRefused, Heartbeat, Goodbye,
        HeartbeatAccepted, AgentDies, NothingToPurge

(* An agent that got its secret has the one in its row. *)
LEMMA RowSecretsStep == RegistryInv /\ [Next]_vars => RowSecretsAgree'
<1> SUFFICES ASSUME RegistryInv, [Next]_vars PROVE RowSecretsAgree'
    OBVIOUS
<1> USE RegistryAssumption DEF RegistryInv, RowSecretsAgree
<1>1. ASSUME NEW a \in Agents, RegisterNew(a) PROVE RowSecretsAgree'
  <2>1. rows' = [rows EXCEPT ![a] = RowOf(NewEntry(NewSecret))]
        BY <1>1 DEF RegisterNew, ReplaceEntry
  <2>2. rows'[a].secret = NewSecret
        BY <2>1 DEF RowOf, NewEntry, TypeOK
  <2>3. conf' = [conf EXCEPT ![Home[a]] = NewSecret]
        BY <1>1 DEF RegisterNew, KeepSecret
  <2>4. conf'[Home[a]] = NewSecret
        BY <2>3 DEF TypeOK
  <2>5. ASSUME NEW b \in Agents \ excused', b # a
        PROVE  b \notin excused /\ rows'[b] = rows[b]
               /\ conf'[Home[b]] = conf[Home[b]]
        BY <1>1, <2>1, <2>3, <2>5 DEF RegisterNew, Neighbours, TypeOK
  <2> QED
      BY <2>2, <2>4, <2>5
<1>2. ASSUME NEW a \in Agents, NewSecretLost(a) PROVE RowSecretsAgree'
      BY <1>2 DEF NewSecretLost, ReplaceEntry, TypeOK
<1>3. ASSUME NEW a \in Agents, RegisterAgain(a) PROVE RowSecretsAgree'
  <2>1. rows[a].secret = entry[a].secret /\ entry[a].secret # None
    <3>1. Known(a) /\ entry[a].secret # None
          BY <1>3 DEF RegisterAgain, IdentityValid
    <3>2. rows[a] = RowOf(entry[a])
          BY <3>1 DEF RowsAgree
    <3> QED
        BY <3>1, <3>2 DEF RowOf
  <2>2. entry[a].secret \in Secrets /\ rows[a] # None
        BY <1>3, <2>1, NoneAssumption
        DEF RegisterAgain, Known, TypeOK, Entry, RowsAgree, RowOf, Row
  <2>3. /\ rows' = [rows EXCEPT ![a] = RowOf(NewEntry(entry[a].secret))]
        /\ conf' = conf /\ excused' = excused
        BY <1>3 DEF RegisterAgain, ReplaceEntry
  <2>4. rows'[a].secret = rows[a].secret
        BY <2>1, <2>3 DEF RowOf, NewEntry, TypeOK
  <2>5. \A b \in Agents : b # a => rows'[b] = rows[b]
        BY <2>3 DEF TypeOK
  <2> QED
      BY <2>2, <2>3, <2>4, <2>5
<1>4. ASSUME NEW a \in Agents, RevokeAgent(a) PROVE RowSecretsAgree'
  <2>1. entry[a] \in Entry
        BY <1>4 DEF RevokeAgent, Known, TypeOK
  <2>2. rows'[a].secret = None /\ \A b \in Agents : b # a => rows'[b] = rows[b]
        BY <1>4, <2>1 DEF RevokeAgent, RowOf, Entry, TypeOK
  <2> QED
      BY <1>4, <2>2 DEF RevokeAgent, agentVars
<1>5. CASE rows' = rows /\ conf' = conf /\ excused' = excused
      BY <1>5
<1> QED
    BY <1>1, <1>2, <1>3, <1>4, <1>5
    DEF Next, vars, agentVars, StartAgent, RegistrationRefused, Heartbeat,
        Goodbye, AgentDies, BecomesOverdue, MarkOffline, PurgeAgent,
        NothingToPurge, Restart

(* The pass sees another entry than the current one of touched agents only.*)
LEMMA ReplacedStep == RegistryInv /\ [Next]_vars => ReplacedAreTouched'
<1> SUFFICES ASSUME RegistryInv, [Next]_vars PROVE ReplacedAreTouched'
    OBVIOUS
<1> USE DEF RegistryInv, ReplacedAreTouched
<1>1. ASSUME NEW a \in Agents, NEW e, ReplaceEntry(a, e)
      PROVE  ReplacedAreTouched'
      BY <1>1 DEF ReplaceEntry, Touch, TypeOK
<1>2. CASE PassEnds
      BY <1>2 DEF PassEnds
<1>3. ASSUME NEW a \in Agents, PurgeAgent(a) PROVE ReplacedAreTouched'
      BY <1>2, <1>3 DEF PurgeAgent
<1>4. CASE replaced' = replaced /\ touched \subseteq touched'
      BY <1>4
<1> QED
    BY <1>1, <1>2, <1>3, <1>4
    DEF Next, vars, registryVars, StartAgent, RegisterNew, NewSecretLost,
        RegisterAgain, RegistrationRefused, Heartbeat, Goodbye, HeardOf, Touch,
        AgentDies, BecomesOverdue, RevokeAgent, MarkOffline, NothingToPurge,
        Restart

(* What the pass sees of an agent that is not touched is its entry.        *)
LEMMA SeenIsEntry ==
    ASSUME RegistryInv, NEW a \in Agents \ touched
    PROVE  replaced[a] = None /\ Seen(a) = entry[a]
BY DEF RegistryInv, ReplacedAreTouched, Seen

(* An agent that is to be purged is stale, or touched. *)
LEMMA PurgedAreStale ==
    ASSUME RegistryInv, NEW a \in ToPurge \ touched, Known(a)
    PROVE  entry[a].status = "offline" /\ entry[a].overdue
<1>1. CASE a \in condemned
      BY <1>1 DEF RegistryInv, CondemnedAreStale
<1>2. CASE a \notin condemned
  <2>1. a \in ToScan /\ Stale(a)
        BY <1>2 DEF ToPurge
  <2>2. a \in Agents
        BY <2>1 DEF ToScan, RegistryInv, TypeOK
  <2> QED
      BY <2>1, <2>2, SeenIsEntry DEF Stale
<1> QED
    BY <1>1, <1>2

LEMMA CondemnedStep == RegistryInv /\ [Next]_vars => CondemnedAreStale'
<1> SUFFICES ASSUME RegistryInv, [Next]_vars PROVE CondemnedAreStale'
    OBVIOUS
<1> USE DEF CondemnedAreStale, Known
<1>1. ASSUME NEW a \in Agents, Touch(a), condemned' = condemned,
             \A b \in Agents : b # a => entry'[b] = entry[b]
      PROVE  CondemnedAreStale'
      BY <1>1 DEF RegistryInv, Touch, TypeOK
<1>2. ASSUME NEW a \in Agents, NEW e, ReplaceEntry(a, e),
             condemned' = condemned
      PROVE  CondemnedAreStale'
      BY <1>1, <1>2 DEF ReplaceEntry, RegistryInv, TypeOK
<1>3. ASSUME NEW a \in Agents, NEW s, HeardOf(a, s), condemned' = condemned
      PROVE  CondemnedAreStale'
      BY <1>1, <1>3 DEF HeardOf, RegistryInv, TypeOK
<1>4. ASSUME NEW a \in Agents, RevokeAgent(a) PROVE CondemnedAreStale'
      BY <1>1, <1>4 DEF RevokeAgent, passVars, RegistryInv, TypeOK
<1>5. ASSUME NEW a \in Agents, BecomesOverdue(a) PROVE CondemnedAreStale'
      BY <1>5 DEF BecomesOverdue, passVars, RegistryInv, TypeOK
<1>6. ASSUME NEW a \in Agents, MarkOffline(a) PROVE CondemnedAreStale'
  <2> SUFFICES ASSUME NEW b \in condemned', b \notin touched, Known(b)'
               PROVE  (entry[b].status = "offline" /\ entry[b].overdue)'
      BY <1>6 DEF MarkOffline
  <2>1. b \in condemned \/ (b \in ToScan /\ Stale(b))
        BY <1>6 DEF MarkOffline
  <2>2. b \in Agents
        BY <2>1 DEF ToScan, RegistryInv, TypeOK
  <2>3. CASE b = a
    <3>1. entry[a].status = "online"
          BY <1>6, <2>3, SeenIsEntry DEF MarkOffline, Silent
    <3>2. ~Stale(a) /\ a \in condemned /\ entry[a] # None
          BY <1>6, <2>1, <2>3, <3>1, SeenIsEntry
          DEF MarkOffline, Stale, ToScan, RegistryInv, TypeOK
    <3> QED
        BY <2>3, <3>1, <3>2 DEF RegistryInv
  <2>4. CASE b # a
    <3>1. entry'[b] = entry[b]
          BY <1>6, <2>2, <2>4 DEF MarkOffline, RegistryInv, TypeOK
    <3> QED
        BY <2>1, <2>2, <3>1, SeenIsEntry DEF Stale, RegistryInv
  <2> QED
      BY <2>3, <2>4
<1>7. CASE PassEnds
      BY <1>7 DEF PassEnds
<1>8. ASSUME NEW a \in Agents, PurgeAgent(a) PROVE CondemnedAreStale'
  <2>1. CASE ~PassEnds
    <3>1. condemned' = ToPurge \ {a} /\ touched' = touched
          BY <1>8, <2>1 DEF PurgeAgent
    <3>2. ToPurge \subseteq Agents
          BY DEF ToPurge, ToScan, RegistryInv, TypeOK
    <3>3. \A b \in Agents \ {a} : entry'[b] = entry[b]
          BY <1>8 DEF PurgeAgent, RegistryInv, TypeOK
    <3> QED
        BY <3>1, <3>2, <3>3, PurgedAreStale
  <2> QED
      BY <1>7, <2>1
<1>9. CASE entry' = entry /\ condemned' = condemned /\ touched' = touched
      BY <1>9 DEF RegistryInv
<1> QED
    BY <1>2, <1>3, <1>4, <1>5, <1>6, <1>7, <1>8, <1>9
    DEF Next, vars, registryVars, passVars, StartAgent, RegisterNew,
        NewSecretLost, RegisterAgain, RegistrationRefused, Heartbeat, Goodbye,
        AgentDies, NothingToPurge, Restart

LEMMA InvStep == RegistryInv /\ [Next]_vars => RegistryInv'
BY TypeStep, RowsStep, RowSecretsStep, ReplacedStep, CondemnedStep
DEF RegistryInv

-----------------------------------------------------------------------------
(* The properties *)

(* An agent that was sent its secret, and whose machine no other agent has *)
(* registered from since, is never refused for want of it: its file has    *)
(* the secret of its entry, through any restarts of either side.           *)
THEOREM SecretsAlwaysAgree == Spec => []SecretsAgree
<1>1. RegistryInv => SecretsAgree
  <2> SUFFICES ASSUME RegistryInv, NEW a \in Agents \ excused, Known(a),
                      entry[a].secret # None
               PROVE  conf[Home[a]] = entry[a].secret
      BY DEF SecretsAgree
  <2>1. rows[a] = RowOf(entry[a]) /\ entry[a] \in Entry
        BY DEF RegistryInv, RowsAgree, TypeOK, Known
  <2>2. rows[a] # None /\ rows[a].secret = entry[a].secret
        BY <2>1, NoneAssumption DEF RowOf, Entry, Row
  <2> QED
      BY <2>2 DEF RegistryInv, RowSecretsAgree
<1> QED
    BY <1>1, InvInit, InvStep, PTL DEF Spec

(* Only a purge or a restart makes the center forget an agent. *)
LEMMA KnownStays ==
    ASSUME TypeOK, [Next]_vars, restarts' = restarts,
           NEW a \in Agents, Known(a), ~PurgeAgent(a)
    PROVE  Known(a)'
<1>1. ASSUME NEW b \in Agents, NEW e \in Entry,
             entry' = [entry EXCEPT ![b] = e]
      PROVE  Known(a)'
      BY <1>1, EntryChangeType
<1>2. \A b \in Agents : Known(b) => entry[b] \in Entry
      BY DEF Known, TypeOK
<1>3. ASSUME NEW b \in Agents, Fresh # {}, ReplaceEntry(b, NewEntry(NewSecret))
      PROVE  Known(a)'
  <2>1. NewEntry(NewSecret) \in Entry
        BY <1>3, NewSecretType DEF NewEntry, Entry, Status
  <2> QED
      BY <1>1, <1>3, <2>1 DEF ReplaceEntry
<1>4. ASSUME NEW b \in Agents, RegisterAgain(b) PROVE Known(a)'
  <2>1. NewEntry(entry[b].secret) \in Entry
        BY <1>2, <1>4 DEF RegisterAgain, NewEntry, Entry, Status
  <2> QED
      BY <1>1, <1>4, <2>1 DEF RegisterAgain, ReplaceEntry
<1>5. ASSUME NEW b \in Agents, NEW s \in Status, Known(b), HeardOf(b, s)
      PROVE  Known(a)'
  <2> DEFINE e == [entry[b] EXCEPT !.status = s, !.overdue = FALSE]
  <2>1. e \in Entry
        BY <1>2, <1>5 DEF Entry
  <2>2. entry' = [entry EXCEPT ![b] = e]
        BY <1>2, <1>5 DEF HeardOf, TypeOK, Entry
  <2> HIDE DEF e
  <2> QED
      BY <1>1, <2>1, <2>2
<1>6. ASSUME NEW b \in Agents, BecomesOverdue(b) PROVE Known(a)'
  <2> DEFINE e == [entry[b] EXCEPT !.overdue = TRUE]
  <2>1. e \in Entry /\ entry' = [entry EXCEPT ![b] = e]
        BY <1>2, <1>6 DEF BecomesOverdue, Entry
  <2> HIDE DEF e
  <2> QED
      BY <1>1, <2>1
<1>7. ASSUME NEW b \in Agents, RevokeAgent(b) PROVE Known(a)'
  <2> DEFINE e == [entry[b] EXCEPT !.status = "revoked", !.overdue = FALSE,
                                   !.secret = None, !.revoked = TRUE]
  <2>1. e \in Entry
        BY <1>2, <1>7 DEF RevokeAgent, Entry, Status
  <2>2. entry' = [entry EXCEPT ![b] = e]
        BY <1>7 DEF RevokeAgent
  <2> HIDE DEF e
  <2> QED
      BY <1>1, <2>1, <2>2
<1>8. ASSUME NEW b \in Agents, MarkOffline(b) PROVE Known(a)'
  <2> DEFINE e == [entry[b] EXCEPT !.status = "offline", !.overdue = FALSE]
  <2>1. Known(b)
        BY <1>8 DEF MarkOffline, ToScan, TypeOK
  <2>2. e \in Entry
        BY <1>2, <2>1 DEF Entry, Status
  <2>3. entry' = [entry EXCEPT ![b] = e] \/ entry' = entry
        BY <1>2, <1>8, <2>1 DEF MarkOffline, TypeOK, Entry
  <2> HIDE DEF e
  <2> QED
      BY <1>1, <2>2, <2>3 DEF Known
<1>9. ASSUME NEW b \in Agents, PurgeAgent(b) PROVE Known(a)'
      BY <1>9 DEF PurgeAgent, Known, TypeOK
<1>10. ~Restart
       BY DEF Restart, TypeOK
<1>11. CASE entry' = entry
       BY <1>11 DEF Known
<1> QED
    BY <1>3, <1>4, <1>5, <1>6, <1>7, <1>8, <1>9, <1>10, <1>11
    DEF Next, vars, registryVars, StartAgent, RegisterNew, NewSecretLost,
        Admitted, RegistrationRefused, Heartbeat, Goodbye, HeartbeatAccepted,
        Status, AgentDies, NothingToPurge

(* The cleanup loop forgets no agent that has not been offline for ten     *)
(* minutes, unless the agent was heard of, registered or revoked while the *)
(* loop was awaiting a send.                                               *)
THEOREM PurgesAreOfStaleAgents == Spec => PurgedWasStale
<1>1. ASSUME RegistryInv, [Next]_vars, NEW a \in Agents, Known(a), ~Known(a)',
             restarts' = restarts
      PROVE  \/ entry[a].status = "offline" /\ entry[a].overdue
             \/ a \in touched
  <2>1. PurgeAgent(a)
        BY <1>1, KnownStays DEF RegistryInv
  <2>2. a \in ToPurge
        BY <2>1 DEF PurgeAgent
  <2> QED
      BY <1>1, <2>2, PurgedAreStale
<1>2. RegistryInv /\ [Next]_vars =>
          [\A a \in Agents :
              Known(a) /\ ~Known(a)' /\ restarts' = restarts =>
                  \/ entry[a].status = "offline" /\ entry[a].overdue
                  \/ a \in touched]_vars
      BY <1>1
<1> QED
    BY <1>2, InvInit, InvStep, PTL DEF Spec, PurgedWasStale

(* A revoked agent stays revoked, whatever registers, reports, is silent   *)
(* or is purged, but for a revocation the cleanup loop overtakes.          *)
THEOREM RevocationsLast == Spec => RevocationLasts
<1>1. ASSUME RegistryInv, [Next]_vars, NEW a \in Agents \ MasterKeyed,
             Known(a), entry[a].status = "revoked", restarts' = restarts,
             a \notin touched
      PROVE  Known(a)' /\ entry'[a].status = "revoked"
  <2> USE <1>1
  <2>1. ~IdentityValid(a)
        BY DEF IdentityValid
  <2>2. ~PurgeAgent(a)
        BY PurgedAreStale DEF PurgeAgent
  <2>3. Known(a)'
        BY <2>2, KnownStays DEF RegistryInv
  <2>4. entry \in [Agents -> Entry \cup {None}] /\ entry[a] \in Entry
        BY DEF RegistryInv, TypeOK, Known
  <2>5. CASE entry'[a] = entry[a]
        BY <2>3, <2>5
  <2>6. ASSUME NEW b \in Agents, NEW e, ReplaceEntry(b, e), b # a
        PROVE  entry'[a] = entry[a]
        BY <2>4, <2>6 DEF ReplaceEntry
  <2>7. ASSUME NEW b \in Agents, NEW s, HeardOf(b, s), HeartbeatAccepted(b)
        PROVE  entry'[a] = entry[a]
        BY <2>1, <2>4, <2>7 DEF HeardOf, HeartbeatAccepted
  <2>8. ASSUME NEW b \in Agents, BecomesOverdue(b)
        PROVE  entry'[a].status = "revoked"
        BY <2>4, <2>8 DEF BecomesOverdue, Entry
  <2>9. ASSUME NEW b \in Agents, RevokeAgent(b)
        PROVE  entry'[a].status = "revoked"
        BY <2>4, <2>9 DEF RevokeAgent, Entry
  <2>10. ASSUME NEW b \in Agents, MarkOffline(b)
         PROVE  entry'[a] = entry[a]
    <3>1. b # a
          BY <2>10, SeenIsEntry DEF MarkOffline, Silent
    <3> QED
        BY <2>4, <2>10, <3>1 DEF MarkOffline
  <2>11. ASSUME NEW b \in Agents, PurgeAgent(b)
         PROVE  entry'[a] = entry[a]
         BY <2>2, <2>4, <2>11 DEF PurgeAgent
  <2>12. ~Restart
         BY DEF Restart, RegistryInv, TypeOK
  <2>13. ASSUME NEW b \in Agents,
                RegisterNew(b) \/ NewSecretLost(b) \/ RegisterAgain(b)
         PROVE  entry'[a] = entry[a]
    <3>1. b # a
          BY <2>1, <2>13
          DEF RegisterNew, NewSecretLost, Admitted, RegisterAgain
    <3> QED
        BY <2>6, <2>13, <3>1 DEF RegisterNew, NewSecretLost, RegisterAgain
  <2> QED
      BY <2>3, <2>5, <2>7, <2>8, <2>9, <2>10, <2>11, <2>12, <2>13
      DEF Next, vars, registryVars, StartAgent, RegistrationRefused, Heartbeat,
          Goodbye, AgentDies, NothingToPurge
<1>2. RegistryInv /\ [Next]_vars =>
          [\A a \in Agents \ MasterKeyed :
              Known(a) /\ entry[a].status = "revoked" /\ restarts' = restarts =>
                  \/ Known(a)' /\ entry'[a].status = "revoked"
                  \/ a \in touched]_vars
      BY <1>1
<1> QED
    BY <1>2, InvInit, InvStep, PTL DEF Spec, RevocationLasts

=============================================================================
