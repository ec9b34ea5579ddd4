-------------------------- MODULE CommandLine_proofs --------------------------
(***************************************************************************)
(* Proofs about CommandLine: what the processes of a home directory keep   *)
(* in config.json and in the file of results, for any number of processes  *)
(* of any kinds, and any mishaps.                                          *)
(*                                                                         *)
(* Each property names the mishaps it takes to break it.  Without them     *)
(* there is one writer at a time, and what it writes covers what the file  *)
(* had.  That is enough for the keys (KeysInv), the pins and secrets       *)
(* (MemoryInv), the center's idea of the secrets (SecretInv), and for the  *)
(* saved results (OutputInv).                                              *)
(***************************************************************************)
EXTENDS CommandLine, TLAPS

Out == {"off", "done", "saved"}
Drafting == {"save", "resave", "pin", "keep"} \cup Writing
Issuing == {"issued", "keep", "keeping"}

NobodyWrites == \A p \in Procs : at[p] \notin Writing

(* Who has minted the keys it has not written yet.                         *)
Minted(p) == at[p] \in {"save", "fill"} /\ keys[p] = p
Settled(p) == at[p] \notin Out /\ ~Minted(p)

Safe == mishaps \cap {"first", "cut", "torn"} = {}
Sound == mishaps \cap {"first", "cut", "torn", "stale"} = {}
Alone == mishaps \cap {"first", "cut", "torn", "stale", "orphan", "twin"} = {}
OutputSafe == mishaps \cap {"output torn", "output stale", "output cut"} = {}

(* A process that runs has keys, the center knows no id but one of those,  *)
(* and no keys are those of a process that has not started yet.            *)
KeysAreMinted ==
    /\ None \notin known
    /\ \A p \in Procs :
          /\ at[p] \notin Out => keys[p] # None
          /\ at[p] = "off" =>
                file.keys # p /\ \A q \in Procs : keys[q] # p /\ draft[q].keys # p

(* One process writes at a time, and nothing is in the file meanwhile.     *)
OneWriter ==
    \A p \in Procs : at[p] \in Writing =>
        file = NoConfig /\ \A q \in Procs : at[q] \in Writing => q = p

DraftsHaveKeys == \A p \in Procs : at[p] \in Drafting => draft[p].keys = keys[p]

(* The keys of the file are everybody's, and so will be those of whoever   *)
(* is writing, unless it minted keys before another's were written.        *)
FileHasKeys == NobodyWrites => \A p \in Procs : Settled(p) => keys[p] = file.keys

WriterHasKeys ==
    \A w \in Procs : at[w] \in Writing =>
        \/ Minted(w) /\ w \in overtaken
        \/ \A p \in Procs : Settled(p) => keys[p] = draft[w].keys

(* Keys are minted while nobody has any. *)
MintedFirst ==
    \A p \in Procs : Minted(p) /\ p \notin overtaken =>
        file.keys = None /\ \A q \in Procs : ~Settled(q)

KeysInv == Safe => OneWriter /\ DraftsHaveKeys /\ FileHasKeys /\ WriterHasKeys /\ MintedFirst

Pinned(p) == at[p] \in {"pinned"} \cup Issuing \/ (at[p] = "serving" /\ kind[p] = "agent")
Secretive(p) == \/ at[p] \in {"built", "pin", "pinning", "pinned", "issued"}
                \/ at[p] = "serving" /\ kind[p] = "agent"

(* A configuration that has what every agent has put into it.              *)
Remembers(c) ==
    \A p \in Procs :
        /\ Pinned(p) => c.pinned
        /\ Secretive(p) => secret[p] = None \/ c.secret = secret[p]

Covers(c, old) == (old.pinned => c.pinned) /\ (old.secret # None => c.secret = old.secret)

(* The file remembers the agents, and what is about to be written over it  *)
(* does as well.                                                           *)
FileRemembers == NobodyWrites => Remembers(file)

DraftsCover ==
    NobodyWrites =>
        \A p \in Procs : at[p] \in DOMAIN Opens /\ p \notin overtaken => Covers(draft[p], file)

WriterRemembers ==
    \A w \in Procs : at[w] \in Writing /\ w \notin overtaken => Remembers(draft[w])

DraftsArePinned == \A p \in Procs : at[p] \in {"pin", "pinning"} => draft[p].pinned

DraftsAreKept ==
    \A p \in Procs : at[p] \in {"keep", "keeping"} =>
        draft[p].secret = keys[p] /\ secret[p] = keys[p]

(* A secret is that of the id it was given for. *)
SecretsMatch ==
    /\ file.secret \in {None, file.keys}
    /\ \A p \in Procs : at[p] \in Drafting => draft[p].secret \in {None, draft[p].keys}

MemoryInv ==
    Sound => /\ FileRemembers /\ DraftsCover /\ WriterRemembers
             /\ DraftsArePinned /\ DraftsAreKept /\ SecretsMatch

(* One agent starts at a time, with the secret of its id if there is one.  *)
OneStarts == \A p, q \in Procs : at[p] \in Starting /\ at[q] \in Starting => p = q

StartsKnown ==
    \A p \in Procs :
        at[p] \in {"built", "pin", "pinning", "pinned"} /\ keys[p] \in known => secret[p] = keys[p]

(* A secret the center has given is in the file, or will be.               *)
SecretsLast ==
    \A k \in known :
        \/ \E p \in Procs : at[p] \in Issuing /\ keys[p] = k
        \/ NobodyWrites /\ file.secret = k
        \/ \E w \in Procs : at[w] \in Writing /\ (w \in overtaken \/ draft[w].secret = k)

SecretInv == Alone => OneStarts /\ StartsKnown /\ SecretsLast /\ shutOut = {}

ConfigInv == TypeOK /\ KeysAreMinted /\ KeysInv /\ MemoryInv /\ SecretInv

-----------------------------------------------------------------------------
(* Facts about the constants and the parts of the actions                  *)

(* The places where a file is opened, and where it is written.             *)
LEMMA OpensAndFills ==
    /\ DOMAIN Opens = {"save", "resave", "pin", "keep"}
    /\ Opens["save"] = "fill" /\ Opens["resave"] = "refill"
    /\ Opens["pin"] = "pinning" /\ Opens["keep"] = "keeping"
    /\ DOMAIN Fills = Writing
    /\ Fills["fill"] = "ready" /\ Fills["refill"] = "ready"
    /\ Fills["pinning"] = "pinned" /\ Fills["keeping"] = "serving"
BY DEF Opens, Fills, Writing

(* A new configuration is none of a process. *)
LEMMA NothingConfigured ==
    NoConfig \in Configs /\ NoConfig.keys = None /\ ~NoConfig.pinned /\ NoConfig.secret = None
BY DEF NoConfig, Configs

(* A configuration with one field changed has the others as they were.     *)
LEMMA OneFieldChanges ==
    ASSUME NEW c \in Configs, NEW k \in Procs \cup {None}
    PROVE  /\ WithKeys(c, k) \in Configs
           /\ WithKeys(c, k).keys = k
           /\ WithKeys(c, k).pinned = c.pinned
           /\ WithKeys(c, k).secret = c.secret
           /\ WithPin(c) \in Configs
           /\ WithPin(c).keys = c.keys
           /\ WithPin(c).pinned
           /\ WithPin(c).secret = c.secret
           /\ WithSecret(c, k) \in Configs
           /\ WithSecret(c, k).keys = c.keys
           /\ WithSecret(c, k).pinned = c.pinned
           /\ WithSecret(c, k).secret = k
BY DEF Configs, WithKeys, WithPin, WithSecret

-----------------------------------------------------------------------------
(* Types                                                                   *)

(* The type invariant holds initially. *)
LEMMA TypeInit == Init => TypeOK
<1> SUFFICES ASSUME Init PROVE TypeOK
    OBVIOUS
<1>1. kind \in [Procs -> Kinds]
      BY CommandLineAssumption DEF Init
<1>2. at \in [Procs -> Places]
      BY DEF Init, Places
<1>3. draft \in [Procs -> Configs] /\ file \in Configs
      BY NothingConfigured DEF Init
<1> QED
    BY <1>1, <1>2, <1>3 DEF Init, TypeOK

(* A move to another place. *)
LEMMA Moves ==
    ASSUME TypeOK, NEW p \in Procs, NEW place \in Places, Goto(p, place)
    PROVE  /\ at' \in [Procs -> Places]
           /\ at'[p] = place
           /\ \A q \in Procs \ {p} : at'[q] = at[q]
BY DEF TypeOK, Goto

(* A process that ends forgets what it had, and no other forgets anything. *)
LEMMA Ends ==
    ASSUME TypeOK, NEW p \in Procs, NEW place \in Places, Over(p, place)
    PROVE  /\ at' \in [Procs -> Places]
           /\ keys' \in [Procs -> Procs \cup {None}]
           /\ draft' \in [Procs -> Configs]
           /\ secret' \in [Procs -> Procs \cup {None}]
           /\ results' \in [Procs -> SUBSET Procs]
<1>1. Goto(p, place)
      BY DEF Over
<1>2. at' \in [Procs -> Places]
      BY <1>1, Moves
<1>3. draft' \in [Procs -> Configs]
      BY NothingConfigured DEF TypeOK, Over
<1>4. /\ keys' \in [Procs -> Procs \cup {None}]
      /\ secret' \in [Procs -> Procs \cup {None}]
      /\ results' \in [Procs -> SUBSET Procs]
      BY DEF TypeOK, Over
<1> QED
    BY <1>2, <1>3, <1>4

LEMMA TypeEnsure ==
    ASSUME TypeOK, NEW p \in Procs, Ensure(p), kind' = kind PROVE TypeOK'
<1> DEFINE c == IF file.keys = None THEN WithKeys(file, p) ELSE file
<1>1. c \in Configs /\ c.keys \in Procs \cup {None}
      BY OneFieldChanges DEF TypeOK, Configs
<1>2. \E place \in {"save", "resave", "ready"} : Goto(p, place)
      BY DEF Ensure
<1>3. /\ keys' = [keys EXCEPT ![p] = c.keys]
      /\ \/ draft' = [draft EXCEPT ![p] = c]
         \/ draft' = [draft EXCEPT ![p] = NoConfig]
      BY DEF Ensure
<1> HIDE DEF c
<1>4. at' \in [Procs -> Places]
      BY <1>2, Moves DEF Places
<1>5. keys' \in [Procs -> Procs \cup {None}] /\ draft' \in [Procs -> Configs]
      BY <1>1, <1>3, NothingConfigured DEF TypeOK
<1>6. overtaken' \subseteq Procs /\ mishaps' \subseteq Mishaps
      BY DEF TypeOK, Ensure, Loads, Note, Mishaps
<1> QED
    BY <1>4, <1>5, <1>6 DEF TypeOK, Ensure

LEMMA TypeTruncate ==
    ASSUME TypeOK, NEW p \in Procs, Truncate(p), kind' = kind PROVE TypeOK'
<1>1. \E place \in Writing : Goto(p, place)
      BY OpensAndFills DEF Truncate, Writing
<1>2. at' \in [Procs -> Places]
      BY <1>1, Moves DEF Places, Writing
<1>3. mishaps' \subseteq Mishaps
      BY DEF TypeOK, Truncate, Note, Mishaps
<1> QED
    BY <1>2, <1>3, NothingConfigured DEF TypeOK, Truncate

LEMMA TypeFill ==
    ASSUME TypeOK, NEW p \in Procs, Fill(p), kind' = kind PROVE TypeOK'
<1>1. \E place \in {"ready", "resave", "pinned", "serving"} : Goto(p, place)
      BY OpensAndFills DEF Fill, Writing
<1>2. at' \in [Procs -> Places]
      BY <1>1, Moves DEF Places
<1>3. mishaps' \subseteq Mishaps /\ overtaken' \subseteq Procs
      BY DEF TypeOK, Fill, Note, Mishaps
<1>4. file' \in Configs /\ draft' \in [Procs -> Configs]
      BY NothingConfigured DEF TypeOK, Fill
<1> QED
    BY <1>2, <1>3, <1>4 DEF TypeOK, Fill

LEMMA TypeServe ==
    ASSUME TypeOK, NEW p \in Procs, Serve(p), kind' = kind PROVE TypeOK'
<1>1. CASE Goto(p, "serving") /\ UNCHANGED <<keys, draft, secret, results>>
      <2>1. at' \in [Procs -> Places]
            BY <1>1, Moves DEF Places
      <2> QED
          BY <1>1, <2>1 DEF TypeOK, Serve
<1>2. CASE Over(p, "done")
      <2>1. "done" \in Places
            BY DEF Places
      <2> QED
          BY <1>2, <2>1, Ends DEF TypeOK, Serve
<1> QED
    BY <1>1, <1>2 DEF Serve

LEMMA TypeConstruct ==
    ASSUME TypeOK, NEW p \in Procs, Construct(p), kind' = kind PROVE TypeOK'
<1>1. at' \in [Procs -> Places]
      BY Moves DEF Places, Construct
<1>2. mishaps' \subseteq Mishaps
      BY DEF TypeOK, Construct, Note, Mishaps
<1>3. secret' \in [Procs -> Procs \cup {None}]
      BY DEF TypeOK, Construct, Configs
<1> QED
    BY <1>1, <1>2, <1>3 DEF TypeOK, Construct

LEMMA TypePin ==
    ASSUME TypeOK, NEW p \in Procs, Pin(p), kind' = kind PROVE TypeOK'
<1>1. \E place \in {"pinned", "pin"} : Goto(p, place)
      BY DEF Pin
<1>2. at' \in [Procs -> Places]
      BY <1>1, Moves DEF Places
<1>3. mishaps' \subseteq Mishaps /\ overtaken' \subseteq Procs
      BY DEF TypeOK, Pin, Loads, Note, Mishaps
<1>4. WithPin(file) \in Configs
      BY OneFieldChanges DEF TypeOK
<1>5. draft' \in [Procs -> Configs]
      BY <1>4 DEF TypeOK, Pin
<1> QED
    BY <1>2, <1>3, <1>5 DEF TypeOK, Pin

LEMMA TypeRegister ==
    ASSUME TypeOK, NEW p \in Procs, Register(p), kind' = kind PROVE TypeOK'
<1>1. mishaps' \subseteq Mishaps /\ shutOut' \subseteq Procs
      BY DEF TypeOK, Register, Mishaps
<1>2. keys[p] \in Procs \cup {None}
      BY DEF TypeOK
<1>3. known' \subseteq Procs \cup {None}
      BY <1>2 DEF TypeOK, Register
<1>4. CASE /\ \E place \in {"issued", "serving"} : Goto(p, place)
           /\ UNCHANGED <<keys, draft, secret, results>>
      <2>1. at' \in [Procs -> Places]
            BY <1>4, Moves DEF Places
      <2> QED
          BY <1>1, <1>3, <1>4, <2>1 DEF TypeOK, Register
<1>5. CASE Over(p, "done")
      <2>1. "done" \in Places
            BY DEF Places
      <2> QED
          BY <1>1, <1>3, <1>5, <2>1, Ends DEF TypeOK, Register
<1> QED
    BY <1>4, <1>5 DEF Register

LEMMA TypeKeep ==
    ASSUME TypeOK, NEW p \in Procs, Keep(p), kind' = kind PROVE TypeOK'
<1>1. at' \in [Procs -> Places]
      BY Moves DEF Places, Keep
<1>2. mishaps' \subseteq Mishaps /\ overtaken' \subseteq Procs
      BY DEF TypeOK, Keep, Loads, Note, Mishaps
<1>3. WithSecret(file, keys[p]) \in Configs /\ keys[p] \in Procs \cup {None}
      BY OneFieldChanges DEF TypeOK
<1>4. draft' \in [Procs -> Configs] /\ secret' \in [Procs -> Procs \cup {None}]
      BY <1>3 DEF TypeOK, Keep
<1> QED
    BY <1>1, <1>2, <1>4 DEF TypeOK, Keep

LEMMA TypeSettle ==
    ASSUME TypeOK, NEW p \in Procs, NEW saves \in BOOLEAN, Settle(p, saves), kind' = kind
    PROVE  TypeOK'
<1>1. CASE Goto(p, "answered") /\ UNCHANGED <<keys, draft, secret, results>>
      <2>1. at' \in [Procs -> Places]
            BY <1>1, Moves DEF Places
      <2> QED
          BY <1>1, <2>1 DEF TypeOK, Settle
<1>2. CASE Over(p, "done")
      <2>1. "done" \in Places
            BY DEF Places
      <2> QED
          BY <1>2, <2>1, Ends DEF TypeOK, Settle
<1> QED
    BY <1>1, <1>2 DEF Settle

LEMMA TypeGather ==
    ASSUME TypeOK, NEW p \in Procs, Gather(p), kind' = kind PROVE TypeOK'
<1>1. at' \in [Procs -> Places]
      BY Moves DEF Places, Gather
<1>2. mishaps' \subseteq Mishaps /\ overtaken' \subseteq Procs
      BY DEF TypeOK, Gather, Note, Mishaps
<1>3. results' \in [Procs -> SUBSET Procs]
      BY DEF TypeOK, Gather
<1> QED
    BY <1>1, <1>2, <1>3 DEF TypeOK, Gather

LEMMA TypeOpenOutput ==
    ASSUME TypeOK, NEW p \in Procs, OpenOutput(p), kind' = kind PROVE TypeOK'
<1>1. at' \in [Procs -> Places]
      BY Moves DEF Places, OpenOutput
<1>2. mishaps' \subseteq Mishaps
      BY DEF TypeOK, OpenOutput, Note, Mishaps
<1> QED
    BY <1>1, <1>2 DEF TypeOK, OpenOutput

LEMMA TypeWriteOutput ==
    ASSUME TypeOK, NEW p \in Procs, WriteOutput(p), kind' = kind PROVE TypeOK'
<1>1. Over(p, "saved") /\ "saved" \in Places
      BY DEF Places, WriteOutput
<1>2. mishaps' \subseteq Mishaps /\ overtaken' \subseteq Procs
      BY DEF TypeOK, WriteOutput, Note, Mishaps
<1>3. results[p] \in SUBSET Procs
      BY DEF TypeOK
<1>4. output' = results[p] \/ output' = {Torn}
      BY DEF WriteOutput
<1> QED
    BY <1>1, <1>2, <1>3, <1>4, Ends DEF TypeOK, WriteOutput

LEMMA TypeEnd ==
    ASSUME TypeOK, NEW p \in Procs, End(p), kind' = kind PROVE TypeOK'
<1>1. Over(p, "done") /\ "done" \in Places
      BY DEF Places, End
<1>2. mishaps' \subseteq Mishaps /\ overtaken' \subseteq Procs
      BY DEF TypeOK, End, Note, Mishaps
<1> QED
    BY <1>1, <1>2, Ends DEF TypeOK, End

(* The commands that ask the center do no more than settle. *)
LEMMA CommandsSettle ==
    ASSUME NEW p \in Procs, Broadcast(p) \/ Pipeline(p) \/ Query(p)
    PROVE  at[p] = "ready" /\ \E saves \in BOOLEAN : Settle(p, saves)
BY DEF Broadcast, Pipeline, Query

(* A step of the system is one of these steps of a process. *)
LEMMA StepsOfNext ==
    ASSUME Next
    PROVE  /\ kind' = kind
           /\ \E p \in Procs :
                \/ Ensure(p) \/ Truncate(p) \/ Fill(p)
                \/ Serve(p)
                \/ Construct(p) \/ Pin(p) \/ Register(p) \/ Keep(p)
                \/ at[p] = "ready" /\ \E saves \in BOOLEAN : Settle(p, saves)
                \/ Gather(p) \/ OpenOutput(p) \/ WriteOutput(p)
                \/ End(p)
BY CommandsSettle DEF Next

LEMMA TypeNext == TypeOK /\ Next => TypeOK'
<1> SUFFICES ASSUME TypeOK, Next PROVE TypeOK'
    OBVIOUS
<1> QED
    BY StepsOfNext, TypeEnsure, TypeTruncate, TypeFill, TypeServe, TypeConstruct, TypePin,
       TypeRegister, TypeKeep, TypeSettle, TypeGather, TypeOpenOutput, TypeWriteOutput, TypeEnd

(* Every variable keeps its type, for any processes and plans.             *)
THEOREM TypeCorrect == Spec => []TypeOK
<1>1. TypeOK /\ [Next]_vars => TypeOK'
      <2>1. TypeOK /\ UNCHANGED vars => TypeOK'
            BY DEF TypeOK, vars
      <2> QED
          BY <2>1, TypeNext
<1> QED
    BY TypeInit, <1>1, PTL DEF Spec

-----------------------------------------------------------------------------
(* The file of results                                                     *)

Holding == {"gathered", "write"}

(* One command writes at a time, the file is whole when none does, and     *)
(* what a command is about to write has its own answer and those that were *)
(* saved before, unless another has written since it read.                 *)
OutputInv ==
    OutputSafe =>
        /\ \A p, q \in Procs : at[p] = "write" /\ at[q] = "write" => p = q
        /\ output = {Torn} <=> \E p \in Procs : at[p] = "write"
        /\ \A p \in Procs : at[p] \in Holding =>
              /\ p \in results[p]
              /\ p \in overtaken \/ \A q \in Procs : at[q] = "saved" => q \in results[p]
        /\ output # {Torn} => \A q \in Procs : at[q] = "saved" => q \in output

(* A step of a process that neither holds results after it nor leaves the  *)
(* file open.                                                              *)
LEMMA OutputUntouched ==
    ASSUME TypeOK, OutputInv, NEW p \in Procs,
           at[p] \notin {"write", "saved"}, at'[p] \notin Holding \cup {"saved"},
           \A q \in Procs \ {p} : at'[q] = at[q] /\ results'[q] = results[q],
           \A q \in Procs \ {p} : q \in overtaken => q \in overtaken',
           output' = output, mishaps \subseteq mishaps'
    PROVE  OutputInv'
<1> SUFFICES ASSUME OutputSafe'
             PROVE  /\ \A q, r \in Procs : at'[q] = "write" /\ at'[r] = "write" => q = r
                    /\ output' = {Torn} <=> \E q \in Procs : at'[q] = "write"
                    /\ \A q \in Procs : at'[q] \in Holding =>
                          /\ q \in results'[q]
                          /\ q \in overtaken' \/ \A r \in Procs : at'[r] = "saved" => r \in results'[q]
                    /\ output' # {Torn} => \A r \in Procs : at'[r] = "saved" => r \in output'
    BY DEF OutputInv
<1>1. OutputSafe
      BY DEF OutputSafe
<1>2. \A q \in Procs : (at'[q] = "write" <=> at[q] = "write") /\ (at'[q] = "saved" <=> at[q] = "saved")
      BY DEF Holding
<1>3. \A q \in Procs : at'[q] \in Holding => q # p /\ at[q] \in Holding
      BY DEF Holding
<1>4. \A q, r \in Procs : at'[q] = "write" /\ at'[r] = "write" => q = r
      BY <1>1, <1>2 DEF OutputInv
<1>5. output' = {Torn} <=> \E q \in Procs : at'[q] = "write"
      BY <1>1, <1>2 DEF OutputInv
<1>6. \A q \in Procs : at'[q] \in Holding =>
          /\ q \in results'[q]
          /\ q \in overtaken' \/ \A r \in Procs : at'[r] = "saved" => r \in results'[q]
      BY <1>1, <1>2, <1>3 DEF OutputInv
<1>7. output' # {Torn} => \A r \in Procs : at'[r] = "saved" => r \in output'
      BY <1>1, <1>2 DEF OutputInv
<1> QED
    BY <1>4, <1>5, <1>6, <1>7

(* A process that is over leaves the others as they were. *)
LEMMA EndsAlone ==
    ASSUME TypeOK, NEW p \in Procs, NEW place \in Places, Over(p, place)
    PROVE  /\ at'[p] = place
           /\ \A q \in Procs \ {p} :
                 /\ at'[q] = at[q] /\ keys'[q] = keys[q] /\ draft'[q] = draft[q]
                 /\ secret'[q] = secret[q] /\ results'[q] = results[q]
BY DEF TypeOK, Over, Goto

LEMMA OutputGather ==
    ASSUME TypeOK, OutputInv, NEW p \in Procs, Gather(p) PROVE OutputInv'
<1> SUFFICES ASSUME OutputSafe' PROVE OutputInv'
    BY DEF OutputInv
<1>1. OutputSafe /\ ~ Written({"write"}, p)
      BY DEF Gather, OutputSafe, Note
<1>2. at'[p] = "gathered" /\ \A q \in Procs \ {p} : at'[q] = at[q]
      BY Moves DEF Gather, Places
<1>3. \A q \in Procs : at[q] # "write" /\ at'[q] # "write"
      BY <1>1, <1>2 DEF Gather, Written
<1>4. output # {Torn} /\ output' # {Torn} /\ output' = output
      BY <1>1, <1>3 DEF OutputInv, Gather
<1>5. /\ results'[p] = output \cup {p}
      /\ \A q \in Procs \ {p} : results'[q] = results[q] /\ (q \in overtaken => q \in overtaken')
      BY <1>4 DEF TypeOK, Gather
<1>6. \A q \in Procs : at'[q] = "saved" <=> at[q] = "saved"
      BY <1>2 DEF Gather
<1>7. \A q \in Procs : at'[q] = "saved" => q \in output'
      BY <1>1, <1>4, <1>6 DEF OutputInv
<1>8. \A q \in Procs : at'[q] \in Holding =>
          /\ q \in results'[q]
          /\ q \in overtaken' \/ \A r \in Procs : at'[r] = "saved" => r \in results'[q]
      <2> SUFFICES ASSUME NEW q \in Procs, at'[q] \in Holding
                   PROVE  /\ q \in results'[q]
                          /\ q \in overtaken' \/ \A r \in Procs : at'[r] = "saved" => r \in results'[q]
          OBVIOUS
      <2>1. CASE q = p
            BY <1>4, <1>5, <1>7, <2>1
      <2>2. CASE q # p
            BY <1>1, <1>2, <1>5, <1>6, <2>2 DEF OutputInv
      <2> QED
          BY <2>1, <2>2
<1> QED
    BY <1>3, <1>4, <1>7, <1>8 DEF OutputInv

LEMMA OutputOpen ==
    ASSUME TypeOK, OutputInv, NEW p \in Procs, OpenOutput(p) PROVE OutputInv'
<1> SUFFICES ASSUME OutputSafe' PROVE OutputInv'
    BY DEF OutputInv
<1>1. OutputSafe /\ ~ Written({"write"}, p)
      BY DEF OpenOutput, OutputSafe, Note
<1>2. at[p] = "gathered" /\ at'[p] = "write" /\ \A q \in Procs \ {p} : at'[q] = at[q]
      BY Moves DEF OpenOutput, Places
<1>3. \A q \in Procs : at'[q] = "write" <=> q = p
      BY <1>1, <1>2 DEF Written
<1>4. output' = {Torn} /\ results' = results /\ overtaken' = overtaken
      BY DEF OpenOutput
<1>5. \A q \in Procs : (at'[q] = "saved" <=> at[q] = "saved") /\ (at'[q] \in Holding <=> at[q] \in Holding)
      BY <1>2 DEF Holding
<1>6. \A q \in Procs : at'[q] \in Holding =>
          /\ q \in results'[q]
          /\ q \in overtaken' \/ \A r \in Procs : at'[r] = "saved" => r \in results'[q]
      BY <1>1, <1>4, <1>5 DEF OutputInv
<1> QED
    BY <1>3, <1>4, <1>6 DEF OutputInv

LEMMA OutputWrite ==
    ASSUME TypeOK, OutputInv, NEW p \in Procs, WriteOutput(p) PROVE OutputInv'
<1> SUFFICES ASSUME OutputSafe' PROVE OutputInv'
    BY DEF OutputInv
<1>1. OutputSafe /\ p \notin overtaken
      BY DEF WriteOutput, OutputSafe, Note
<1>2. "saved" \in Places /\ Over(p, "saved") /\ at[p] = "write"
      BY DEF WriteOutput, Places
<1>3. at'[p] = "saved" /\ \A q \in Procs \ {p} : at'[q] = at[q] /\ results'[q] = results[q]
      BY <1>2, EndsAlone
<1>4. output' = results[p]
      BY <1>1, <1>2 DEF OutputInv, WriteOutput
<1>5. p \in results[p] /\ \A q \in Procs : at[q] = "saved" => q \in results[p]
      BY <1>1, <1>2 DEF OutputInv, Holding
<1>6. output' # {Torn}
      BY <1>4, CommandLineAssumption DEF TypeOK
<1>7. \A q \in Procs : at'[q] # "write"
      BY <1>1, <1>2, <1>3 DEF OutputInv
<1>8. \A q \in Procs : at'[q] = "saved" => q \in output'
      BY <1>3, <1>4, <1>5
<1>9. \A q \in Procs : at'[q] \in Holding => q \in results'[q] /\ q \in overtaken'
      <2> SUFFICES ASSUME NEW q \in Procs, at'[q] \in Holding PROVE q \in results'[q] /\ q \in overtaken'
          OBVIOUS
      <2>1. q # p /\ at[q] \in Holding /\ results'[q] = results[q]
            BY <1>3 DEF Holding
      <2>2. q \in results[q]
            BY <1>1, <2>1 DEF OutputInv
      <2> QED
          BY <2>1, <2>2 DEF WriteOutput
<1> QED
    BY <1>6, <1>7, <1>8, <1>9 DEF OutputInv

(* Any other step leaves the file of results alone. *)
LEMMA OutputElse ==
    ASSUME TypeOK, OutputInv, NEW p \in Procs,
           \/ Ensure(p) \/ Truncate(p) \/ Fill(p)
           \/ Serve(p)
           \/ Construct(p) \/ Pin(p) \/ Register(p) \/ Keep(p)
           \/ at[p] = "ready" /\ \E saves \in BOOLEAN : Settle(p, saves)
    PROVE  OutputInv'
<1> DEFINE Apart == \A q \in Procs \ {p} : at'[q] = at[q] /\ results'[q] = results[q]
<1>1. CASE \/ Ensure(p) \/ Truncate(p) \/ Fill(p)
           \/ Construct(p) \/ Pin(p) \/ Keep(p)
      <2>1. at[p] \in {"off", "save", "resave", "pin", "keep", "ready", "built", "issued"} \cup Writing
            BY <1>1, OpensAndFills DEF Ensure, Truncate, Fill, Construct, Pin, Keep
      <2>2. \E place \in {"save", "resave", "ready", "built", "pin", "pinned", "serving", "keep"} \cup Writing :
                Goto(p, place)
            BY <1>1, OpensAndFills DEF Ensure, Truncate, Fill, Construct, Pin, Keep, Writing
      <2>3. results' = results /\ output' = output
            BY <1>1 DEF Ensure, Truncate, Fill, Construct, Pin, Keep
      <2>4. \A q \in Procs \ {p} : q \in overtaken => q \in overtaken'
            BY <1>1 DEF Ensure, Truncate, Fill, Construct, Pin, Keep, Loads
      <2>5. mishaps \subseteq mishaps'
            BY <1>1 DEF Ensure, Truncate, Fill, Construct, Pin, Keep, Loads
      <2>6. at'[p] \notin Holding \cup {"saved"} /\ \A q \in Procs \ {p} : at'[q] = at[q]
            BY <2>2, Moves DEF Places, Writing, Holding
      <2>7. at[p] \notin {"write", "saved"}
            BY <2>1 DEF Writing
      <2> QED
          BY <2>3, <2>4, <2>5, <2>6, <2>7, OutputUntouched
<1>2. CASE Serve(p) \/ (at[p] = "ready" /\ \E saves \in BOOLEAN : Settle(p, saves))
      <2>1. at[p] = "ready" /\ output' = output /\ overtaken' = overtaken /\ mishaps' = mishaps
            BY <1>2 DEF Serve, Settle
      <2>2. \/ results' = results /\ \E place \in {"serving", "answered"} : Goto(p, place)
            \/ Over(p, "done")
            BY <1>2 DEF Serve, Settle
      <2>3. "done" \in Places /\ {"serving", "answered"} \subseteq Places
            BY DEF Places
      <2>4. at'[p] \in {"done", "serving", "answered"} /\ Apart
            BY <2>2, <2>3, Moves, EndsAlone
      <2> QED
          BY <2>1, <2>4, OutputUntouched DEF Holding
<1>3. CASE Register(p)
      <2>1. /\ at[p] = "pinned" /\ output' = output /\ overtaken' = overtaken
            /\ mishaps \subseteq mishaps'
            BY <1>3 DEF Register
      <2>2. \/ results' = results /\ \E place \in {"serving", "issued"} : Goto(p, place)
            \/ Over(p, "done")
            BY <1>3 DEF Register
      <2>3. "done" \in Places /\ {"serving", "issued"} \subseteq Places
            BY DEF Places
      <2>4. at'[p] \in {"done", "serving", "issued"} /\ Apart
            BY <2>2, <2>3, Moves, EndsAlone
      <2> QED
          BY <2>1, <2>4, OutputUntouched DEF Holding
<1> QED
    BY <1>1, <1>2, <1>3

LEMMA OutputEnd ==
    ASSUME TypeOK, OutputInv, NEW p \in Procs, End(p) PROVE OutputInv'
<1> SUFFICES ASSUME OutputSafe' PROVE OutputInv'
    BY DEF OutputInv
<1>1. at[p] \notin {"write", "saved"}
      BY DEF End, OutputSafe, Note
<1>2. "done" \in Places /\ Over(p, "done")
      BY DEF End, Places
<1>3. at'[p] = "done" /\ \A q \in Procs \ {p} : at'[q] = at[q] /\ results'[q] = results[q]
      BY <1>2, EndsAlone
<1>4. \A q \in Procs \ {p} : q \in overtaken => q \in overtaken'
      BY DEF End
<1>5. output' = output /\ mishaps \subseteq mishaps'
      BY DEF End
<1> QED
    BY <1>1, <1>3, <1>4, <1>5, OutputUntouched DEF Holding

LEMMA OutputNext == TypeOK /\ OutputInv /\ [Next]_vars => OutputInv'
<1> SUFFICES ASSUME TypeOK, OutputInv, [Next]_vars PROVE OutputInv'
    OBVIOUS
<1>1. CASE UNCHANGED vars
      BY <1>1 DEF vars, OutputInv, OutputSafe
<1>2. CASE Next
      BY <1>2, StepsOfNext, OutputElse, OutputGather, OutputOpen, OutputWrite, OutputEnd
<1> QED
    BY <1>1, <1>2

(* The answer that a command has reported as saved stays in the file       *)
(* unless one read or opened the file while another wrote, wrote what it   *)
(* had read before, or was cut off writing: for any number of commands.    *)
THEOREM OutputIsKeptHolds == Spec => []OutputIsKept
<1>1. Init => OutputInv
      BY DEF Init, OutputInv, Holding
<1>2. OutputInv => OutputIsKept
      BY DEF OutputInv, OutputIsKept, OutputSafe
<1> QED
    BY <1>1, <1>2, OutputNext, TypeCorrect, PTL DEF Spec

-----------------------------------------------------------------------------
(* What each action does to config.json and to who knows it                *)

(* The other processes stay as they are, and no copy becomes younger.      *)
Apart(p) ==
    \A q \in Procs \ {p} :
        /\ at'[q] = at[q] /\ keys'[q] = keys[q] /\ draft'[q] = draft[q] /\ secret'[q] = secret[q]
        /\ q \in overtaken => q \in overtaken'

LEMMA EnsureDoes ==
    ASSUME TypeOK, NEW p \in Procs, Ensure(p)
    PROVE  /\ Apart(p) /\ at[p] = "off" /\ at'[p] \in {"save", "resave", "ready"}
           /\ file' = file /\ known' = known /\ shutOut' = shutOut
           /\ secret' = secret /\ overtaken' = overtaken \ {p}
           /\ mishaps \subseteq mishaps' /\ ("torn" \notin mishaps' => NobodyWrites)
           /\ keys'[p] = IF file.keys = None THEN p ELSE file.keys
           /\ file.keys = None => at'[p] = "save"
           /\ at'[p] \in {"save", "resave"} => /\ draft'[p].keys = keys'[p]
                                               /\ draft'[p].pinned = file.pinned
                                               /\ draft'[p].secret = file.secret
           /\ draft'[p].keys \in {keys'[p], None}
<1> DEFINE mints == file.keys = None
           c == IF mints THEN WithKeys(file, p) ELSE file
           saves == mints \/ kind[p] = "center"
           place == IF mints THEN "save" ELSE IF saves THEN "resave" ELSE "ready"
<1>1. /\ c.keys = IF file.keys = None THEN p ELSE file.keys
      /\ c.pinned = file.pinned /\ c.secret = file.secret
      <2>1. file \in Configs /\ p \in Procs \cup {None}
            BY DEF TypeOK
      <2>2. WithKeys(file, p).keys = p /\ WithKeys(file, p).pinned = file.pinned /\ WithKeys(file, p).secret = file.secret
            BY <2>1, OneFieldChanges
      <2> QED
          BY <2>2
<1>2. /\ place \in {"save", "resave", "ready"} /\ (file.keys = None => place = "save")
      /\ place \in {"save", "resave"} => saves
      OBVIOUS
<1>3. /\ keys' = [keys EXCEPT ![p] = c.keys]
      /\ draft' = [draft EXCEPT ![p] = IF saves THEN c ELSE NoConfig]
      /\ Goto(p, place)
      BY DEF Ensure
<1> HIDE DEF c, saves, place
<1>4. at'[p] = place /\ \A q \in Procs \ {p} : at'[q] = at[q]
      BY <1>2, <1>3, Moves DEF Places
<1>5. keys'[p] = c.keys /\ \A q \in Procs \ {p} : keys'[q] = keys[q] /\ draft'[q] = draft[q]
      BY <1>3 DEF TypeOK
<1>6. draft'[p] = IF saves THEN c ELSE NoConfig
      BY <1>3 DEF TypeOK
<1>7. /\ at[p] = "off" /\ file' = file /\ known' = known /\ shutOut' = shutOut /\ secret' = secret
      /\ overtaken' = overtaken \ {p} /\ mishaps \subseteq mishaps'
      BY DEF Ensure, Loads
<1>8. "torn" \notin mishaps' => NobodyWrites
      BY <1>7 DEF Ensure, Loads, Note, Written, NobodyWrites, Writing
<1>9. Apart(p)
      BY <1>4, <1>5, <1>7 DEF Apart
<1> QED
    BY <1>1, <1>2, <1>4, <1>5, <1>6, <1>7, <1>8, <1>9, NothingConfigured

LEMMA TruncateDoes ==
    ASSUME TypeOK, NEW p \in Procs, Truncate(p)
    PROVE  /\ Apart(p)
           /\ \/ at[p] = "save" /\ at'[p] = "fill"
              \/ at[p] = "resave" /\ at'[p] = "refill"
              \/ at[p] = "pin" /\ at'[p] = "pinning"
              \/ at[p] = "keep" /\ at'[p] = "keeping"
           /\ file' = NoConfig /\ known' = known /\ shutOut' = shutOut /\ keys' = keys
           /\ draft' = draft /\ secret' = secret /\ overtaken' = overtaken
           /\ mishaps \subseteq mishaps' /\ ("torn" \notin mishaps' => NobodyWrites)
<1>1. /\ \/ at[p] = "save" /\ Goto(p, "fill")
         \/ at[p] = "resave" /\ Goto(p, "refill")
         \/ at[p] = "pin" /\ Goto(p, "pinning")
         \/ at[p] = "keep" /\ Goto(p, "keeping")
      /\ file' = NoConfig /\ known' = known /\ shutOut' = shutOut /\ keys' = keys
      /\ draft' = draft /\ secret' = secret /\ overtaken' = overtaken
      /\ mishaps' = mishaps \cup Note("torn", Written(Writing, p))
      BY OpensAndFills DEF Truncate
<1>2. /\ \/ at[p] = "save" /\ at'[p] = "fill"
         \/ at[p] = "resave" /\ at'[p] = "refill"
         \/ at[p] = "pin" /\ at'[p] = "pinning"
         \/ at[p] = "keep" /\ at'[p] = "keeping"
      /\ \A q \in Procs \ {p} : at'[q] = at[q]
      BY <1>1, Moves DEF Places
<1>3. "torn" \notin mishaps' => NobodyWrites
      BY <1>1 DEF Note, Written, NobodyWrites, Writing
<1> QED
    BY <1>1, <1>2, <1>3 DEF Apart

LEMMA FillDoes ==
    ASSUME TypeOK, NEW p \in Procs, Fill(p)
    PROVE  /\ Apart(p)
           /\ \/ at[p] = "fill" /\ at'[p] \in {"ready", "resave"}
              \/ at[p] = "refill" /\ at'[p] = "ready"
              \/ at[p] = "pinning" /\ at'[p] = "pinned"
              \/ at[p] = "keeping" /\ at'[p] = "serving"
           /\ file' \in {draft[p], NoConfig} /\ (file = NoConfig => file' = draft[p])
           /\ known' = known /\ shutOut' = shutOut /\ keys' = keys /\ secret' = secret
           /\ draft'[p] = IF at'[p] = "resave" THEN draft[p] ELSE NoConfig
           /\ \A q \in Procs \ {p} : draft[q] # NoConfig => q \in overtaken'
           /\ mishaps \subseteq mishaps'
           /\ p \in overtaken => {"first", "stale"} \cap mishaps' # {}
           /\ p \in overtaken /\ at[p] = "fill" => "first" \in mishaps'
<1>1. /\ \/ /\ at[p] = "fill" /\ Goto(p, "resave") /\ draft' = draft
         \/ /\ \/ at[p] \in {"fill", "refill"} /\ Goto(p, "ready")
               \/ at[p] = "pinning" /\ Goto(p, "pinned")
               \/ at[p] = "keeping" /\ Goto(p, "serving")
            /\ draft' = [draft EXCEPT ![p] = NoConfig]
      /\ file' \in {draft[p], NoConfig} /\ (file = NoConfig => file' = draft[p])
      /\ known' = known /\ shutOut' = shutOut /\ keys' = keys /\ secret' = secret
      BY OpensAndFills DEF Fill, Writing, SavesAgain
<1>2. /\ \/ at[p] = "fill" /\ at'[p] \in {"ready", "resave"}
         \/ at[p] = "refill" /\ at'[p] = "ready"
         \/ at[p] = "pinning" /\ at'[p] = "pinned"
         \/ at[p] = "keeping" /\ at'[p] = "serving"
      /\ \A q \in Procs \ {p} : at'[q] = at[q]
      /\ IF at'[p] = "resave" THEN draft' = draft ELSE draft' = [draft EXCEPT ![p] = NoConfig]
      BY <1>1, Moves DEF Places
<1>3. /\ draft'[p] = IF at'[p] = "resave" THEN draft[p] ELSE NoConfig
      /\ \A q \in Procs \ {p} : draft'[q] = draft[q]
      BY <1>2 DEF TypeOK
<1>4. /\ \A q \in Procs \ {p} : q \in overtaken \/ draft[q] # NoConfig => q \in overtaken'
      /\ mishaps \subseteq mishaps'
      /\ p \in overtaken => {"first", "stale"} \cap mishaps' # {}
      /\ p \in overtaken /\ at[p] = "fill" => "first" \in mishaps'
      BY DEF Fill, Note
<1> QED
    BY <1>1, <1>2, <1>3, <1>4 DEF Apart

LEMMA ConstructDoes ==
    ASSUME TypeOK, NEW p \in Procs, Construct(p)
    PROVE  /\ Apart(p) /\ at[p] = "ready" /\ at'[p] = "built"
           /\ file' = file /\ known' = known /\ shutOut' = shutOut /\ keys' = keys /\ draft' = draft
           /\ overtaken' = overtaken /\ secret'[p] = file.secret
           /\ mishaps \subseteq mishaps' /\ ("torn" \notin mishaps' => NobodyWrites)
           /\ "twin" \notin mishaps' => \A q \in Procs \ {p} : at[q] \notin Starting
<1>1. at[p] = "ready" /\ at'[p] = "built" /\ \A q \in Procs \ {p} : at'[q] = at[q]
      BY Moves DEF Construct, Places
<1>2. secret'[p] = file.secret /\ \A q \in Procs \ {p} : secret'[q] = secret[q]
      BY DEF TypeOK, Construct
<1>3. "torn" \notin mishaps' => NobodyWrites
      BY <1>1 DEF Construct, Note, Written, NobodyWrites, Writing
<1>4. "twin" \notin mishaps' => \A q \in Procs \ {p} : at[q] \notin Starting
      BY DEF Construct, Note, Written
<1> QED
    BY <1>1, <1>2, <1>3, <1>4 DEF Construct, Apart

LEMMA PinDoes ==
    ASSUME TypeOK, NEW p \in Procs, Pin(p)
    PROVE  /\ Apart(p) /\ at[p] = "built"
           /\ file' = file /\ known' = known /\ shutOut' = shutOut /\ keys' = keys /\ secret' = secret
           /\ overtaken' = overtaken \ {p}
           /\ mishaps \subseteq mishaps' /\ ("torn" \notin mishaps' => NobodyWrites)
           /\ \/ file.pinned /\ at'[p] = "pinned" /\ draft' = draft
              \/ /\ at'[p] = "pin" /\ draft'[p].keys = file.keys
                 /\ draft'[p].pinned /\ draft'[p].secret = file.secret
<1>1. /\ at[p] = "built"
      /\ file' = file /\ known' = known /\ shutOut' = shutOut /\ keys' = keys /\ secret' = secret
      /\ overtaken' = overtaken \ {p} /\ mishaps \subseteq mishaps'
      BY DEF Pin, Loads
<1>2. "torn" \notin mishaps' => NobodyWrites
      BY <1>1 DEF Pin, Loads, Note, Written, NobodyWrites, Writing
<1>3. CASE file.pinned /\ Goto(p, "pinned") /\ draft' = draft
      <2>1. at'[p] = "pinned" /\ \A q \in Procs \ {p} : at'[q] = at[q]
            BY <1>3, Moves DEF Places
      <2> QED
          BY <1>1, <1>2, <1>3, <2>1 DEF Apart
<1>4. CASE draft' = [draft EXCEPT ![p] = WithPin(file)] /\ Goto(p, "pin")
      <2>1. at'[p] = "pin" /\ \A q \in Procs \ {p} : at'[q] = at[q]
            BY <1>4, Moves DEF Places
      <2>2. draft'[p] = WithPin(file) /\ \A q \in Procs \ {p} : draft'[q] = draft[q]
            BY <1>4 DEF TypeOK
      <2>3. WithPin(file).keys = file.keys /\ WithPin(file).pinned /\ WithPin(file).secret = file.secret
            BY OneFieldChanges DEF TypeOK
      <2> QED
          BY <1>1, <1>2, <2>1, <2>2, <2>3 DEF Apart
<1> QED
    BY <1>3, <1>4 DEF Pin

LEMMA KeepDoes ==
    ASSUME TypeOK, NEW p \in Procs, Keep(p)
    PROVE  /\ Apart(p) /\ at[p] = "issued" /\ at'[p] = "keep"
           /\ file' = file /\ known' = known /\ shutOut' = shutOut /\ keys' = keys
           /\ overtaken' = overtaken \ {p} /\ secret'[p] = keys[p]
           /\ mishaps \subseteq mishaps' /\ ("torn" \notin mishaps' => NobodyWrites)
           /\ draft'[p].keys = file.keys /\ draft'[p].pinned = file.pinned /\ draft'[p].secret = keys[p]
<1>1. at[p] = "issued" /\ at'[p] = "keep" /\ \A q \in Procs \ {p} : at'[q] = at[q]
      BY Moves DEF Keep, Places
<1>2. /\ secret'[p] = keys[p] /\ draft'[p] = WithSecret(file, keys[p])
      /\ \A q \in Procs \ {p} : secret'[q] = secret[q] /\ draft'[q] = draft[q]
      BY DEF TypeOK, Keep
<1>3. /\ WithSecret(file, keys[p]).keys = file.keys
      /\ WithSecret(file, keys[p]).pinned = file.pinned
      /\ WithSecret(file, keys[p]).secret = keys[p]
      BY OneFieldChanges DEF TypeOK
<1>4. "torn" \notin mishaps' => NobodyWrites
      BY <1>1 DEF Keep, Loads, Note, Written, NobodyWrites, Writing
<1> QED
    BY <1>1, <1>2, <1>3, <1>4 DEF Keep, Loads, Apart

LEMMA RegisterDoes ==
    ASSUME TypeOK, NEW p \in Procs, Register(p)
    PROVE  /\ Apart(p) /\ at[p] = "pinned" /\ at'[p] \in {"issued", "serving", "done"}
           /\ file' = file /\ overtaken' = overtaken /\ mishaps \subseteq mishaps'
           /\ at'[p] # "done" => keys' = keys /\ draft' = draft /\ secret' = secret
           /\ at'[p] = "done" => keys'[p] = None /\ draft'[p] = NoConfig
           /\ \/ known' = known /\ at'[p] # "issued"
              \/ /\ known' = known \cup {keys[p]}
                 /\ at'[p] = "issued" \/ "orphan" \in mishaps'
           /\ \/ shutOut' = shutOut
              \/ keys[p] \in known /\ secret[p] # keys[p]
<1>1. /\ at[p] = "pinned" /\ file' = file /\ overtaken' = overtaken
      /\ mishaps \subseteq mishaps'
      BY DEF Register
<1>2. RegisterAnswer(p) = "shut_out" => keys[p] \in known /\ secret[p] # keys[p]
      BY DEF RegisterAnswer
<1>3. shutOut' = shutOut \/ (keys[p] \in known /\ secret[p] # keys[p])
      BY <1>2 DEF Register
<1>4. /\ {"done", "serving", "issued"} \subseteq Places
      BY DEF Places
<1>5. CASE /\ \/ Goto(p, "serving") /\ known' = known
              \/ Goto(p, "issued") /\ known' = known \cup {keys[p]}
           /\ UNCHANGED <<keys, draft, secret>>
      <2>1. /\ \/ at'[p] = "serving" /\ known' = known
               \/ at'[p] = "issued" /\ known' = known \cup {keys[p]}
            /\ \A q \in Procs \ {p} : at'[q] = at[q]
            BY <1>4, <1>5, Moves
      <2> QED
          BY <1>1, <1>3, <1>5, <2>1 DEF Apart
<1>6. CASE /\ Over(p, "done")
           /\ \/ known' = known
              \/ known' = known \cup {keys[p]} /\ "orphan" \in mishaps'
      <2>1. /\ at'[p] = "done"
            /\ \A q \in Procs \ {p} :
                  at'[q] = at[q] /\ keys'[q] = keys[q] /\ draft'[q] = draft[q] /\ secret'[q] = secret[q]
            BY <1>4, <1>6, EndsAlone
      <2>2. keys'[p] = None /\ draft'[p] = NoConfig
            BY <1>6 DEF Over, TypeOK
      <2> QED
          BY <1>1, <1>3, <1>6, <2>1, <2>2 DEF Apart
<1> QED
    BY <1>5, <1>6 DEF Register

(* What a process does that neither starts an agent nor changes            *)
(* config.json.                                                            *)
Elsewhere(p) ==
    /\ Apart(p) /\ at[p] \notin Out
    /\ at'[p] \in {"serving", "answered", "gathered", "write", "saved", "done"}
    /\ at'[p] = "serving" => kind[p] = "center"
    /\ at'[p] \notin Out => at[p] \in {"ready", "answered", "gathered"} /\ keys'[p] = keys[p]
    /\ keys'[p] \in {keys[p], None} /\ draft'[p] \in {draft[p], NoConfig}
    /\ file' = file /\ known' = known /\ shutOut' = shutOut /\ mishaps \subseteq mishaps'
    /\ at[p] \in Writing => "cut" \in mishaps'
    /\ at[p] \in Issuing => "orphan" \in mishaps'

LEMMA ElsewhereDoes ==
    ASSUME TypeOK, NEW p \in Procs,
           \/ Serve(p)
           \/ at[p] = "ready" /\ \E saves \in BOOLEAN : Settle(p, saves)
           \/ Gather(p) \/ OpenOutput(p) \/ WriteOutput(p)
           \/ End(p)
    PROVE  Elsewhere(p)
<1>0. "done" \in Places /\ "saved" \in Places /\ "serving" \in Places /\ "answered" \in Places
      BY DEF Places
<1>1. CASE Serve(p) \/ (at[p] = "ready" /\ \E saves \in BOOLEAN : Settle(p, saves))
      <2>1. /\ at[p] = "ready" /\ file' = file /\ known' = known /\ shutOut' = shutOut
            /\ mishaps' = mishaps /\ overtaken' = overtaken
            BY <1>1 DEF Serve, Settle
      <2>2. \/ /\ Goto(p, "answered") \/ (Goto(p, "serving") /\ kind[p] = "center")
               /\ keys' = keys /\ draft' = draft /\ secret' = secret
            \/ Over(p, "done")
            BY <1>1 DEF Serve, Settle
      <2>3. CASE /\ Goto(p, "answered") \/ (Goto(p, "serving") /\ kind[p] = "center")
                 /\ keys' = keys /\ draft' = draft /\ secret' = secret
            <3>1. /\ at'[p] = "answered" \/ (at'[p] = "serving" /\ kind[p] = "center")
                  /\ \A q \in Procs \ {p} : at'[q] = at[q]
                  BY <1>0, <2>3, Moves
            <3> QED
                BY <2>1, <2>3, <3>1 DEF Elsewhere, Apart, Out, Writing, Issuing
      <2>4. CASE Over(p, "done")
            <3>1. at'[p] = "done" /\ keys'[p] = None /\ draft'[p] = NoConfig
                  BY <1>0, <2>4, EndsAlone DEF Over, TypeOK
            <3>2. Apart(p)
                  BY <1>0, <2>1, <2>4, EndsAlone DEF Apart
            <3> QED
                BY <2>1, <3>1, <3>2 DEF Elsewhere, Out, Writing, Issuing
      <2> QED
          BY <2>2, <2>3, <2>4
<1>2. CASE Gather(p) \/ OpenOutput(p)
      <2>1. /\ \/ at[p] = "answered" /\ Goto(p, "gathered")
               \/ at[p] = "gathered" /\ Goto(p, "write")
            /\ file' = file /\ known' = known /\ shutOut' = shutOut /\ mishaps \subseteq mishaps'
            /\ keys' = keys /\ draft' = draft /\ secret' = secret
            /\ \A q \in Procs \ {p} : q \in overtaken => q \in overtaken'
            BY <1>2 DEF Gather, OpenOutput
      <2>2. /\ at'[p] \in {"gathered", "write"}
            /\ \A q \in Procs \ {p} : at'[q] = at[q]
            BY <2>1, Moves DEF Places
      <2> QED
          BY <2>1, <2>2 DEF Elsewhere, Apart, Out, Writing, Issuing
<1>3. CASE WriteOutput(p) \/ End(p)
      <2>1. /\ at[p] \notin Out
            /\ file' = file /\ known' = known /\ shutOut' = shutOut /\ mishaps \subseteq mishaps'
            /\ at[p] \in Writing => "cut" \in mishaps'
            /\ at[p] \in Issuing => "orphan" \in mishaps'
            /\ \A q \in Procs \ {p} : q \in overtaken => q \in overtaken'
            <3>1. CASE WriteOutput(p)
                  BY <3>1 DEF WriteOutput, Out, Writing, Issuing
            <3>2. CASE End(p)
                  BY <3>2 DEF End, Out, Note, Issuing
            <3> QED
                BY <1>3, <3>1, <3>2
      <2>2. \E place \in {"done", "saved"} : Over(p, place)
            BY <1>3 DEF WriteOutput, End
      <2> PICK place \in {"done", "saved"} : Over(p, place)
          BY <2>2
      <2>3. at'[p] = place /\ keys'[p] = None /\ draft'[p] = NoConfig
            <3>1. at'[p] = place
                  BY <1>0, EndsAlone
            <3>2. keys'[p] = None /\ draft'[p] = NoConfig
                  BY DEF Over, TypeOK
            <3> QED
                BY <3>1, <3>2
      <2>4. Apart(p)
            BY <1>0, <2>1, EndsAlone DEF Apart
      <2> QED
          BY <2>1, <2>3, <2>4 DEF Elsewhere, Out
<1> QED
    BY <1>1, <1>2, <1>3

-----------------------------------------------------------------------------
(* Keys                                                                    *)

(* A step after which only keys that there were, and those of the process  *)
(* that takes it, are anywhere.                                            *)
LEMMA MintedStep ==
    ASSUME TypeOK, TypeOK', KeysAreMinted, NEW p \in Procs, Apart(p), at'[p] # "off",
           at'[p] \notin Out => keys'[p] # None,
           keys'[p] \in {keys[p], None, p, file.keys},
           draft'[p].keys \in {draft[p].keys, None, p, file.keys},
           file'.keys \in {file.keys, None, draft[p].keys},
           None \notin known'
    PROVE  KeysAreMinted'
<1> SUFFICES ASSUME NEW q \in Procs
             PROVE  /\ at'[q] \notin Out => keys'[q] # None
                    /\ at'[q] = "off" =>
                          file'.keys # q /\ \A r \in Procs : keys'[r] # q /\ draft'[r].keys # q
    BY DEF KeysAreMinted
<1>1. at'[q] \notin Out => keys'[q] # None
      BY DEF KeysAreMinted, Apart
<1>2. ASSUME at'[q] = "off" PROVE file'.keys # q /\ \A r \in Procs : keys'[r] # q /\ draft'[r].keys # q
      <2>1. q # p /\ at[q] = "off" /\ q # None
            BY <1>2, CommandLineAssumption DEF Apart
      <2>2. file.keys # q /\ \A r \in Procs : keys[r] # q /\ draft[r].keys # q
            BY <2>1 DEF KeysAreMinted
      <2>3. keys'[p] # q /\ draft'[p].keys # q /\ file'.keys # q
            BY <2>1, <2>2
      <2>4. \A r \in Procs \ {p} : keys'[r] # q /\ draft'[r].keys # q
            BY <2>2 DEF Apart
      <2> QED
          BY <2>3, <2>4
<1> QED
    BY <1>1, <1>2

LEMMA MintedNext ==
    ASSUME TypeOK, TypeOK', KeysAreMinted, NEW p \in Procs,
           \/ Ensure(p) \/ Truncate(p) \/ Fill(p)
           \/ Construct(p) \/ Pin(p) \/ Register(p) \/ Keep(p)
           \/ Elsewhere(p)
    PROVE  KeysAreMinted'
<1>0. None \notin known /\ (at[p] \notin Out => keys[p] # None)
      BY DEF KeysAreMinted
<1>1. CASE Ensure(p)
      <2>1. keys'[p] # None /\ keys'[p] \in {p, file.keys}
            BY <1>1, EnsureDoes, CommandLineAssumption
      <2>2. Apart(p) /\ at'[p] # "off" /\ file' = file /\ known' = known /\ draft'[p].keys \in {keys'[p], None}
            BY <1>1, EnsureDoes
      <2> QED
          BY <1>0, <2>1, <2>2, MintedStep
<1>2. CASE Truncate(p)
      <2>1. /\ Apart(p) /\ at'[p] # "off" /\ at[p] \notin Out /\ file' = NoConfig
            /\ known' = known /\ keys' = keys /\ draft' = draft
            BY <1>2, TruncateDoes DEF Out
      <2> QED
          BY <1>0, <2>1, NothingConfigured, MintedStep
<1>3. CASE Fill(p)
      <2>1. /\ Apart(p) /\ at'[p] # "off" /\ at[p] \notin Out /\ file' \in {draft[p], NoConfig}
            /\ known' = known /\ keys' = keys /\ draft'[p] \in {draft[p], NoConfig}
            BY <1>3, FillDoes DEF Out
      <2> QED
          BY <1>0, <2>1, NothingConfigured, MintedStep
<1>4. CASE Construct(p)
      <2>1. /\ Apart(p) /\ at'[p] # "off" /\ at[p] \notin Out /\ file' = file
            /\ known' = known /\ keys' = keys /\ draft' = draft
            BY <1>4, ConstructDoes DEF Out
      <2> QED
          BY <1>0, <2>1, MintedStep
<1>5. CASE Pin(p)
      <2>1. /\ Apart(p) /\ at'[p] # "off" /\ at[p] \notin Out /\ file' = file
            /\ known' = known /\ keys' = keys /\ draft'[p].keys \in {draft[p].keys, file.keys}
            BY <1>5, PinDoes DEF Out
      <2> QED
          BY <1>0, <2>1, MintedStep
<1>6. CASE Register(p)
      <2>1. /\ Apart(p) /\ at'[p] # "off" /\ at[p] \notin Out /\ file' = file
            /\ known' \subseteq known \cup {keys[p]}
            /\ keys'[p] \in {keys[p], None} /\ draft'[p] \in {draft[p], NoConfig}
            /\ at'[p] \notin Out => keys'[p] = keys[p]
            BY <1>6, RegisterDoes DEF Out
      <2> QED
          BY <1>0, <2>1, NothingConfigured, MintedStep
<1>7. CASE Keep(p)
      <2>1. /\ Apart(p) /\ at'[p] # "off" /\ at[p] \notin Out /\ file' = file
            /\ known' = known /\ keys' = keys /\ draft'[p].keys = file.keys
            BY <1>7, KeepDoes DEF Out
      <2> QED
          BY <1>0, <2>1, MintedStep
<1>8. CASE Elsewhere(p)
      <2>1. /\ Apart(p) /\ at'[p] # "off" /\ at[p] \notin Out /\ file' = file /\ known' = known
            /\ keys'[p] \in {keys[p], None} /\ draft'[p] \in {draft[p], NoConfig}
            /\ at'[p] \notin Out => keys'[p] = keys[p]
            BY <1>8 DEF Elsewhere
      <2> QED
          BY <1>0, <2>1, NothingConfigured, MintedStep
<1> QED
    BY <1>1, <1>2, <1>3, <1>4, <1>5, <1>6, <1>7, <1>8

(* A step of a process that does not write, and has after it, if it runs   *)
(* at all, the keys that it ran with.                                      *)
LEMMA KeysAside ==
    ASSUME TypeOK, KeysInv, NEW p \in Procs, Apart(p), file' = file, mishaps \subseteq mishaps',
           Safe' => at[p] \notin Writing,
           at'[p] \notin Drafting \cup {"off"},
           at'[p] \notin Out => at[p] \notin Out \cup {"save", "fill"} /\ keys'[p] = keys[p]
    PROVE  KeysInv'
<1> SUFFICES ASSUME Safe' PROVE OneWriter' /\ DraftsHaveKeys' /\ FileHasKeys' /\ WriterHasKeys' /\ MintedFirst'
    BY DEF KeysInv
<1>1. Safe /\ OneWriter /\ DraftsHaveKeys /\ FileHasKeys /\ WriterHasKeys /\ MintedFirst
      BY DEF KeysInv, Safe
<1>2. at[p] \notin Writing /\ at'[p] \notin Writing
      BY DEF Drafting
<1>3. \A q \in Procs : at'[q] \in Writing <=> at[q] \in Writing
      BY <1>2 DEF Apart
<1>4. \A q \in Procs : Minted(q)' => q # p /\ Minted(q)
      BY DEF Apart, Minted, Drafting, Writing
<1>5. \A q \in Procs : Settled(q)' => Settled(q) /\ keys'[q] = keys[q]
      <2> SUFFICES ASSUME NEW q \in Procs, Settled(q)' PROVE Settled(q) /\ keys'[q] = keys[q]
          OBVIOUS
      <2>1. CASE q = p
            BY <2>1 DEF Settled, Minted
      <2>2. CASE q # p
            BY <2>2 DEF Settled, Minted, Apart
      <2> QED
          BY <2>1, <2>2
<1>6. OneWriter'
      BY <1>1, <1>3 DEF OneWriter
<1>7. DraftsHaveKeys'
      BY <1>1 DEF DraftsHaveKeys, Apart
<1>8. FileHasKeys'
      BY <1>1, <1>3, <1>5 DEF FileHasKeys, NobodyWrites
<1>9. WriterHasKeys'
      <2> SUFFICES ASSUME NEW w \in Procs, at'[w] \in Writing
                   PROVE  \/ Minted(w)' /\ w \in overtaken'
                          \/ \A q \in Procs : Settled(q)' => keys'[q] = draft'[w].keys
          BY DEF WriterHasKeys
      <2>1. w # p /\ at[w] \in Writing /\ draft'[w] = draft[w] /\ at'[w] = at[w] /\ keys'[w] = keys[w]
            BY <1>2 DEF Apart
      <2>2. CASE Minted(w) /\ w \in overtaken
            BY <2>1, <2>2 DEF Minted, Apart
      <2>3. CASE \A q \in Procs : Settled(q) => keys[q] = draft[w].keys
            BY <1>5, <2>1, <2>3
      <2> QED
          BY <1>1, <2>1, <2>2, <2>3 DEF WriterHasKeys
<1>10. MintedFirst'
      BY <1>1, <1>4, <1>5 DEF MintedFirst, Apart
<1> QED
    BY <1>6, <1>7, <1>8, <1>9, <1>10

LEMMA KeysEnsure ==
    ASSUME TypeOK, KeysAreMinted, KeysInv, NEW p \in Procs, Ensure(p) PROVE KeysInv'
<1> SUFFICES ASSUME Safe' PROVE OneWriter' /\ DraftsHaveKeys' /\ FileHasKeys' /\ WriterHasKeys' /\ MintedFirst'
    BY DEF KeysInv
<1>0. /\ Apart(p) /\ at[p] = "off" /\ at'[p] \in {"save", "resave", "ready"} /\ file' = file
      /\ overtaken' = overtaken \ {p} /\ mishaps \subseteq mishaps' /\ ("torn" \notin mishaps' => NobodyWrites)
      /\ keys'[p] = IF file.keys = None THEN p ELSE file.keys
      /\ file.keys = None => at'[p] = "save"
      /\ at'[p] \in {"save", "resave"} => draft'[p].keys = keys'[p]
      BY EnsureDoes
<1>1. Safe /\ DraftsHaveKeys /\ FileHasKeys /\ MintedFirst /\ NobodyWrites
      BY <1>0 DEF KeysInv, Safe
<1>2. NobodyWrites'
      BY <1>0, <1>1 DEF NobodyWrites, Apart, Writing
<1>3. Settled(p)' => keys'[p] = file.keys
      BY <1>0 DEF Settled, Minted
<1>4. file.keys = None => ~ Settled(p)'
      BY <1>0 DEF Settled, Minted
<1>5. \A q \in Procs \ {p} : (Settled(q)' <=> Settled(q)) /\ (Minted(q)' <=> Minted(q)) /\ keys'[q] = keys[q]
      BY <1>0 DEF Settled, Minted, Apart
<1>6. Minted(p)' => file.keys = None
      BY <1>0 DEF Minted, KeysAreMinted
<1>7. file.keys = None => \A q \in Procs : ~Settled(q)
      BY <1>1 DEF FileHasKeys, KeysAreMinted, Settled
<1>8. DraftsHaveKeys'
      BY <1>0, <1>1 DEF DraftsHaveKeys, Apart, Drafting, Writing
<1>9. FileHasKeys'
      BY <1>0, <1>1, <1>3, <1>5 DEF FileHasKeys
<1>10. MintedFirst'
      <2> SUFFICES ASSUME NEW q \in Procs, Minted(q)', q \notin overtaken'
                   PROVE  file.keys = None
          BY <1>0, <1>4, <1>5, <1>7 DEF MintedFirst
      <2> QED
          BY <1>0, <1>1, <1>5, <1>6 DEF MintedFirst
<1> QED
    BY <1>2, <1>8, <1>9, <1>10 DEF OneWriter, WriterHasKeys, NobodyWrites

LEMMA KeysTruncate ==
    ASSUME TypeOK, KeysInv, NEW p \in Procs, Truncate(p) PROVE KeysInv'
<1> SUFFICES ASSUME Safe' PROVE OneWriter' /\ DraftsHaveKeys' /\ FileHasKeys' /\ WriterHasKeys' /\ MintedFirst'
    BY DEF KeysInv
<1>0. /\ Apart(p)
      /\ \/ at[p] = "save" /\ at'[p] = "fill"
         \/ at[p] = "resave" /\ at'[p] = "refill"
         \/ at[p] = "pin" /\ at'[p] = "pinning"
         \/ at[p] = "keep" /\ at'[p] = "keeping"
      /\ file' = NoConfig /\ keys' = keys /\ draft' = draft /\ overtaken' = overtaken
      /\ mishaps \subseteq mishaps' /\ ("torn" \notin mishaps' => NobodyWrites)
      BY TruncateDoes
<1>1. Safe /\ DraftsHaveKeys /\ FileHasKeys /\ MintedFirst /\ NobodyWrites
      BY <1>0 DEF KeysInv, Safe
<1>2. \A q \in Procs : at'[q] \in Writing <=> q = p
      BY <1>0, <1>1 DEF NobodyWrites, Apart, Writing
<1>3. \A q \in Procs : (Settled(q)' <=> Settled(q)) /\ (Minted(q)' <=> Minted(q))
      BY <1>0 DEF Settled, Minted, Apart, Out
<1>4. draft[p].keys = keys[p] /\ (Minted(p) \/ Settled(p))
      BY <1>0, <1>1 DEF DraftsHaveKeys, Drafting, Settled, Out
<1>5. DraftsHaveKeys'
      BY <1>0, <1>1, <1>4 DEF DraftsHaveKeys, Apart
<1>6. \/ Minted(p) /\ p \in overtaken
      \/ \A q \in Procs : Settled(q) => keys[q] = draft[p].keys
      BY <1>1, <1>4 DEF FileHasKeys, MintedFirst
<1>7. WriterHasKeys'
      BY <1>0, <1>2, <1>3, <1>6 DEF WriterHasKeys
<1>8. MintedFirst'
      BY <1>0, <1>1, <1>3, NothingConfigured DEF MintedFirst
<1>9. OneWriter'
      BY <1>0, <1>2 DEF OneWriter
<1>10. FileHasKeys'
      BY <1>2 DEF FileHasKeys, NobodyWrites
<1> QED
    BY <1>5, <1>7, <1>8, <1>9, <1>10

LEMMA KeysFill ==
    ASSUME TypeOK, KeysAreMinted, KeysInv, NEW p \in Procs, Fill(p) PROVE KeysInv'
<1> SUFFICES ASSUME Safe' PROVE OneWriter' /\ DraftsHaveKeys' /\ FileHasKeys' /\ WriterHasKeys' /\ MintedFirst'
    BY DEF KeysInv
<1>0. /\ Apart(p)
      /\ \/ at[p] = "fill" /\ at'[p] \in {"ready", "resave"}
         \/ at[p] = "refill" /\ at'[p] = "ready"
         \/ at[p] = "pinning" /\ at'[p] = "pinned"
         \/ at[p] = "keeping" /\ at'[p] = "serving"
      /\ file = NoConfig => file' = draft[p]
      /\ keys' = keys /\ mishaps \subseteq mishaps'
      /\ \A q \in Procs \ {p} : draft[q] # NoConfig => q \in overtaken'
      /\ draft'[p] = IF at'[p] = "resave" THEN draft[p] ELSE NoConfig
      /\ p \in overtaken /\ at[p] = "fill" => "first" \in mishaps'
      BY FillDoes
<1>1. Safe /\ OneWriter /\ DraftsHaveKeys /\ WriterHasKeys
      BY <1>0 DEF KeysInv, Safe
<1>2. at[p] \in Writing /\ at'[p] \notin Writing /\ (at'[p] \in Drafting => at'[p] = "resave")
      BY <1>0 DEF Writing, Drafting
<1>3. file' = draft[p] /\ NobodyWrites'
      BY <1>0, <1>1, <1>2 DEF OneWriter, NobodyWrites, Apart
<1>4. draft[p].keys = keys[p]
      BY <1>1, <1>2 DEF DraftsHaveKeys, Drafting
<1>5. ~ (Minted(p) /\ p \in overtaken)
      BY <1>0 DEF Minted, Safe, Writing
<1>6. \A q \in Procs : Settled(q) => keys[q] = draft[p].keys
      BY <1>1, <1>2, <1>5 DEF WriterHasKeys
<1>7. \A q \in Procs \ {p} : (Settled(q)' <=> Settled(q)) /\ (Minted(q)' <=> Minted(q))
      BY <1>0 DEF Settled, Minted, Apart
<1>8. DraftsHaveKeys'
      BY <1>0, <1>1, <1>2, <1>4 DEF DraftsHaveKeys, Apart
<1>9. FileHasKeys'
      BY <1>0, <1>3, <1>4, <1>6, <1>7 DEF FileHasKeys
<1>10. \A q \in Procs : Minted(q)' => q \in overtaken'
      <2> SUFFICES ASSUME NEW q \in Procs, Minted(q)' PROVE q \in overtaken'
          OBVIOUS
      <2>1. q # p /\ Minted(q)
            BY <1>0, <1>7 DEF Minted
      <2>2. draft[q].keys = q
            BY <1>1, <2>1 DEF Minted, DraftsHaveKeys, Drafting, Writing
      <2>3. draft[q] # NoConfig
            BY <2>2, NothingConfigured, CommandLineAssumption
      <2> QED
          BY <1>0, <2>1, <2>3
<1>11. MintedFirst'
      BY <1>10 DEF MintedFirst
<1> QED
    BY <1>3, <1>8, <1>9, <1>11 DEF OneWriter, WriterHasKeys, NobodyWrites

(* A process that goes on to change what it has just read. *)
LEMMA KeysDraft ==
    ASSUME TypeOK, KeysInv, NEW p \in Procs, Apart(p), mishaps \subseteq mishaps',
           "torn" \notin mishaps' => NobodyWrites,
           at[p] \notin Out \cup {"save", "fill"}, at'[p] \in {"pin", "keep"},
           file' = file, keys' = keys, draft'[p].keys = file.keys
    PROVE  KeysInv'
<1> SUFFICES ASSUME Safe' PROVE OneWriter' /\ DraftsHaveKeys' /\ FileHasKeys' /\ WriterHasKeys' /\ MintedFirst'
    BY DEF KeysInv
<1>1. Safe /\ DraftsHaveKeys /\ FileHasKeys /\ MintedFirst /\ NobodyWrites
      BY DEF KeysInv, Safe
<1>2. NobodyWrites'
      BY <1>1 DEF NobodyWrites, Apart, Writing
<1>3. Settled(p) /\ Settled(p)' /\ ~ Minted(p)'
      BY DEF Settled, Minted, Out
<1>4. \A q \in Procs \ {p} : (Settled(q)' <=> Settled(q)) /\ (Minted(q)' <=> Minted(q))
      BY DEF Settled, Minted, Apart
<1>5. keys[p] = file.keys
      BY <1>1, <1>3 DEF FileHasKeys
<1>6. DraftsHaveKeys'
      BY <1>1, <1>5 DEF DraftsHaveKeys, Apart
<1>7. FileHasKeys'
      BY <1>1, <1>3, <1>4 DEF FileHasKeys
<1>8. MintedFirst'
      BY <1>1, <1>3, <1>4 DEF MintedFirst, Apart
<1> QED
    BY <1>2, <1>6, <1>7, <1>8 DEF OneWriter, WriterHasKeys, NobodyWrites

LEMMA KeysNext ==
    ASSUME TypeOK, KeysAreMinted, KeysInv, NEW p \in Procs,
           \/ Ensure(p) \/ Truncate(p) \/ Fill(p)
           \/ Construct(p) \/ Pin(p) \/ Register(p) \/ Keep(p)
           \/ Elsewhere(p)
    PROVE  KeysInv'
<1>1. CASE Construct(p)
      <2>1. /\ Apart(p) /\ at[p] = "ready" /\ at'[p] = "built" /\ file' = file /\ keys' = keys
            /\ mishaps \subseteq mishaps'
            BY <1>1, ConstructDoes
      <2> QED
          BY <2>1, KeysAside DEF Writing, Drafting, Out
<1>2. CASE Register(p)
      <2>1. /\ Apart(p) /\ at[p] = "pinned" /\ at'[p] \in {"issued", "serving", "done"} /\ file' = file
            /\ mishaps \subseteq mishaps' /\ (at'[p] # "done" => keys' = keys)
            BY <1>2, RegisterDoes
      <2> QED
          BY <2>1, KeysAside DEF Writing, Drafting, Out
<1>3. CASE Pin(p)
      <2>1. /\ Apart(p) /\ at[p] = "built" /\ file' = file /\ keys' = keys
            /\ mishaps \subseteq mishaps' /\ ("torn" \notin mishaps' => NobodyWrites)
            /\ at'[p] = "pinned" \/ (at'[p] = "pin" /\ draft'[p].keys = file.keys)
            BY <1>3, PinDoes
      <2>2. CASE at'[p] = "pinned"
            BY <2>1, <2>2, KeysAside DEF Writing, Drafting, Out
      <2>3. CASE at'[p] = "pin" /\ draft'[p].keys = file.keys
            BY <2>1, <2>3, KeysDraft DEF Out
      <2> QED
          BY <2>1, <2>2, <2>3
<1>4. CASE Keep(p)
      <2>1. /\ Apart(p) /\ at[p] = "issued" /\ at'[p] = "keep" /\ file' = file /\ keys' = keys
            /\ mishaps \subseteq mishaps' /\ ("torn" \notin mishaps' => NobodyWrites)
            /\ draft'[p].keys = file.keys
            BY <1>4, KeepDoes
      <2> QED
          BY <2>1, KeysDraft DEF Out
<1>5. CASE Elsewhere(p)
      <2>1. Safe' => at[p] \notin Writing
            BY <1>5 DEF Elsewhere, Safe
      <2>2. at'[p] \notin Drafting \cup {"off"}
            BY <1>5 DEF Elsewhere, Drafting, Writing
      <2>3. at'[p] \notin Out => at[p] \notin Out \cup {"save", "fill"} /\ keys'[p] = keys[p]
            BY <1>5 DEF Elsewhere, Out
      <2> QED
          BY <1>5, <2>1, <2>2, <2>3, KeysAside DEF Elsewhere
<1> QED
    BY <1>1, <1>2, <1>3, <1>4, <1>5, KeysEnsure, KeysTruncate, KeysFill

-----------------------------------------------------------------------------
(* Pins and secrets                                                        *)

LEMMA SoundIsSafe == Sound => Safe
BY DEF Sound, Safe

LEMMA MemoryParts ==
    ASSUME MemoryInv, KeysInv, mishaps \subseteq mishaps', Sound'
    PROVE  /\ Sound /\ FileRemembers /\ DraftsCover /\ WriterRemembers
           /\ DraftsArePinned /\ DraftsAreKept /\ SecretsMatch
           /\ OneWriter /\ DraftsHaveKeys /\ FileHasKeys /\ WriterHasKeys /\ MintedFirst
BY SoundIsSafe DEF MemoryInv, KeysInv, Sound

(* A step of a process that does not write, and has put nothing into the   *)
(* file that it had not before.                                            *)
LEMMA MemoryAside ==
    ASSUME TypeOK, KeysInv, MemoryInv, NEW p \in Procs, Apart(p), kind' = kind, file' = file,
           mishaps \subseteq mishaps', Sound',
           at[p] \notin Writing, at'[p] \notin Drafting,
           Pinned(p)' => Pinned(p), Secretive(p)' => Secretive(p) /\ secret'[p] = secret[p]
    PROVE  MemoryInv'
<1>1. /\ FileRemembers /\ DraftsCover /\ WriterRemembers
      /\ DraftsArePinned /\ DraftsAreKept /\ SecretsMatch
      BY MemoryParts
<1>2. \A q \in Procs : at'[q] \in Drafting => q # p /\ at[q] = at'[q] /\ draft'[q] = draft[q]
                            /\ keys'[q] = keys[q] /\ secret'[q] = secret[q] /\ (q \in overtaken => q \in overtaken')
      BY DEF Apart
<1>3. \A q \in Procs : at'[q] \in Writing <=> at[q] \in Writing
      BY DEF Apart, Drafting
<1>4. \A q \in Procs : (Pinned(q)' => Pinned(q)) /\ (Secretive(q)' => Secretive(q) /\ secret'[q] = secret[q])
      <2> SUFFICES ASSUME NEW q \in Procs, q # p
                   PROVE  (Pinned(q)' => Pinned(q)) /\ (Secretive(q)' => Secretive(q) /\ secret'[q] = secret[q])
          OBVIOUS
      <2> QED
          BY DEF Apart, Pinned, Secretive
<1>5. FileRemembers'
      BY <1>1, <1>3, <1>4 DEF FileRemembers, NobodyWrites, Remembers
<1>6. DraftsCover'
      BY <1>1, <1>2, <1>3, OpensAndFills DEF DraftsCover, NobodyWrites, Drafting, Covers
<1>7. WriterRemembers'
      BY <1>1, <1>2, <1>4 DEF WriterRemembers, Remembers, Drafting
<1>8. DraftsArePinned' /\ DraftsAreKept'
      BY <1>1, <1>2 DEF DraftsArePinned, DraftsAreKept, Drafting, Writing
<1>9. SecretsMatch'
      BY <1>1, <1>2 DEF SecretsMatch
<1> QED
    BY <1>5, <1>6, <1>7, <1>8, <1>9 DEF MemoryInv

(* A step of a process that reads the file while nobody writes, and has    *)
(* what it finds or is about to change nothing but what it adds.           *)
LEMMA MemoryReads ==
    ASSUME TypeOK, KeysInv, MemoryInv, NEW p \in Procs, Apart(p), kind' = kind, file' = file,
           mishaps \subseteq mishaps', Sound',
           NobodyWrites, at'[p] \notin Writing,
           at'[p] \in {"save", "resave", "pin", "keep"} =>
               Covers(draft'[p], file) /\ draft'[p].secret \in {None, draft'[p].keys},
           at'[p] = "pin" => draft'[p].pinned,
           at'[p] = "keep" => draft'[p].secret = keys'[p] /\ secret'[p] = keys'[p],
           Pinned(p)' => Pinned(p) \/ file.pinned,
           Secretive(p)' => secret'[p] = file.secret \/ (Secretive(p) /\ secret'[p] = secret[p])
    PROVE  MemoryInv'
<1>1. /\ FileRemembers /\ DraftsCover /\ WriterRemembers
      /\ DraftsArePinned /\ DraftsAreKept /\ SecretsMatch
      BY MemoryParts
<1>2. NobodyWrites'
      BY DEF NobodyWrites, Apart
<1>3. \A q \in Procs \ {p} : (Pinned(q)' => Pinned(q)) /\ (Secretive(q)' => Secretive(q) /\ secret'[q] = secret[q])
      BY DEF Apart, Pinned, Secretive
<1>4. FileRemembers'
      BY <1>1, <1>3 DEF FileRemembers, Remembers
<1>5. DraftsCover'
      <2> SUFFICES ASSUME NEW q \in Procs, at'[q] \in DOMAIN Opens, q \notin overtaken'
                   PROVE  Covers(draft'[q], file)
          BY DEF DraftsCover, Covers
      <2>1. CASE q = p
            BY <2>1, OpensAndFills
      <2>2. CASE q # p
            BY <1>1, <2>2 DEF DraftsCover, Apart
      <2> QED
          BY <2>1, <2>2
<1>6. WriterRemembers'
      BY <1>2 DEF WriterRemembers, NobodyWrites
<1>7. DraftsArePinned'
      BY <1>1 DEF DraftsArePinned, Apart, Writing
<1>8. DraftsAreKept'
      BY <1>1 DEF DraftsAreKept, Apart, Writing
<1>9. SecretsMatch'
      BY <1>1 DEF SecretsMatch, Apart, Drafting
<1> QED
    BY <1>4, <1>5, <1>6, <1>7, <1>8, <1>9 DEF MemoryInv

LEMMA MemoryEnsure ==
    ASSUME TypeOK, KeysInv, MemoryInv, NEW p \in Procs, Ensure(p), kind' = kind PROVE MemoryInv'
<1> SUFFICES ASSUME Sound' PROVE MemoryInv'
    BY DEF MemoryInv
<1>0. /\ Apart(p) /\ at'[p] \in {"save", "resave", "ready"} /\ file' = file
      /\ mishaps \subseteq mishaps' /\ ("torn" \notin mishaps' => NobodyWrites)
      /\ keys'[p] = IF file.keys = None THEN p ELSE file.keys
      /\ at'[p] \in {"save", "resave"} => /\ draft'[p].keys = keys'[p]
                                          /\ draft'[p].pinned = file.pinned
                                          /\ draft'[p].secret = file.secret
      BY EnsureDoes
<1>1. SecretsMatch /\ NobodyWrites
      BY <1>0, MemoryParts DEF Sound
<1>2. at'[p] \in {"save", "resave"} => Covers(draft'[p], file) /\ draft'[p].secret \in {None, draft'[p].keys}
      BY <1>0, <1>1 DEF Covers, SecretsMatch
<1>3. ~Pinned(p)' /\ ~Secretive(p)'
      BY <1>0 DEF Pinned, Secretive, Issuing
<1>4. at'[p] \notin Writing
      BY <1>0 DEF Writing
<1> QED
    BY <1>0, <1>1, <1>2, <1>3, <1>4, MemoryReads

LEMMA MemoryTruncate ==
    ASSUME TypeOK, KeysInv, MemoryInv, NEW p \in Procs, Truncate(p), kind' = kind PROVE MemoryInv'
<1> SUFFICES ASSUME Sound' PROVE MemoryInv'
    BY DEF MemoryInv
<1>0. /\ Apart(p)
      /\ \/ at[p] = "save" /\ at'[p] = "fill"
         \/ at[p] = "resave" /\ at'[p] = "refill"
         \/ at[p] = "pin" /\ at'[p] = "pinning"
         \/ at[p] = "keep" /\ at'[p] = "keeping"
      /\ file' = NoConfig /\ keys' = keys /\ draft' = draft /\ secret' = secret /\ overtaken' = overtaken
      /\ mishaps \subseteq mishaps' /\ ("torn" \notin mishaps' => NobodyWrites)
      BY TruncateDoes
<1>1. /\ FileRemembers /\ DraftsCover /\ DraftsArePinned /\ DraftsAreKept /\ SecretsMatch /\ NobodyWrites
      BY <1>0, MemoryParts DEF Sound
<1>2. \A q \in Procs : at'[q] \in Writing <=> q = p
      BY <1>0, <1>1 DEF NobodyWrites, Apart, Writing
<1>3. \A q \in Procs : (Pinned(q)' => Pinned(q)) /\ (Secretive(q)' => Secretive(q))
      BY <1>0 DEF Apart, Pinned, Secretive, Issuing
<1>4. Remembers(file)
      BY <1>1 DEF FileRemembers
<1>5. p \notin overtaken => Covers(draft[p], file)
      BY <1>0, <1>1, OpensAndFills DEF DraftsCover
<1>6. WriterRemembers'
      <2> SUFFICES ASSUME p \notin overtaken, NEW q \in Procs
                   PROVE  /\ Pinned(q)' => draft[p].pinned
                          /\ Secretive(q)' => secret[q] = None \/ draft[p].secret = secret[q]
          BY <1>0, <1>2 DEF WriterRemembers, Remembers
      <2> QED
          BY <1>3, <1>4, <1>5 DEF Remembers, Covers
<1>7. DraftsArePinned' /\ DraftsAreKept'
      BY <1>0, <1>1 DEF DraftsArePinned, DraftsAreKept, Apart
<1>8. SecretsMatch'
      BY <1>0, <1>1, NothingConfigured DEF SecretsMatch, Apart, Drafting
<1>9. FileRemembers' /\ DraftsCover'
      BY <1>2 DEF FileRemembers, DraftsCover, NobodyWrites
<1> QED
    BY <1>6, <1>7, <1>8, <1>9 DEF MemoryInv

LEMMA MemoryFill ==
    ASSUME TypeOK, KeysAreMinted, KeysInv, MemoryInv, NEW p \in Procs, Fill(p), kind' = kind
    PROVE  MemoryInv'
<1> SUFFICES ASSUME Sound' PROVE MemoryInv'
    BY DEF MemoryInv
<1>0. /\ Apart(p)
      /\ \/ at[p] = "fill" /\ at'[p] \in {"ready", "resave"}
         \/ at[p] = "refill" /\ at'[p] = "ready"
         \/ at[p] = "pinning" /\ at'[p] = "pinned"
         \/ at[p] = "keeping" /\ at'[p] = "serving"
      /\ file = NoConfig => file' = draft[p]
      /\ keys' = keys /\ secret' = secret /\ mishaps \subseteq mishaps'
      /\ \A q \in Procs \ {p} : draft[q] # NoConfig => q \in overtaken'
      /\ draft'[p] = IF at'[p] = "resave" THEN draft[p] ELSE NoConfig
      /\ p \in overtaken => {"first", "stale"} \cap mishaps' # {}
      BY FillDoes
<1>1. /\ WriterRemembers /\ DraftsArePinned /\ DraftsAreKept /\ SecretsMatch /\ OneWriter /\ DraftsHaveKeys
      BY <1>0, MemoryParts
<1>2. /\ at[p] \in Writing /\ at'[p] \notin Writing /\ p \notin overtaken
      /\ at'[p] \in Drafting => at'[p] = "resave"
      BY <1>0 DEF Writing, Drafting, Sound
<1>3. file' = draft[p] /\ NobodyWrites'
      BY <1>0, <1>1, <1>2 DEF OneWriter, NobodyWrites, Apart
<1>4. Remembers(draft[p])
      BY <1>1, <1>2 DEF WriterRemembers
<1>5. Pinned(p)' => draft[p].pinned
      BY <1>0, <1>1, <1>4 DEF Pinned, Issuing, DraftsArePinned, Remembers
<1>6. Secretive(p)' => secret[p] = None \/ draft[p].secret = secret[p]
      BY <1>0, <1>1, <1>4 DEF Secretive, DraftsAreKept, Remembers
<1>7. \A q \in Procs \ {p} : (Pinned(q)' => Pinned(q)) /\ (Secretive(q)' => Secretive(q))
      BY <1>0 DEF Apart, Pinned, Secretive, Issuing
<1>8. FileRemembers'
      BY <1>0, <1>3, <1>4, <1>5, <1>6, <1>7 DEF FileRemembers, Remembers
<1>9. DraftsCover'
      <2>0. at'[p] \in DOMAIN Opens => Covers(draft'[p], file')
            BY <1>0, <1>3, OpensAndFills DEF Covers
      <2> SUFFICES ASSUME NEW q \in Procs, q # p, at'[q] \in DOMAIN Opens PROVE q \in overtaken'
          BY <2>0 DEF DraftsCover, Covers
      <2>1. at[q] = at'[q]
            BY <1>0 DEF Apart
      <2>2. draft[q].keys = keys[q] /\ keys[q] # None
            BY <1>1, <2>1, OpensAndFills DEF DraftsHaveKeys, Drafting, KeysAreMinted, Out
      <2>3. draft[q] # NoConfig
            BY <2>2, NothingConfigured
      <2> QED
          BY <1>0, <2>1, <2>3
<1>10. WriterRemembers'
      BY <1>3 DEF WriterRemembers, NobodyWrites
<1>11. DraftsArePinned'
      BY <1>0, <1>1, <1>2 DEF DraftsArePinned, Apart
<1>12. DraftsAreKept'
      BY <1>0, <1>1, <1>2 DEF DraftsAreKept, Apart
<1>13. SecretsMatch'
      <2>1. file'.secret \in {None, file'.keys}
            BY <1>1, <1>2, <1>3 DEF SecretsMatch, Drafting
      <2>2. \A q \in Procs : at'[q] \in Drafting => draft'[q].secret \in {None, draft'[q].keys}
            BY <1>0, <1>1, <1>2 DEF SecretsMatch, Apart, Drafting
      <2> QED
          BY <2>1, <2>2 DEF SecretsMatch
<1> QED
    BY <1>8, <1>9, <1>10, <1>11, <1>12, <1>13 DEF MemoryInv

LEMMA MemoryPin ==
    ASSUME TypeOK, KeysInv, MemoryInv, NEW p \in Procs, Pin(p), kind' = kind PROVE MemoryInv'
<1> SUFFICES ASSUME Sound' PROVE MemoryInv'
    BY DEF MemoryInv
<1>0. /\ Apart(p) /\ at[p] = "built"
      /\ file' = file /\ keys' = keys /\ secret' = secret
      /\ mishaps \subseteq mishaps' /\ ("torn" \notin mishaps' => NobodyWrites)
      /\ \/ file.pinned /\ at'[p] = "pinned"
         \/ /\ at'[p] = "pin" /\ draft'[p].keys = file.keys
            /\ draft'[p].pinned /\ draft'[p].secret = file.secret
      BY PinDoes
<1>1. SecretsMatch /\ NobodyWrites
      BY <1>0, MemoryParts DEF Sound
<1>2. at'[p] = "pin" => Covers(draft'[p], file) /\ draft'[p].secret \in {None, draft'[p].keys}
      BY <1>0, <1>1 DEF Covers, SecretsMatch
<1>3. Pinned(p)' => file.pinned
      BY <1>0 DEF Pinned, Issuing
<1>4. Secretive(p) /\ secret'[p] = secret[p]
      BY <1>0 DEF Secretive
<1>5. at'[p] \in {"pin", "pinned"} /\ at'[p] \notin Writing
      BY <1>0 DEF Writing
<1> QED
    BY <1>0, <1>1, <1>2, <1>3, <1>4, <1>5, MemoryReads

LEMMA MemoryKeep ==
    ASSUME TypeOK, KeysInv, MemoryInv, NEW p \in Procs, Keep(p), kind' = kind PROVE MemoryInv'
<1> SUFFICES ASSUME Sound' PROVE MemoryInv'
    BY DEF MemoryInv
<1>0. /\ Apart(p) /\ at[p] = "issued" /\ at'[p] = "keep" /\ file' = file /\ keys' = keys
      /\ secret'[p] = keys[p] /\ mishaps \subseteq mishaps' /\ ("torn" \notin mishaps' => NobodyWrites)
      /\ draft'[p].keys = file.keys /\ draft'[p].pinned = file.pinned /\ draft'[p].secret = keys[p]
      BY KeepDoes
<1>1. SecretsMatch /\ FileHasKeys /\ NobodyWrites
      BY <1>0, MemoryParts DEF Sound
<1>2. keys[p] = file.keys
      BY <1>0, <1>1 DEF FileHasKeys, Settled, Minted, Out
<1>3. Covers(draft'[p], file) /\ draft'[p].secret \in {None, draft'[p].keys}
      BY <1>0, <1>1, <1>2 DEF Covers, SecretsMatch
<1>4. Pinned(p) /\ ~Secretive(p)'
      BY <1>0 DEF Pinned, Secretive, Issuing
<1>5. at'[p] \notin Writing
      BY <1>0 DEF Writing
<1> QED
    BY <1>0, <1>1, <1>3, <1>4, <1>5, MemoryReads

LEMMA MemoryConstruct ==
    ASSUME TypeOK, KeysInv, MemoryInv, NEW p \in Procs, Construct(p), kind' = kind PROVE MemoryInv'
<1> SUFFICES ASSUME Sound' PROVE MemoryInv'
    BY DEF MemoryInv
<1>0. /\ Apart(p) /\ at'[p] = "built" /\ file' = file /\ secret'[p] = file.secret
      /\ mishaps \subseteq mishaps' /\ ("torn" \notin mishaps' => NobodyWrites)
      BY ConstructDoes
<1>1. NobodyWrites /\ ~Pinned(p)' /\ at'[p] \notin Writing
      BY <1>0 DEF Sound, Pinned, Issuing, Writing
<1> QED
    BY <1>0, <1>1, MemoryReads

LEMMA MemoryNext ==
    ASSUME TypeOK, KeysAreMinted, KeysInv, MemoryInv, NEW p \in Procs, kind' = kind,
           \/ Ensure(p) \/ Truncate(p) \/ Fill(p)
           \/ Construct(p) \/ Pin(p) \/ Register(p) \/ Keep(p)
           \/ Elsewhere(p)
    PROVE  MemoryInv'
<1> SUFFICES ASSUME Sound' PROVE MemoryInv'
    BY DEF MemoryInv
<1>1. CASE Register(p)
      <2>1. /\ Apart(p) /\ at[p] = "pinned" /\ at'[p] \in {"issued", "serving", "done"} /\ file' = file
            /\ mishaps \subseteq mishaps' /\ (at'[p] # "done" => secret' = secret)
            BY <1>1, RegisterDoes
      <2>2. Pinned(p) /\ Secretive(p) /\ at[p] \notin Writing /\ at'[p] \notin Drafting
            BY <2>1 DEF Pinned, Secretive, Writing, Drafting
      <2>3. Secretive(p)' => secret'[p] = secret[p]
            BY <2>1 DEF Secretive
      <2> QED
          BY <2>1, <2>2, <2>3, MemoryAside
<1>2. CASE Elsewhere(p)
      <2>1. at[p] \notin Writing
            BY <1>2 DEF Elsewhere, Sound
      <2>2. at'[p] \notin Drafting /\ ~Pinned(p)' /\ ~Secretive(p)'
            BY <1>2 DEF Elsewhere, Drafting, Writing, Pinned, Secretive, Issuing
      <2> QED
          BY <1>2, <2>1, <2>2, MemoryAside DEF Elsewhere
<1> QED
    BY <1>1, <1>2, MemoryEnsure, MemoryTruncate, MemoryFill, MemoryPin, MemoryKeep, MemoryConstruct

-----------------------------------------------------------------------------
(* What the center remembers                                               *)

Registering == {"built", "pin", "pinning", "pinned"}

LEMMA SecretParts ==
    ASSUME SecretInv, mishaps \subseteq mishaps', Alone'
    PROVE  Alone /\ Sound' /\ OneStarts /\ StartsKnown /\ SecretsLast /\ shutOut = {}
BY DEF SecretInv, Alone, Sound

(* A step of a process that neither starts an agent nor writes. *)
LEMMA SecretAside ==
    ASSUME TypeOK, SecretInv, NEW p \in Procs, Apart(p), file' = file, known' = known, shutOut' = shutOut,
           mishaps \subseteq mishaps', Alone',
           at[p] \notin Writing \cup Issuing, at'[p] \notin Writing \cup Starting
    PROVE  SecretInv'
<1>1. OneStarts /\ StartsKnown /\ SecretsLast /\ shutOut = {}
      BY SecretParts
<1>2. \A q \in Procs : at'[q] \in Starting => q # p /\ at[q] = at'[q] /\ keys'[q] = keys[q] /\ secret'[q] = secret[q]
      BY DEF Apart
<1>3. Registering \subseteq Starting /\ Issuing \subseteq Starting
      BY DEF Registering, Issuing, Starting
<1>4. OneStarts'
      BY <1>1, <1>2 DEF OneStarts
<1>5. StartsKnown'
      BY <1>1, <1>2, <1>3 DEF StartsKnown, Registering
<1>6. SecretsLast'
      <2> SUFFICES ASSUME NEW k \in known
                   PROVE  \/ \E q \in Procs : at'[q] \in Issuing /\ keys'[q] = k
                          \/ NobodyWrites' /\ file.secret = k
                          \/ \E w \in Procs : at'[w] \in Writing /\ (w \in overtaken' \/ draft'[w].secret = k)
          BY DEF SecretsLast
      <2>1. CASE \E q \in Procs : at[q] \in Issuing /\ keys[q] = k
            BY <2>1 DEF Apart
      <2>2. CASE NobodyWrites /\ file.secret = k
            BY <2>2 DEF NobodyWrites, Apart
      <2>3. CASE \E w \in Procs : at[w] \in Writing /\ (w \in overtaken \/ draft[w].secret = k)
            BY <2>3 DEF Apart
      <2> QED
          BY <1>1, <2>1, <2>2, <2>3 DEF SecretsLast
<1> QED
    BY <1>1, <1>4, <1>5, <1>6 DEF SecretInv

(* A step of an agent that goes on starting. *)
LEMMA SecretStarts ==
    ASSUME TypeOK, SecretInv, NEW p \in Procs, Apart(p), file' = file, known' = known, shutOut' = shutOut,
           keys' = keys, mishaps \subseteq mishaps', Alone',
           at[p] \in Starting \ Writing, at'[p] \in Starting \ Writing,
           at[p] \in Issuing => at'[p] \in Issuing,
           at'[p] \in Registering => at[p] \in Registering /\ secret'[p] = secret[p]
    PROVE  SecretInv'
<1>1. OneStarts /\ StartsKnown /\ SecretsLast /\ shutOut = {}
      BY SecretParts
<1>2. \A q \in Procs : at'[q] \in Starting => q = p
      BY <1>1 DEF OneStarts, Apart
<1>3. OneStarts'
      BY <1>2 DEF OneStarts
<1>4. StartsKnown'
      BY <1>1, <1>2 DEF StartsKnown, Registering, Starting
<1>5. SecretsLast'
      <2> SUFFICES ASSUME NEW k \in known
                   PROVE  \/ \E q \in Procs : at'[q] \in Issuing /\ keys[q] = k
                          \/ NobodyWrites' /\ file.secret = k
                          \/ \E w \in Procs : at'[w] \in Writing /\ (w \in overtaken' \/ draft'[w].secret = k)
          BY DEF SecretsLast
      <2>1. CASE \E q \in Procs : at[q] \in Issuing /\ keys[q] = k
            BY <2>1 DEF Apart
      <2>2. CASE NobodyWrites /\ file.secret = k
            BY <2>2 DEF NobodyWrites, Apart
      <2>3. CASE \E w \in Procs : at[w] \in Writing /\ (w \in overtaken \/ draft[w].secret = k)
            BY <2>3 DEF Apart
      <2> QED
          BY <1>1, <2>1, <2>2, <2>3 DEF SecretsLast
<1> QED
    BY <1>1, <1>3, <1>4, <1>5 DEF SecretInv

LEMMA SecretTruncate ==
    ASSUME TypeOK, KeysAreMinted, KeysInv, MemoryInv, SecretInv, NEW p \in Procs, Truncate(p)
    PROVE  SecretInv'
<1> SUFFICES ASSUME Alone' PROVE SecretInv'
    BY DEF SecretInv
<1>0. /\ Apart(p)
      /\ \/ at[p] = "save" /\ at'[p] = "fill"
         \/ at[p] = "resave" /\ at'[p] = "refill"
         \/ at[p] = "pin" /\ at'[p] = "pinning"
         \/ at[p] = "keep" /\ at'[p] = "keeping"
      /\ known' = known /\ shutOut' = shutOut /\ keys' = keys
      /\ draft' = draft /\ secret' = secret /\ overtaken' = overtaken
      /\ mishaps \subseteq mishaps' /\ ("torn" \notin mishaps' => NobodyWrites)
      BY TruncateDoes
<1>1. OneStarts /\ StartsKnown /\ SecretsLast /\ shutOut = {} /\ Sound'
      BY <1>0, SecretParts
<1>2. DraftsCover /\ NobodyWrites
      BY <1>0, <1>1, MemoryParts DEF Sound
<1>3. p \in overtaken \/ Covers(draft[p], file)
      BY <1>0, <1>2, OpensAndFills DEF DraftsCover
<1>4. \A q \in Procs : /\ at'[q] \in Starting <=> at[q] \in Starting
                       /\ at'[q] \in Registering <=> at[q] \in Registering
                       /\ at'[q] \in Issuing <=> at[q] \in Issuing
      BY <1>0 DEF Apart, Starting, Registering, Issuing
<1>5. OneStarts' /\ StartsKnown'
      BY <1>0, <1>1, <1>4 DEF OneStarts, StartsKnown, Registering
<1>6. SecretsLast'
      <2> SUFFICES ASSUME NEW k \in known
                   PROVE  \/ \E q \in Procs : at'[q] \in Issuing /\ keys[q] = k
                          \/ \E w \in Procs : at'[w] \in Writing /\ (w \in overtaken \/ draft[w].secret = k)
          BY <1>0 DEF SecretsLast
      <2>1. k # None
            BY DEF KeysAreMinted
      <2>2. CASE \E q \in Procs : at[q] \in Issuing /\ keys[q] = k
            BY <1>4, <2>2
      <2>3. CASE file.secret = k
            BY <1>0, <1>3, <2>1, <2>3 DEF Covers, Writing
      <2>4. ~ \E w \in Procs : at[w] \in Writing
            BY <1>2 DEF NobodyWrites
      <2> QED
          BY <1>1, <2>2, <2>3, <2>4 DEF SecretsLast
<1> QED
    BY <1>0, <1>1, <1>5, <1>6 DEF SecretInv

LEMMA SecretFill ==
    ASSUME TypeOK, KeysInv, MemoryInv, SecretInv, NEW p \in Procs, Fill(p) PROVE SecretInv'
<1> SUFFICES ASSUME Alone' PROVE SecretInv'
    BY DEF SecretInv
<1>0. /\ Apart(p)
      /\ \/ at[p] = "fill" /\ at'[p] \in {"ready", "resave"}
         \/ at[p] = "refill" /\ at'[p] = "ready"
         \/ at[p] = "pinning" /\ at'[p] = "pinned"
         \/ at[p] = "keeping" /\ at'[p] = "serving"
      /\ file = NoConfig => file' = draft[p]
      /\ known' = known /\ shutOut' = shutOut /\ keys' = keys /\ secret' = secret /\ mishaps \subseteq mishaps'
      /\ p \in overtaken => {"first", "stale"} \cap mishaps' # {}
      BY FillDoes
<1>1. OneStarts /\ StartsKnown /\ SecretsLast /\ shutOut = {} /\ Sound'
      BY <1>0, SecretParts
<1>2. OneWriter /\ DraftsAreKept
      BY <1>0, <1>1, MemoryParts
<1>3. at[p] \in Writing /\ at'[p] \notin Writing /\ p \notin overtaken
      BY <1>0, <1>1 DEF Writing, Sound
<1>4. file' = draft[p] /\ NobodyWrites' /\ \A q \in Procs : at[q] \in Writing => q = p
      BY <1>0, <1>2, <1>3 DEF OneWriter, NobodyWrites, Apart
<1>5. \A q \in Procs : /\ at'[q] \in Starting => at[q] \in Starting
                       /\ at'[q] \in Registering => at[q] \in Registering
      BY <1>0 DEF Apart, Starting, Registering
<1>6. OneStarts' /\ StartsKnown'
      BY <1>0, <1>1, <1>5 DEF OneStarts, StartsKnown, Registering
<1>7. SecretsLast'
      <2> SUFFICES ASSUME NEW k \in known
                   PROVE  (\E q \in Procs : at'[q] \in Issuing /\ keys[q] = k) \/ draft[p].secret = k
          BY <1>0, <1>4 DEF SecretsLast
      <2>1. CASE \E q \in Procs : at[q] \in Issuing /\ keys[q] = k
            <3>1. PICK q \in Procs : at[q] \in Issuing /\ keys[q] = k
                  BY <2>1
            <3>2. CASE q = p
                  <4>1. at[p] = "keeping"
                        BY <1>0, <3>1, <3>2 DEF Issuing
                  <4> QED
                      BY <1>2, <3>1, <3>2, <4>1 DEF DraftsAreKept
            <3>3. CASE q # p
                  BY <3>1, <3>3, <1>0 DEF Apart
            <3> QED
                BY <3>2, <3>3
      <2>2. ~NobodyWrites
            BY <1>3 DEF NobodyWrites
      <2>3. CASE \E w \in Procs : at[w] \in Writing /\ (w \in overtaken \/ draft[w].secret = k)
            BY <1>3, <1>4, <2>3
      <2> QED
          BY <1>1, <2>1, <2>2, <2>3 DEF SecretsLast
<1> QED
    BY <1>0, <1>1, <1>6, <1>7 DEF SecretInv

(* The secret that an agent loads is that of its id, if the center knows   *)
(* it: nobody else was starting, so the secret has been written.           *)
LEMMA SecretConstruct ==
    ASSUME TypeOK, SecretInv, NEW p \in Procs, Construct(p) PROVE SecretInv'
<1> SUFFICES ASSUME Alone' PROVE SecretInv'
    BY DEF SecretInv
<1>0. /\ Apart(p) /\ at[p] = "ready" /\ at'[p] = "built"
      /\ file' = file /\ known' = known /\ shutOut' = shutOut /\ keys' = keys
      /\ overtaken' = overtaken /\ secret'[p] = file.secret
      /\ mishaps \subseteq mishaps' /\ ("torn" \notin mishaps' => NobodyWrites)
      /\ "twin" \notin mishaps' => \A q \in Procs \ {p} : at[q] \notin Starting
      BY ConstructDoes
<1>1. SecretsLast /\ shutOut = {}
      BY <1>0, SecretParts
<1>2. NobodyWrites /\ \A q \in Procs : at[q] \notin Starting
      BY <1>0 DEF Alone, Starting
<1>3. \A k \in known : file.secret = k
      BY <1>1, <1>2 DEF SecretsLast, NobodyWrites, Issuing, Starting
<1>4. \A q \in Procs : at'[q] \in Starting => q = p
      BY <1>0, <1>2 DEF Apart
<1>5. OneStarts'
      BY <1>4 DEF OneStarts
<1>6. StartsKnown'
      BY <1>0, <1>3, <1>4 DEF StartsKnown, Starting
<1>7. NobodyWrites'
      BY <1>0, <1>2 DEF NobodyWrites, Apart, Writing
<1>8. SecretsLast'
      BY <1>0, <1>3, <1>7 DEF SecretsLast
<1> QED
    BY <1>0, <1>1, <1>5, <1>6, <1>8 DEF SecretInv

LEMMA SecretRegister ==
    ASSUME TypeOK, SecretInv, NEW p \in Procs, Register(p) PROVE SecretInv'
<1> SUFFICES ASSUME Alone' PROVE SecretInv'
    BY DEF SecretInv
<1>0. /\ Apart(p) /\ at[p] = "pinned" /\ at'[p] \in {"issued", "serving", "done"}
      /\ file' = file /\ overtaken' = overtaken /\ mishaps \subseteq mishaps'
      /\ at'[p] # "done" => keys' = keys /\ draft' = draft /\ secret' = secret
      /\ \/ known' = known /\ at'[p] # "issued"
         \/ /\ known' = known \cup {keys[p]}
            /\ at'[p] = "issued" \/ "orphan" \in mishaps'
      /\ \/ shutOut' = shutOut
         \/ keys[p] \in known /\ secret[p] # keys[p]
      BY RegisterDoes
<1>1. OneStarts /\ StartsKnown /\ SecretsLast /\ shutOut = {}
      BY <1>0, SecretParts
<1>2. shutOut' = {}
      BY <1>0, <1>1 DEF StartsKnown
<1>3. \A q \in Procs : at'[q] \in Starting => q = p
      BY <1>0, <1>1 DEF OneStarts, Apart, Starting
<1>4. OneStarts'
      BY <1>3 DEF OneStarts
<1>5. StartsKnown'
      BY <1>0, <1>3 DEF StartsKnown, Starting
<1>6. NobodyWrites' <=> NobodyWrites
      BY <1>0 DEF NobodyWrites, Apart, Writing
<1>7. known' # known => known' = known \cup {keys[p]} /\ at'[p] = "issued"
      BY <1>0 DEF Alone
<1>8. SecretsLast'
      <2> SUFFICES ASSUME NEW k \in known'
                   PROVE  \/ \E q \in Procs : at'[q] \in Issuing /\ keys'[q] = k
                          \/ NobodyWrites /\ file.secret = k
                          \/ \E w \in Procs : at'[w] \in Writing /\ (w \in overtaken \/ draft'[w].secret = k)
          BY <1>0, <1>6 DEF SecretsLast
      <2>1. CASE k \notin known
            BY <1>0, <1>7, <2>1 DEF Issuing
      <2>2. CASE k \in known
            <3>1. CASE \E q \in Procs : at[q] \in Issuing /\ keys[q] = k
                  BY <1>0, <3>1 DEF Apart, Issuing
            <3>2. CASE \E w \in Procs : at[w] \in Writing /\ (w \in overtaken \/ draft[w].secret = k)
                  BY <1>0, <3>2 DEF Apart, Writing
            <3> QED
                BY <1>1, <2>2, <3>1, <3>2 DEF SecretsLast
      <2> QED
          BY <2>1, <2>2
<1> QED
    BY <1>2, <1>4, <1>5, <1>8 DEF SecretInv

LEMMA SecretNext ==
    ASSUME TypeOK, KeysAreMinted, KeysInv, MemoryInv, SecretInv, NEW p \in Procs,
           \/ Ensure(p) \/ Truncate(p) \/ Fill(p)
           \/ Construct(p) \/ Pin(p) \/ Register(p) \/ Keep(p)
           \/ Elsewhere(p)
    PROVE  SecretInv'
<1> SUFFICES ASSUME Alone' PROVE SecretInv'
    BY DEF SecretInv
<1>1. CASE Ensure(p)
      <2>1. /\ Apart(p) /\ at[p] = "off" /\ at'[p] \in {"save", "resave", "ready"}
            /\ file' = file /\ known' = known /\ shutOut' = shutOut /\ mishaps \subseteq mishaps'
            BY <1>1, EnsureDoes
      <2>2. at[p] \notin Writing \cup Issuing /\ at'[p] \notin Writing \cup Starting
            BY <2>1 DEF Writing, Issuing, Starting
      <2> QED
          BY <2>1, <2>2, SecretAside
<1>2. CASE Pin(p)
      <2>1. /\ Apart(p) /\ at[p] = "built" /\ at'[p] \in {"pin", "pinned"} /\ secret' = secret
            /\ file' = file /\ known' = known /\ shutOut' = shutOut /\ keys' = keys /\ mishaps \subseteq mishaps'
            BY <1>2, PinDoes
      <2>2. /\ at[p] \in Starting \ Writing /\ at'[p] \in Starting \ Writing
            /\ at[p] \notin Issuing /\ at[p] \in Registering
            BY <2>1 DEF Writing, Issuing, Starting, Registering
      <2> QED
          BY <2>1, <2>2, SecretStarts
<1>3. CASE Keep(p)
      <2>1. /\ Apart(p) /\ at[p] = "issued" /\ at'[p] = "keep"
            /\ file' = file /\ known' = known /\ shutOut' = shutOut /\ keys' = keys /\ mishaps \subseteq mishaps'
            BY <1>3, KeepDoes
      <2>2. /\ at[p] \in Starting \ Writing /\ at'[p] \in Starting \ Writing
            /\ at'[p] \in Issuing /\ at'[p] \notin Registering
            BY <2>1 DEF Writing, Issuing, Starting, Registering
      <2> QED
          BY <2>1, <2>2, SecretStarts
<1>4. CASE Elsewhere(p)
      <2>1. at[p] \notin Writing \cup Issuing
            BY <1>4 DEF Elsewhere, Alone
      <2>2. at'[p] \notin Writing \cup Starting
            BY <1>4 DEF Elsewhere, Writing, Starting
      <2> QED
          BY <1>4, <2>1, <2>2, SecretAside DEF Elsewhere
<1> QED
    BY <1>1, <1>2, <1>3, <1>4, SecretTruncate, SecretFill, SecretConstruct, SecretRegister

-----------------------------------------------------------------------------

LEMMA ConfigInit == Init => ConfigInv
<1> SUFFICES ASSUME Init PROVE ConfigInv
    OBVIOUS
<1>1. /\ file = NoConfig /\ shutOut = {} /\ known = {}
      /\ \A p \in Procs : at[p] = "off" /\ keys[p] = None /\ draft[p] = NoConfig
      BY DEF Init
<1>2. KeysAreMinted
      BY <1>1, NothingConfigured, CommandLineAssumption DEF KeysAreMinted, Out
<1>3. KeysInv
      BY <1>1 DEF KeysInv, OneWriter, DraftsHaveKeys, FileHasKeys, WriterHasKeys, MintedFirst,
                  Minted, Settled, Out, Drafting, Writing
<1>4. MemoryInv
      BY <1>1, NothingConfigured, OpensAndFills
         DEF MemoryInv, FileRemembers, DraftsCover, WriterRemembers, DraftsArePinned, DraftsAreKept,
             SecretsMatch, Remembers, Pinned, Secretive, Issuing, Drafting, Writing
<1>5. SecretInv
      BY <1>1 DEF SecretInv, OneStarts, StartsKnown, SecretsLast, Starting
<1> QED
    BY <1>2, <1>3, <1>4, <1>5, TypeInit DEF ConfigInv

LEMMA ConfigNext == ConfigInv /\ [Next]_vars => ConfigInv'
<1> SUFFICES ASSUME ConfigInv, [Next]_vars PROVE ConfigInv'
    OBVIOUS
<1>1. TypeOK /\ KeysAreMinted /\ KeysInv /\ MemoryInv /\ SecretInv
      BY DEF ConfigInv
<1>2. CASE UNCHANGED vars
      <2>1. /\ TypeOK' /\ KeysAreMinted'
            BY <1>1, <1>2 DEF vars, TypeOK, KeysAreMinted
      <2>2. KeysInv'
            BY <1>1, <1>2 DEF vars, KeysInv, OneWriter, DraftsHaveKeys, FileHasKeys, WriterHasKeys,
                             MintedFirst, NobodyWrites, Minted, Settled, Safe
      <2>3. MemoryInv'
            BY <1>1, <1>2 DEF vars, MemoryInv, FileRemembers, DraftsCover, WriterRemembers,
                             DraftsArePinned, DraftsAreKept, SecretsMatch, NobodyWrites, Remembers,
                             Pinned, Secretive, Sound
      <2>4. SecretInv'
            BY <1>1, <1>2 DEF vars, SecretInv, OneStarts, StartsKnown, SecretsLast, NobodyWrites, Alone
      <2> QED
          BY <2>1, <2>2, <2>3, <2>4 DEF ConfigInv
<1>3. CASE Next
      <2>1. TypeOK' /\ kind' = kind
            BY <1>1, <1>3, TypeNext, StepsOfNext
      <2>2. PICK p \in Procs :
                \/ Ensure(p) \/ Truncate(p) \/ Fill(p)
                \/ Construct(p) \/ Pin(p) \/ Register(p) \/ Keep(p)
                \/ Elsewhere(p)
            BY <1>1, <1>3, StepsOfNext, ElsewhereDoes
      <2>3. KeysAreMinted'
            BY <1>1, <2>1, <2>2, MintedNext
      <2>4. KeysInv'
            BY <1>1, <2>2, KeysNext
      <2>5. MemoryInv'
            BY <1>1, <2>1, <2>2, MemoryNext
      <2>6. SecretInv'
            BY <1>1, <2>2, SecretNext
      <2> QED
          BY <2>1, <2>3, <2>4, <2>5, <2>6 DEF ConfigInv
<1> QED
    BY <1>2, <1>3

(* Nobody writes a file that is whole, or that no process has open.        *)
LEMMA WholeIsWritten == OneWriter /\ Whole => NobodyWrites
BY DEF OneWriter, Whole, NobodyWrites

(* A process runs with the keys that are in config.json unless two first   *)
(* starts overlapped, one was cut off while it wrote, or one read while    *)
(* another wrote: for any number of commands, agents and centers.          *)
THEOREM KeysAlwaysAgree == Spec => []KeysAgree
<1>1. ConfigInv => KeysAgree
      <2> SUFFICES ASSUME ConfigInv, Safe, Whole, NEW p \in Procs,
                          at[p] \notin {"off", "save", "fill", "done", "saved"}
                   PROVE  keys[p] = file.keys
          BY DEF KeysAgree, Safe
      <2>1. FileHasKeys /\ NobodyWrites
            BY WholeIsWritten DEF ConfigInv, KeysInv
      <2> QED
          BY <2>1 DEF FileHasKeys, Settled, Minted, Out
<1> QED
    BY <1>1, ConfigInit, ConfigNext, PTL DEF Spec

(* An agent that serves finds its pin and its secret in config.json when   *)
(* it starts again, unless a copy from before them was written or one of   *)
(* the mishaps above happened.                                             *)
THEOREM AgentIsAlwaysRemembered == Spec => []AgentIsRemembered
<1>1. ConfigInv => AgentIsRemembered
      <2> SUFFICES ASSUME ConfigInv, Sound, Whole, NEW p \in Procs, kind[p] = "agent", at[p] = "serving"
                   PROVE  file.pinned /\ (secret[p] # None => file.secret = secret[p])
          BY DEF AgentIsRemembered, Sound
      <2>1. FileRemembers /\ NobodyWrites
            BY WholeIsWritten, SoundIsSafe DEF ConfigInv, KeysInv, MemoryInv
      <2> QED
          BY <2>1 DEF FileRemembers, Remembers, Pinned, Secretive
<1> QED
    BY <1>1, ConfigInit, ConfigNext, PTL DEF Spec

(* The center turns an agent away for good only if a secret was issued and *)
(* never saved, another agent of the machine was starting, or config.json  *)
(* lost it.                                                                *)
THEOREM ShutOutAlwaysHasCause == Spec => []ShutOutHasCause
<1>1. ConfigInv => ShutOutHasCause
      BY DEF ConfigInv, SecretInv, Alone, ShutOutHasCause
<1> QED
    BY <1>1, ConfigInit, ConfigNext, PTL DEF Spec

=============================================================================
