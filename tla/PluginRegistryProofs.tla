------------------------ MODULE PluginRegistryProofs ------------------------
(***************************************************************************)
(* Proofs about PluginRegistry: its types and NeverRepaired for any number *)
(* of actors and plugins; and that it implements InstalledPlugins for a    *)
(* single actor, and for any number of them under a lock the code does not *)
(* have.  The connect flows of AuthFlow keep to the registry's steps, so   *)
(* all of it holds with them; what a connect stores, for any number of     *)
(* them that lose no value of each other.                                  *)
(***************************************************************************)
EXTENDS AuthFlow, TLAPS

Saving == {"remove", "open", "write"}

LEMMA RecordTypes ==
  /\ Missing \in Records
  /\ Nothing \in [Plugins -> Records]
  /\ \A m, x \in BOOLEAN : Installed(m, x) \in Records
  /\ \A r \in Records : r.managed \in BOOLEAN /\ r.activated \in BOOLEAN /\ r.installed \in BOOLEAN
<1>1. Missing \in Records
  BY DEF Records
<1>2. Nothing \in [Plugins -> Records]
  BY <1>1 DEF Nothing
<1>3. ASSUME NEW m \in BOOLEAN, NEW x \in BOOLEAN
      PROVE  Installed(m, x) \in Records
  BY DEF Installed, Records
<1>4. ASSUME NEW r \in Records
      PROVE  r.managed \in BOOLEAN /\ r.activated \in BOOLEAN /\ r.installed \in BOOLEAN
  <2>1. CASE r = Missing
    BY <2>1 DEF Missing
  <2>2. CASE r \in [installed : {TRUE}, managed : BOOLEAN, activated : BOOLEAN]
    BY <2>2
  <2>3. QED
    BY <2>1, <2>2 DEF Records
<1>5. QED
  BY <1>1, <1>2, <1>3, <1>4

LEMMA RevisedType ==
  ASSUME TypeOK, NEW a \in Actors, NEW r \in Records
  PROVE  Revised(a, r) \in Records
<1>1. op[a].kind \in Kinds /\ keep[a] \in BOOLEAN
  BY DEF TypeOK
<1>2. QED
  BY <1>1, RecordTypes DEF Revised, Kinds

LEMMA InitTypes == Init => TypeOK
<1> SUFFICES ASSUME Init PROVE TypeOK
  OBVIOUS
<1>1. saved \in [Plugins -> Records] /\ mem \in [Actors -> [Plugins -> Records]]
  BY RecordTypes DEF Init
<1>2. op \in [Actors -> [kind : Kinds, plugin : Plugins]]
  <2>1. [kind : {"mark"}, plugin : Plugins] \subseteq [kind : Kinds, plugin : Plugins]
    BY DEF Kinds
  <2>2. QED
    BY <2>1 DEF Init
<1>3. QED
  BY <1>1, <1>2 DEF Init, TypeOK

(* What every step of an actor leaves as it was, and the types it keeps.    *)
LEMMA TypeStep ==
  ASSUME TypeOK, [Next]_vars
  PROVE  TypeOK'
<1>1. CASE UNCHANGED vars
  BY <1>1 DEF vars, TypeOK
<1>2. ASSUME NEW a \in Actors, Begin(a) PROVE TypeOK'
  <2>1. PICK k \in Kinds, p \in Plugins : op' = [op EXCEPT ![a] = [kind |-> k, plugin |-> p]]
    BY <1>2 DEF Begin
  <2>2. op' \in [Actors -> [kind : Kinds, plugin : Plugins]]
    BY <2>1 DEF TypeOK
  <2>3. pc' \in [Actors -> {"idle", "flag", "build", "load", "remove", "open", "write"}]
    BY <1>2 DEF Begin, Goto, TypeOK
  <2>4. keep' \in [Actors -> BOOLEAN]
    BY <1>2 DEF Begin, TypeOK
  <2>5. QED
    BY <1>2, <2>2, <2>3, <2>4 DEF Begin, TypeOK
<1>3. ASSUME NEW a \in Actors, ReadFlag(a) PROVE TypeOK'
  <2>1. keep' \in [Actors -> BOOLEAN]
    BY <1>3, RecordTypes DEF ReadFlag, TypeOK
  <2>2. QED
    BY <1>3, <2>1 DEF ReadFlag, Goto, TypeOK
<1>4. ASSUME NEW a \in Actors, Build(a) PROVE TypeOK'
  BY <1>4 DEF Build, Goto, TypeOK
<1>5. ASSUME NEW a \in Actors, Load(a) PROVE TypeOK'
  <2> DEFINE p == op[a].plugin
             rec == Revised(a, saved[p])
  <2>1. p \in Plugins /\ rec \in Records
    BY RevisedType DEF TypeOK
  <2>2. [saved EXCEPT ![p] = rec] \in [Plugins -> Records]
    BY <2>1 DEF TypeOK
  <2>3. mem' \in [Actors -> [Plugins -> Records]]
    BY <1>5, <2>2 DEF Load, TypeOK
  <2>4. pc' \in [Actors -> {"idle", "flag", "build", "load", "remove", "open", "write"}]
    BY <1>5 DEF Load, Goto, TypeOK
  <2>5. QED
    BY <1>5, <2>3, <2>4 DEF Load, TypeOK
<1>6. ASSUME NEW a \in Actors, LoadFails(a) \/ Remove(a) \/ Open(a) PROVE TypeOK'
  BY <1>6 DEF LoadFails, Remove, Open, Goto, TypeOK
<1>7. ASSUME NEW a \in Actors, Write(a) \/ DiskFails(a) \/ Crash(a) PROVE TypeOK'
  <2>1. mem' = [mem EXCEPT ![a] = Nothing] /\ pc' = [pc EXCEPT ![a] = "idle"]
    BY <1>7 DEF Write, DiskFails, Crash, Goto
  <2>2. mem' \in [Actors -> [Plugins -> Records]]
    BY <2>1, RecordTypes DEF TypeOK
  <2>3. pc' \in [Actors -> {"idle", "flag", "build", "load", "remove", "open", "write"}]
    BY <2>1 DEF TypeOK
  <2>4. /\ saved' = mem[a] \/ saved' = saved
        /\ file' \in {file, "whole", "torn"}
        /\ UNCHANGED <<bin, op, keep>>
    BY <1>7 DEF Write, DiskFails, Crash
  <2>5. saved' \in [Plugins -> Records] /\ file' \in {"absent", "whole", "empty", "torn"}
    BY <2>4 DEF TypeOK
  <2>6. QED
    BY <2>2, <2>3, <2>4, <2>5 DEF TypeOK
<1>8. QED
  BY <1>1, <1>2, <1>3, <1>4, <1>5, <1>6, <1>7 DEF Next

(* Every variable keeps its type, whatever the actors do to each other.     *)
THEOREM Typing == Spec => []TypeOK
BY InitTypes, TypeStep, PTL DEF Spec

-----------------------------------------------------------------------------
(* Once nobody is left who read the file before it became unreadable,       *)
(* every step leaves it unreadable: only Load leads to a save, and it       *)
(* fails.                                                                   *)
LEMMA LostStep ==
  ASSUME TypeOK, Lost, [Next]_vars
  PROVE  Lost'
<1>1. CASE UNCHANGED vars
  BY <1>1 DEF vars, Lost, Readable
<1>2. ASSUME NEW a \in Actors,
             Begin(a) \/ ReadFlag(a) \/ Build(a) \/ Load(a) \/ LoadFails(a)
               \/ Remove(a) \/ Open(a) \/ Write(a) \/ DiskFails(a) \/ Crash(a)
      PROVE  Lost'
  <2>1. pc[a] \notin Saving /\ ~Readable
    BY DEF Lost, Saving
  <2>2. CASE Begin(a)
    <3>1. PICK where \in {"build", "flag", "load"} : pc' = [pc EXCEPT ![a] = where]
      BY <2>2 DEF Begin, Goto
    <3>2. QED
      BY <2>2, <3>1 DEF Begin, Lost, Readable, TypeOK
  <2>3. CASE Build(a)
    BY <2>3 DEF Build, Goto, Lost, Readable, TypeOK
  <2>4. CASE LoadFails(a) \/ Crash(a)
    BY <2>4 DEF LoadFails, Crash, Goto, Lost, Readable, TypeOK
  <2>5. CASE ReadFlag(a) \/ Load(a)
    BY <2>1, <2>5 DEF ReadFlag, Load
  <2>6. CASE Remove(a) \/ Open(a) \/ Write(a) \/ DiskFails(a)
    BY <2>1, <2>6 DEF Remove, Open, Write, DiskFails, Saving
  <2>7. QED
    BY <1>2, <2>2, <2>3, <2>4, <2>5, <2>6
<1>3. QED
  BY <1>1, <1>2 DEF Next

(* No operation of any actor repairs a registry that is beyond reading.     *)
THEOREM LostForever == Spec => NeverRepaired
<1>1. TypeOK /\ [Next]_vars => [Lost => Lost']_vars
  BY LostStep
<1>2. QED
  BY <1>1, Typing, PTL DEF Spec, NeverRepaired

-----------------------------------------------------------------------------
(* Between what an actor reads and what it saves nothing locks the file.  An  *)
(* actor has read once it loaded the records it will save, or the activation *)
(* an upgrade will save after its build; it has built once a binary is there *)
(* that it will record.  The violation RegistryRace.cfg finds has two actors *)
(* that have read; with only one at a time, by a lock or because there is no *)
(* other actor, operations are whole, whatever else the others do meanwhile. *)
HasRead(a) == pc[a] \in Saving \/ (op[a].kind = "upgrade" /\ pc[a] \in {"build", "load"})
HasBuilt(a) == pc[a] = "load" /\ op[a].kind = "install"

OneReads == \A a, b \in Actors : HasRead(a) /\ HasRead(b) => a = b
OneReadsOrBuilt ==
  \A a, b \in Actors : (HasRead(a) \/ HasBuilt(a)) /\ (HasRead(b) \/ HasBuilt(b)) => a = b

(* What an actor knows: what it will save is what is in the file, revised;   *)
(* and an upgrade's flag is still the plugin's.                              *)
Knows(a) ==
  /\ pc[a] \in {"build", "load"} \cup Saving =>
       /\ op[a].kind = "install" => keep[a] = TRUE
       /\ op[a].kind = "upgrade" =>
            keep[a] = (saved[op[a].plugin].installed => saved[op[a].plugin].activated)
  /\ pc[a] = "build" => op[a].kind \in {"install", "upgrade"}
  /\ pc[a] = "flag" => op[a].kind = "upgrade"
  /\ pc[a] = "remove" => op[a].kind = "uninstall"
  /\ pc[a] \in Saving =>
       LET old == saved[op[a].plugin] IN
       /\ mem[a] = [saved EXCEPT ![op[a].plugin] = Revised(a, old)]
       /\ op[a].kind = "deactivate" => old.installed
  /\ pc[a] \in {"remove", "open"} => Readable
  /\ pc[a] = "write" => file = "empty"

(* The binary an actor will record is in place. *)
HasBinary(a) ==
  pc[a] \in {"load"} \cup Saving /\ op[a].kind \in {"install", "upgrade"} =>
    op[a].plugin \in bin

(* An actor's own step keeps what it knows.                                  *)
LEMMA OwnStep ==
  ASSUME NEW a \in Actors, TypeOK, Knows(a),
         \/ Begin(a) \/ ReadFlag(a) \/ Build(a) \/ Load(a) \/ LoadFails(a)
         \/ Remove(a) \/ Open(a) \/ Write(a) \/ DiskFails(a) \/ Crash(a)
  PROVE  Knows(a)' /\ (HasBinary(a) => HasBinary(a)')
<1> USE DEF TypeOK
<1>1. CASE Begin(a)
  <2>1. PICK k \in Kinds, p \in Plugins :
          /\ op' = [op EXCEPT ![a] = [kind |-> k, plugin |-> p]]
          /\ pc' = [pc EXCEPT ![a] =
               CASE k = "install" -> "build" [] k = "upgrade" -> "flag" [] OTHER -> "load"]
    BY <1>1 DEF Begin, Goto
  <2>2. op'[a].kind = k /\ op'[a].plugin = p /\ keep'[a] = TRUE
    BY <1>1, <2>1 DEF Begin
  <2>3. pc'[a] = CASE k = "install" -> "build" [] k = "upgrade" -> "flag" [] OTHER -> "load"
    BY <2>1
  <2>4. QED
    BY <2>2, <2>3 DEF Knows, HasBinary, Saving
<1>2. CASE ReadFlag(a)
  BY <1>2 DEF ReadFlag, Goto, Knows, HasBinary, Saving
<1>3. CASE Build(a)
  BY <1>3 DEF Build, Goto, Knows, HasBinary, Saving
<1>4. CASE Load(a)
  <2>1. /\ pc[a] = "load" /\ Readable /\ UNCHANGED <<file, saved, bin, op, keep>>
    BY <1>4 DEF Load
  <2>2. CASE pc'[a] = "idle"
    BY <2>2 DEF Knows, HasBinary, Saving
  <2>3. CASE pc'[a] # "idle"
    <3>1. /\ op[a].kind = "deactivate" => saved[op[a].plugin].installed
          /\ pc'[a] = IF op[a].kind = "uninstall" /\ saved[op[a].plugin].managed
                      THEN "remove" ELSE "open"
          /\ mem'[a] = [saved EXCEPT ![op[a].plugin] = Revised(a, saved[op[a].plugin])]
      BY <1>4, <2>3 DEF Load, Goto
    <3>2. Readable'
      BY <2>1 DEF Readable
    <3>3. pc'[a] \in {"remove", "open"} /\ (pc'[a] = "remove" => op'[a].kind = "uninstall")
      BY <2>1, <3>1
    <3>4. mem'[a] = [saved' EXCEPT ![op'[a].plugin] = Revised(a, saved[op[a].plugin])']
      BY <2>1, <3>1 DEF Revised
    <3>5. HasBinary(a) => HasBinary(a)'
      BY <2>1, <3>3 DEF HasBinary, Saving
    <3>6. QED
      BY <2>1, <3>1, <3>2, <3>3, <3>4, <3>5 DEF Knows, Saving
  <2>4. QED
    BY <2>2, <2>3
<1>5. CASE LoadFails(a) \/ Crash(a) \/ Write(a) \/ DiskFails(a)
  <2>1. pc'[a] = "idle"
    BY <1>5 DEF LoadFails, Crash, Write, DiskFails, Goto
  <2>2. QED
    BY <2>1 DEF Knows, HasBinary, Saving
<1>6. CASE Remove(a)
  BY <1>6 DEF Remove, Goto, Knows, HasBinary, Saving, Revised, Readable
<1>7. CASE Open(a)
  BY <1>7 DEF Open, Goto, Knows, HasBinary, Saving, Revised
<1>8. QED
  BY <1>1, <1>2, <1>3, <1>4, <1>5, <1>6, <1>7

(* Another actor's step does, too, if only one of them has read: it neither  *)
(* saves nor opens the file while this one's knowledge is of the file; and   *)
(* it removes no binary this one will record, if only one has read or built. *)
LEMMA OthersStep ==
  ASSUME NEW a \in Actors, NEW b \in Actors, a # b, TypeOK, Knows(a), Knows(b), OneReads,
         \/ Begin(b) \/ ReadFlag(b) \/ Build(b) \/ Load(b) \/ LoadFails(b)
         \/ Remove(b) \/ Open(b) \/ Write(b) \/ DiskFails(b) \/ Crash(b)
  PROVE  Knows(a)' /\ (HasBinary(a) /\ OneReadsOrBuilt => HasBinary(a)')
<1> USE DEF TypeOK
<1>1. /\ pc'[a] = pc[a] /\ op'[a] = op[a] /\ keep'[a] = keep[a] /\ mem'[a] = mem[a]
  BY DEF Begin, ReadFlag, Build, Load, LoadFails, Remove, Open, Write, DiskFails, Crash, Goto
<1>2. Revised(a, saved[op[a].plugin])' = Revised(a, saved'[op[a].plugin])
  BY <1>1 DEF Revised
<1>3. UNCHANGED <<saved, file>> \/ (HasRead(b) /\ ~HasRead(a))
  BY DEF Begin, ReadFlag, Build, Load, LoadFails, Remove, Open, Write, DiskFails, Crash,
         HasRead, Saving, OneReads
<1>4. Knows(a)'
  <2>1. CASE UNCHANGED <<saved, file>>
    BY <1>1, <1>2, <2>1 DEF Knows, Readable, Saving
  <2>2. CASE ~HasRead(a)
    BY <1>1, <2>2 DEF Knows, HasRead, Saving
  <2> QED
    BY <1>3, <2>1, <2>2
<1>5. ASSUME HasBinary(a), OneReadsOrBuilt PROVE HasBinary(a)'
  <2>1. CASE Remove(b)
    <3>1. HasRead(b)
      BY <2>1 DEF Remove, HasRead, Saving
    <3>2. ~HasRead(a) /\ ~HasBuilt(a)
      BY <1>5, <3>1 DEF OneReadsOrBuilt
    <3> QED
      BY <1>1, <3>2 DEF HasBinary, HasRead, HasBuilt, Saving
  <2>2. CASE ~Remove(b)
    <3>1. bin \subseteq bin'
      BY <2>2 DEF Begin, ReadFlag, Build, Load, LoadFails, Open, Write, DiskFails, Crash
    <3> QED
      BY <1>1, <1>5, <3>1 DEF HasBinary
  <2> QED
    BY <2>1, <2>2
<1> QED
  BY <1>4, <1>5

(* All actors together.                                                      *)
AllKnow == \A a \in Actors : Knows(a)
AllBinaries == \A a \in Actors : HasBinary(a)

LEMMA KnowStep ==
  ASSUME TypeOK, AllKnow, OneReads, [Next]_vars
  PROVE  AllKnow' /\ (AllBinaries /\ OneReadsOrBuilt => AllBinaries')
<1>1. CASE UNCHANGED vars
  BY <1>1 DEF vars, AllKnow, AllBinaries, Knows, HasBinary, Revised, Readable
<1>2. ASSUME NEW b \in Actors,
             \/ Begin(b) \/ ReadFlag(b) \/ Build(b) \/ Load(b) \/ LoadFails(b)
             \/ Remove(b) \/ Open(b) \/ Write(b) \/ DiskFails(b) \/ Crash(b)
      PROVE  AllKnow' /\ (AllBinaries /\ OneReadsOrBuilt => AllBinaries')
  <2>1. ASSUME NEW a \in Actors
        PROVE  Knows(a)' /\ (HasBinary(a) /\ OneReadsOrBuilt => HasBinary(a)')
    BY <1>2, OwnStep, OthersStep DEF AllKnow
  <2>2. QED
    BY <2>1 DEF AllKnow, AllBinaries
<1>3. QED
  BY <1>1, <1>2 DEF Next

(* Only an install or an upgrade records a plugin as managed, and the binary *)
(* is the one it has built.                                                  *)
LEMMA RecordsBuilt ==
  ASSUME TypeOK, AllKnow, AllBinaries, [Next]_vars,
         NEW p \in Plugins, saved'[p].managed, ~saved[p].managed
  PROVE  p \in bin'
<1> USE DEF TypeOK
<1>1. saved' # saved
  OBVIOUS
<1>2. PICK a \in Actors : Write(a)
  BY <1>1 DEF Next, vars, Begin, ReadFlag, Build, Load, LoadFails, Remove, Open, DiskFails, Crash
<1>3. /\ saved' = [saved EXCEPT ![op[a].plugin] = Revised(a, saved[op[a].plugin])]
      /\ bin' = bin
      /\ op[a].kind \in {"install", "upgrade"} => op[a].plugin \in bin
  BY <1>1, <1>2 DEF Write, AllKnow, AllBinaries, Knows, HasBinary, Saving
<1>4. p = op[a].plugin /\ Revised(a, saved[p]).managed
  BY <1>3
<1>5. op[a].kind \in {"install", "upgrade"}
  BY <1>4 DEF Revised, Kinds, Installed, Missing
<1>6. QED
  BY <1>3, <1>4, <1>5

(* A save is the operation it ends, a death or a failure of the disk         *)
(* half-way through a save loses the registry, and every other step is       *)
(* invisible.                                                                *)
LEMMA StepImplements ==
  ASSUME NEW a \in Actors, TypeOK, Knows(a), OneReads,
         \/ Begin(a) \/ ReadFlag(a) \/ Build(a) \/ Load(a) \/ LoadFails(a)
         \/ Remove(a) \/ Open(a) \/ Write(a) \/ DiskFails(a) \/ Crash(a)
  PROVE  IP!Next \/ UNCHANGED <<Doing, saved, Lost>>
<1> USE DEF TypeOK
<1>0. \A b \in Actors : b # a => pc'[b] = pc[b]
  BY DEF Begin, ReadFlag, Build, Load, LoadFails, Remove, Open, Write, DiskFails, Crash, Goto
<1>1. pc[a] \in Saving => ~Lost
  BY DEF Lost, Saving
<1>2. CASE Begin(a)
  <2>1. pc[a] \notin Saving /\ pc'[a] \notin Saving /\ pc[a] = "idle" /\ pc'[a] # "idle"
    BY <1>2 DEF Begin, Goto, Saving
  <2>2. UNCHANGED <<saved, Lost>>
    BY <1>0, <1>2, <2>1 DEF Begin, Lost, Readable, Saving
  <2>3. PICK k \in Kinds, p \in Plugins : op' = [op EXCEPT ![a] = [kind |-> k, plugin |-> p]]
    BY <1>2 DEF Begin
  <2>4. Doing' = [Doing EXCEPT ![a] = [kind |-> k, plugin |-> p]]
    BY <1>0, <2>1, <2>3 DEF Doing
  <2>5. Doing[a] = IP!Resting
    BY <2>1 DEF Doing, IP!Resting
  <2>6. IP!Request(a)
    BY <2>2, <2>4, <2>5 DEF IP!Request, Kinds
  <2>7. QED
    BY <2>6 DEF IP!Next
<1>3. ASSUME pc[a] # "idle", pc'[a] # "idle", UNCHANGED <<op, saved, Lost>>,
             pc' = [pc EXCEPT ![a] = pc'[a]]
      PROVE  UNCHANGED <<Doing, saved, Lost>>
  BY <1>3 DEF Doing
<1>4. ASSUME pc[a] # "idle", pc' = [pc EXCEPT ![a] = "idle"], op' = op
      PROVE  /\ Doing[a] = op[a] /\ Doing[a] # IP!Resting
             /\ Doing' = [Doing EXCEPT ![a] = IP!Resting]
  <2>1. Doing[a] = op[a]
    BY <1>4 DEF Doing
  <2>2. op[a].kind \in Kinds
    OBVIOUS
  <2>3. op[a] # IP!Resting
    BY <2>2 DEF IP!Resting, Kinds
  <2>4. Doing' = [Doing EXCEPT ![a] = IP!Resting]
    BY <1>4 DEF Doing, IP!Resting
  <2>5. QED
    BY <2>1, <2>3, <2>4
<1>5. ASSUME pc[a] # "idle", pc' = [pc EXCEPT ![a] = "idle"], UNCHANGED <<op, saved>>,
             UNCHANGED Lost \/ Lost'
      PROVE  IP!Next
  <2>1. IP!GiveUp(a)
    BY <1>4, <1>5 DEF IP!GiveUp
  <2>2. QED
    BY <2>1 DEF IP!Next
<1>6. CASE ReadFlag(a)
  BY <1>3, <1>6 DEF ReadFlag, Goto, Lost, Readable
<1>7. CASE Build(a)
  <2>1. UNCHANGED <<op, saved, Lost>> /\ pc[a] # "idle"
    BY <1>7 DEF Build, Goto, Lost, Readable
  <2>2. CASE pc' = [pc EXCEPT ![a] = "load"]
    BY <1>3, <2>1, <2>2
  <2>3. CASE pc' = [pc EXCEPT ![a] = "idle"]
    BY <1>5, <2>1, <2>3
  <2>4. QED
    BY <1>7, <2>2, <2>3 DEF Build, Goto
<1>8. CASE LoadFails(a)
  <2>1. UNCHANGED <<op, saved, Lost>> /\ pc[a] # "idle"
    BY <1>8 DEF LoadFails, Goto, Lost, Readable
  <2>2. QED
    BY <1>5, <1>8, <2>1 DEF LoadFails, Goto
<1>9. CASE Load(a)
  <2>1. UNCHANGED <<op, saved, Lost>> /\ pc[a] # "idle"
    BY <1>9 DEF Load, Goto, Lost, Readable
  <2>2. CASE pc' = [pc EXCEPT ![a] = "idle"]
    BY <1>5, <2>1, <2>2
  <2>3. CASE pc' # [pc EXCEPT ![a] = "idle"]
    <3>1. pc' = [pc EXCEPT ![a] = pc'[a]] /\ pc'[a] # "idle"
      BY <1>9, <2>3 DEF Load, Goto
    <3>2. QED
      BY <1>3, <2>1, <3>1
  <2>4. QED
    BY <2>2, <2>3
<1>10. CASE Remove(a) \/ Open(a)
  <2>1. UNCHANGED <<op, saved, Lost>> /\ pc[a] # "idle" /\ pc'[a] # "idle"
    BY <1>10 DEF Remove, Open, Goto, Lost, Readable, Knows
  <2>2. pc' = [pc EXCEPT ![a] = pc'[a]]
    BY <1>10 DEF Remove, Open, Goto
  <2>3. QED
    BY <1>3, <2>1, <2>2
<1>11. CASE DiskFails(a) \/ Crash(a)
  <2>1. UNCHANGED <<op, saved>> /\ pc[a] # "idle" /\ pc' = [pc EXCEPT ![a] = "idle"]
    BY <1>11 DEF DiskFails, Crash, Goto
  <2>2. CASE pc[a] = "write"
    <3>1. ~Lost
      BY <2>2 DEF Lost
    <3>2. Lost' \/ UNCHANGED Lost
      BY <3>1 DEF Lost
    <3>3. QED
      BY <1>5, <2>1, <3>2
  <2>3. CASE pc[a] # "write"
    <3>1. UNCHANGED Lost
      BY <1>11, <2>1, <2>3 DEF DiskFails, Crash, Lost, Readable, Knows
    <3>2. QED
      BY <1>5, <2>1, <3>1
  <2>4. QED
    BY <2>2, <2>3
<1>12. CASE Write(a)
  <2> DEFINE p == op[a].plugin
             old == saved[p]
  <2>1. /\ p \in Plugins /\ op[a].kind \in Kinds /\ pc[a] = "write"
        /\ op' = op /\ pc' = [pc EXCEPT ![a] = "idle"]
    BY <1>12 DEF Write, Goto
  <2>2. saved' = [saved EXCEPT ![p] = Revised(a, old)] /\ file' = "whole"
    BY <1>12 DEF Write, Knows, Saving
  <2>3. ~Lost /\ UNCHANGED Lost
    BY <2>1, <2>2 DEF Lost, Readable
  <2>4. op[a].kind = "deactivate" => old.installed
    BY <2>1 DEF Knows, Saving
  <2>5. op[a].kind = "install" => keep[a] = TRUE
    BY <2>1 DEF Knows, Saving
  <2>6. op[a].kind = "upgrade" => keep[a] = (old.installed => old.activated)
    BY <2>1 DEF Knows, Saving
  <2>7. Revised(a, old) = IP!After(op[a].kind, old)
    <3> USE <2>1 DEF Revised, Installed, Missing, IP!Installed, IP!Missing, IP!After, Kinds
    <3>1. CASE op[a].kind = "install"
      BY <3>1, <2>5
    <3>2. CASE op[a].kind = "upgrade"
      BY <3>2, <2>6
    <3>3. CASE op[a].kind \in {"mark", "activate", "deactivate", "uninstall"}
      BY <3>3
    <3>4. QED
      BY <3>1, <3>2, <3>3
  <2>8. /\ Doing[a] = op[a] /\ Doing[a] # IP!Resting
        /\ Doing' = [Doing EXCEPT ![a] = IP!Resting]
    BY <1>4, <2>1
  <2>9. IP!Perform(a)
    BY <2>2, <2>3, <2>4, <2>7, <2>8 DEF IP!Perform
  <2>10. QED
    BY <2>9 DEF IP!Next
<1>13. QED
  BY <1>2, <1>6, <1>7, <1>8, <1>9, <1>10, <1>11, <1>12

LEMMA InitImplements == Init => IP!Init
<1>1. Init => ~Lost
  BY DEF Init, Lost, Readable
<1>2. QED
  BY <1>1 DEF Init, IP!Init, Nothing, Missing, IP!Missing, Doing, IP!Resting

LEMMA InitKnow == Init => AllKnow /\ AllBinaries
  BY DEF Init, AllKnow, AllBinaries, Knows, HasBinary, Saving

(* Operations of any number of actors are whole as long as no two of them    *)
(* have read what they will save from: a lock held from an operation's first *)
(* read of the file to its save is all InstalledPlugins needs, crashes and   *)
(* disk failures included.                                                   *)
THEOREM LockedImplements == Spec /\ []OneReads => ImplementsInstalledPlugins
<1>1. TypeOK /\ AllKnow /\ OneReads /\ [Next]_vars => AllKnow'
  BY KnowStep
<1>2. TypeOK /\ AllKnow /\ OneReads /\ [Next]_vars => [IP!Next]_<<Doing, saved, Lost>>
  <2>1. UNCHANGED vars => UNCHANGED <<Doing, saved, Lost>>
    BY DEF vars, Doing, Lost, Readable
  <2>2. QED
    BY <2>1, StepImplements DEF Next, AllKnow
<1>3. QED
  BY <1>1, <1>2, InitKnow, InitImplements, Typing, PTL
     DEF Spec, ImplementsInstalledPlugins, IP!Spec, IP!ivars

(* ... and a plugin is recorded as managed only with its binary in place, if *)
(* the lock is taken before the binary is: with one that starts at the load  *)
(* an uninstall can come between an install's build and its load, and        *)
(* removes the binary the install then records.                              *)
THEOREM LockedRecordsBuilt == Spec /\ []OneReadsOrBuilt => RecordedWhenBuilt
<1>1. OneReadsOrBuilt => OneReads
  BY DEF OneReadsOrBuilt, OneReads
<1>2. TypeOK /\ AllKnow /\ AllBinaries /\ OneReadsOrBuilt /\ [Next]_vars => AllKnow' /\ AllBinaries'
  BY <1>1, KnowStep
<1>3. TypeOK /\ AllKnow /\ AllBinaries /\ [Next]_vars =>
        [\A p \in Plugins : saved'[p].managed /\ ~saved[p].managed => p \in bin']_vars
  BY RecordsBuilt
<1>4. QED
  BY <1>2, <1>3, InitKnow, Typing, PTL DEF Spec, RecordedWhenBuilt

(* One actor needs no lock: it records a plugin as managed only with its     *)
(* binary in place, whatever crashed before.                                 *)
THEOREM OneActorRecordsBuilt ==
  ASSUME NEW a, Actors = {a}
  PROVE  Spec => RecordedWhenBuilt
<1>1. OneReadsOrBuilt
  BY DEF OneReadsOrBuilt
<1>2. QED
  BY <1>1, LockedRecordsBuilt, PTL

(* One actor's operations on the registry are whole: it implements           *)
(* InstalledPlugins, crashes and disk failures included.                     *)
THEOREM OneActorImplements ==
  ASSUME NEW a, Actors = {a}
  PROVE  Spec => ImplementsInstalledPlugins
<1>1. OneReads
  BY DEF OneReads
<1>2. QED
  BY <1>1, LockedImplements, PTL

-----------------------------------------------------------------------------
(* Connecting takes no step on the registry that PluginRegistry does not    *)
(* have: what is proved of its operations holds under the connect flows.    *)
LEMMA ConnectKeepsToTheRegistry == AuthSpec => Spec
<1>1. AuthInit => Init
  BY DEF AuthInit
<1>2. [AuthNext]_authVars => [Next]_vars
  BY DEF AuthNext, authVars, vars, Next, BeginConnect, SaveValue, SaveFails, NotEnough,
         MarkInstalled, BeginOther, Proceed, CrashSaving
<1>3. QED
  BY <1>1, <1>2, PTL DEF AuthSpec, Spec

Flows ==
  [at : {"none"}]
    \cup [at : {"saving"}, plugin : Plugins, given : SUBSET Fields, todo : SUBSET Fields]
    \cup [at : {"marking"}, given : SUBSET Fields, partial : BOOLEAN]

(* What a connecting actor has in the store: what it was given and has no   *)
(* longer to save.                                                          *)
Connecting(a) ==
  /\ flow[a].at = "saving" =>
       pc[a] = "idle" /\ flow[a].given \ flow[a].todo \subseteq stored[flow[a].plugin]
  /\ pc[a] # "idle" /\ op[a].kind = "mark" => flow[a].at = "marking"
  /\ flow[a].at = "marking" =>
       /\ pc[a] # "idle"
       /\ flow[a].given # {} /\ flow[a].given \subseteq stored[op[a].plugin]
       /\ Required \subseteq flow[a].given \/ flow[a].partial

AllConnecting ==
  /\ stored \in [Plugins -> SUBSET Fields]
  /\ flow \in [Actors -> Flows]
  /\ \A a \in Actors : Connecting(a)

(* A failing save may leave a field without the value it had.  That is      *)
(* nobody else's loss unless another actor connects the same plugin.        *)
Connects(a, p) ==
  \/ flow[a].at = "saving" /\ flow[a].plugin = p
  \/ flow[a].at = "marking" /\ op[a].plugin = p

NobodyElsesLoss ==
  \A a, b \in Actors, p \in Plugins :
    a # b /\ Connects(a, p) /\ Connects(b, p) => stored[p] \subseteq stored'[p]

AuthStep(a) ==
  \/ BeginConnect(a) \/ SaveValue(a) \/ SaveFails(a) \/ NotEnough(a)
  \/ MarkInstalled(a) \/ BeginOther(a) \/ Proceed(a) \/ CrashSaving(a)

(* An actor's own step, and the types of every step.                        *)
LEMMA OwnConnecting ==
  ASSUME NEW a \in Actors, TypeOK, AllConnecting, AuthStep(a)
  PROVE  /\ Connecting(a)'
         /\ stored' \in [Plugins -> SUBSET Fields] /\ flow' \in [Actors -> Flows]
<1> USE DEF TypeOK, AllConnecting
<1>0. flow[a] \in Flows /\ Connecting(a)
  OBVIOUS
<1>2. CASE BeginConnect(a)
  BY <1>0, <1>2 DEF BeginConnect, Connecting, Flows, vars
<1>3. CASE SaveValue(a)
  <2>1. PICK f \in flow[a].todo :
          /\ stored' = [stored EXCEPT ![flow[a].plugin] = @ \cup {f}]
          /\ flow' = [flow EXCEPT ![a].todo = @ \ {f}]
    BY <1>3 DEF SaveValue
  <2>2. /\ flow[a].at = "saving" /\ flow[a].plugin \in Plugins
        /\ flow[a].given \in SUBSET Fields /\ flow[a].todo \in SUBSET Fields
        /\ flow[a] \in [at : {"saving"}, plugin : Plugins, given : SUBSET Fields, todo : SUBSET Fields]
    BY <1>0, <1>3 DEF SaveValue, Flows
  <2>3. flow'[a] = [flow[a] EXCEPT !.todo = @ \ {f}] /\ flow' \in [Actors -> Flows]
    BY <1>0, <2>1, <2>2 DEF Flows
  <2>4. stored' \in [Plugins -> SUBSET Fields]
    BY <2>1, <2>2
  <2>5. flow'[a].given \ flow'[a].todo \subseteq stored'[flow'[a].plugin]
    BY <1>0, <2>1, <2>2, <2>3 DEF Connecting
  <2>6. QED
    BY <1>0, <1>3, <2>2, <2>3, <2>4, <2>5 DEF SaveValue, vars, Connecting
<1>4. CASE SaveFails(a)
  <2>1. /\ flow' = [flow EXCEPT ![a] = NoFlow] /\ UNCHANGED vars /\ flow[a].at = "saving"
        /\ \E f \in flow[a].todo : \/ UNCHANGED stored
                                  \/ stored' = [stored EXCEPT ![flow[a].plugin] = @ \ {f}]
    BY <1>4 DEF SaveFails
  <2>2. stored' \in [Plugins -> SUBSET Fields]
    BY <2>1
  <2>3. flow' \in [Actors -> Flows] /\ flow'[a].at = "none"
    BY <2>1 DEF NoFlow, Flows
  <2>4. QED
    BY <1>0, <2>1, <2>2, <2>3 DEF Connecting, vars
<1>5. CASE NotEnough(a)
  BY <1>0, <1>5 DEF NotEnough, Saved, NoFlow, Connecting, Flows, vars
<1>6. CASE MarkInstalled(a)
  <2>1. PICK partial \in BOOLEAN :
          /\ Enough(a, partial)
          /\ flow' = [flow EXCEPT ![a] = [at |-> "marking", given |-> flow[a].given, partial |-> partial]]
    BY <1>6 DEF MarkInstalled
  <2>2. /\ flow[a].at = "saving" /\ flow[a].todo = {}
        /\ flow[a].given \in SUBSET Fields /\ flow[a].given \subseteq stored[flow[a].plugin]
    BY <1>0, <1>6 DEF MarkInstalled, Saved, Flows, Connecting
  <2>3. op'[a].plugin = flow[a].plugin /\ stored' = stored /\ pc'[a] # "idle"
    BY <1>6 DEF MarkInstalled, Begin, Goto
  <2>4. flow' \in [Actors -> Flows]
    BY <2>1, <2>2 DEF Flows
  <2>5. QED
    BY <2>1, <2>2, <2>3, <2>4 DEF Connecting, Enough
<1>7. CASE BeginOther(a)
  <2>1. /\ op'[a].kind # "mark" /\ stored' = stored /\ flow' = flow /\ flow[a].at = "none"
    BY <1>7 DEF BeginOther
  <2>2. QED
    BY <2>1 DEF Connecting
<1>8. CASE Proceed(a)
  <2>1. UNCHANGED <<op, stored>> /\ pc[a] # "idle"
    BY <1>8 DEF Proceed, ReadFlag, Build, Load, LoadFails, Remove, Open, Write, DiskFails, Crash
  <2>2. flow[a].at # "saving"
    BY <1>0, <2>1 DEF Connecting
  <2>3. CASE pc'[a] = "idle"
    BY <1>0, <1>8, <2>1, <2>3 DEF Proceed, Connecting, NoFlow, Flows
  <2>4. CASE pc'[a] # "idle"
    BY <1>0, <1>8, <2>1, <2>2, <2>4 DEF Proceed, Connecting
  <2>5. QED
    BY <2>3, <2>4
<1>9. CASE CrashSaving(a)
  BY <1>0, <1>9 DEF CrashSaving, NoFlow, Connecting, Flows, vars
<1>10. QED
  BY <1>2, <1>3, <1>4, <1>5, <1>6, <1>7, <1>8, <1>9 DEF AuthStep

(* Another actor's step adds values, or loses one of a plugin this actor    *)
(* does not connect.                                                        *)
LEMMA OthersConnecting ==
  ASSUME NEW a \in Actors, NEW b \in Actors, a # b, TypeOK, AllConnecting, AuthStep(b),
         NobodyElsesLoss
  PROVE  Connecting(a)'
<1> USE DEF TypeOK, AllConnecting
<1>0. flow[a] \in Flows /\ flow[b] \in Flows /\ Connecting(a)
  OBVIOUS
<1>1. flow'[a] = flow[a]
  BY <1>0 DEF AuthStep, BeginConnect, SaveValue, SaveFails, NotEnough, MarkInstalled, BeginOther,
              Proceed, CrashSaving
<1>2. pc'[a] = pc[a] /\ op'[a] = op[a]
  BY DEF AuthStep, BeginConnect, SaveValue, SaveFails, NotEnough, MarkInstalled, BeginOther,
         Proceed, CrashSaving, vars, Begin, ReadFlag, Build, Load, LoadFails, Remove, Open, Write,
         DiskFails, Crash, Goto
<1>3. \A p \in Plugins : Connects(a, p) => stored[p] \subseteq stored'[p]
  <2>1. CASE SaveFails(b)
    <3> SUFFICES ASSUME NEW p \in Plugins, Connects(a, p), ~(stored[p] \subseteq stored'[p])
                 PROVE  FALSE
      OBVIOUS
    <3>1. flow[b].plugin = p /\ flow[b].at = "saving"
      BY <2>1 DEF SaveFails
    <3> QED
      BY <3>1 DEF NobodyElsesLoss, Connects
  <2>2. CASE SaveValue(b)
    BY <2>2 DEF SaveValue
  <2>3. CASE ~SaveFails(b) /\ ~SaveValue(b)
    BY <2>3 DEF AuthStep, BeginConnect, NotEnough, MarkInstalled, BeginOther, Proceed, CrashSaving
  <2> QED
    BY <2>1, <2>2, <2>3
<1>4. CASE flow[a].at = "saving"
  <2>1. flow[a].plugin \in Plugins
    BY <1>0, <1>4 DEF Flows
  <2> QED
    BY <1>0, <1>1, <1>2, <1>3, <1>4, <2>1 DEF Connecting, Connects
<1>5. CASE flow[a].at # "saving"
  BY <1>0, <1>1, <1>2, <1>3, <1>5 DEF Connecting, Connects
<1> QED
  BY <1>4, <1>5

(* However many actors connect, a plugin is marked installed only with all  *)
(* it was given in the store, and all that is required unless a part was    *)
(* allowed: unless a failing save of one of two that connect the same       *)
(* plugin leaves a field without the value the other has saved.             *)
THEOREM ConnectsStored ==
  AuthSpec /\ [][NobodyElsesLoss]_authVars => []ConnectedIsStored
<1>1. AuthInit => AllConnecting
  BY DEF AuthInit, Init, NoFlow, AllConnecting, Connecting, Flows
<1>2. TypeOK /\ AllConnecting /\ [AuthNext /\ NobodyElsesLoss]_authVars => AllConnecting'
  <2>1. CASE UNCHANGED authVars
    BY <2>1 DEF authVars, vars, AllConnecting, Connecting
  <2>2. ASSUME TypeOK, AllConnecting, NobodyElsesLoss, NEW b \in Actors, AuthStep(b)
        PROVE  AllConnecting'
    BY <2>2, OwnConnecting, OthersConnecting DEF AllConnecting
  <2>3. QED
    BY <2>1, <2>2 DEF AuthNext, AuthStep
<1>3. AllConnecting => ConnectedIsStored
  <2>1. ASSUME NEW a \in Actors, Connecting(a), pc[a] # "idle", op[a].kind = "mark"
        PROVE  /\ flow[a].given # {} /\ flow[a].given \subseteq stored[op[a].plugin]
               /\ Required \subseteq stored[op[a].plugin] \/ flow[a].partial
    BY <2>1 DEF Connecting
  <2>2. QED
    BY <2>1 DEF AllConnecting, ConnectedIsStored
<1>4. QED
  BY <1>1, <1>2, <1>3, ConnectKeepsToTheRegistry, Typing, PTL DEF AuthSpec

(* One connecting actor needs no such care.                                 *)
THEOREM OneActorConnects ==
  ASSUME NEW a, Actors = {a}
  PROVE  AuthSpec => []ConnectedIsStored
<1>1. [AuthNext]_authVars => [NobodyElsesLoss]_authVars
  BY DEF NobodyElsesLoss
<1>2. QED
  BY <1>1, ConnectsStored, PTL DEF AuthSpec

=============================================================================
