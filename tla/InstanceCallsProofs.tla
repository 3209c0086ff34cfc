-------------------------- MODULE InstanceCallsProofs --------------------------
(***************************************************************************)
(* Proofs about InstanceCalls, for any indexes and builds, any manifests,  *)
(* and any timeout shorter than the life of a grant.                       *)
(***************************************************************************)
EXTENDS InstanceCalls, TLAPS

(* Once opened, a file is never absent again. *)
Opened == \A b \in Builds : build[b].at = "writing" =>
  build[b].now \in build[b].todo /\ files[build[b].now] \in Seq(Builds)

(* A build that has been alone from its start is still the only one running, *)
(* its next file is empty, and those before are whole.                      *)
AloneStores ==
  \A b \in Builds : build[b].alone /\ build[b].at \in {"saving", "writing", "stored"} =>
    /\ \A d \in Builds : d # b => ~Running(d)
    /\ build[b].at = "writing" => files[build[b].now] = <<>>
    /\ build[b].at = "stored" => build[b].todo = {}
    /\ \A i \in build[b].indexes \ build[b].todo : files[i] = Snapshot(b)

StoreInv == StoreTypeOK /\ Opened /\ AloneStores

(* The index answers when it has records, and the index that is named, or a  *)
(* record of the entity.                                                     *)
IndexAnswers ==
  /\ HasRecords
  /\ wanted \in Index => files[wanted] # Absent
  /\ wanted = "entity" => HasIndexedEntity

(* Where a call stands says what it would find if it looked again. *)
LookedRight ==
  /\ look # "ended" => answer = "none"
  /\ steady =>
       /\ look = "handle" => Loadable /\ HasRecords /\ wanted # "any"
       /\ look = "index" => Loadable /\ IndexAnswers
       /\ look \in {"plugin", "enrich"} => Loadable /\ ~IndexAnswers

SearchInv == SearchTypeOK /\ LookedRight /\ AnsweredFromIndex

(* A grant is what some version installed during the call declares, or       *)
(* nothing; and it lasts longer than the call.                              *)
GrantKnown ==
  /\ {installed, running} \subseteq versions
  /\ at \in {"scope", "start"} => served = {} /\ refused = {}
  /\ grant.made => grant.expires >= TTL
  /\ ~grant.made => grant.scope = {}
  /\ at \in {"start", "framed", "alone"} =>
       IF unread THEN grant.scope = {} ELSE \E v \in versions : grant.scope = Scope(v)

CallInv == CallTypeOK /\ GrantKnown /\ ServedAsDeclared /\ DeclaredIsServed

IInv == part \in {"index", "grant"} /\ StoreInv /\ SearchInv /\ CallInv

-----------------------------------------------------------------------------
LEMMA SnapshotType ==
  ASSUME StoreTypeOK, NEW b \in Builds
  PROVE  Snapshot(b) \in Seq(Builds) /\ Len(Snapshot(b)) = build[b].size
<1>1. build[b].size \in 1 .. 2
  BY DEF StoreTypeOK
<1> QED
  BY <1>1 DEF Snapshot

LEMMA OverwriteEmpty ==
  ASSUME NEW s \in Seq(Builds)
  PROVE  Overwrite(<<>>, s) = s
<1>1. SubSeq(<<>>, Len(s) + 1, Len(<<>>)) = <<>>
  OBVIOUS
<1>2. s \o <<>> = s
  OBVIOUS
<1> QED
  BY <1>1, <1>2 DEF Overwrite

LEMMA OverwriteType ==
  ASSUME NEW s \in Seq(Builds), NEW old \in Seq(Builds)
  PROVE  Overwrite(old, s) \in Seq(Builds)
<1>1. SubSeq(old, Len(s) + 1, Len(old)) \in Seq(Builds)
  OBVIOUS
<1> QED
  BY <1>1 DEF Overwrite

(* Every step of a build keeps the types, and what is open. *)
LEMMA StoreTypeStep ==
  ASSUME StoreTypeOK, Opened, NEW b \in Builds, BuildStep(b)
  PROVE  StoreTypeOK' /\ Opened'
<1> USE DEF StoreTypeOK, Opened
<1>0. build[b] \in [at : {"idle", "saving", "writing", "stored", "failed"}, indexes : SUBSET Index,
        todo : SUBSET Index, now : Index \cup {NoIndex}, size : 1 .. 2, named : BOOLEAN,
        alone : BOOLEAN]
  OBVIOUS
<1>1. CASE BeginBuild(b)
  <2>1. PICK indexes \in SUBSET Index \ {{}}, n \in 1 .. 2, named \in BOOLEAN :
          /\ named => n = 2
          /\ build' = [c \in Builds |->
            IF c = b THEN [at |-> "saving", indexes |-> indexes, todo |-> indexes, now |-> NoIndex,
                           size |-> n, named |-> named, alone |-> \A d \in Builds : ~Running(d)]
                     ELSE [build[c] EXCEPT !.alone = FALSE]]
    BY <1>1 DEF BeginBuild
  <2>2. (\A d \in Builds : ~Running(d)) \in BOOLEAN
    OBVIOUS
  <2>3. files' = files
    BY <1>1 DEF BeginBuild
  <2>4. \A c \in Builds : c # b => build'[c].at = build[c].at /\ build'[c].now = build[c].now
                                    /\ build'[c].todo = build[c].todo
    BY <2>1
  <2>5. build'[b].at = "saving"
    BY <2>1
  <2>6. StoreTypeOK'
    <3> DEFINE Standing ==
          [at : {"idle", "saving", "writing", "stored", "failed"}, indexes : SUBSET Index,
           todo : SUBSET Index, now : Index \cup {NoIndex}, size : 1 .. 2, named : BOOLEAN,
           alone : BOOLEAN]
    <3> DEFINE begun ==
          [at |-> "saving", indexes |-> indexes, todo |-> indexes, now |-> NoIndex,
           size |-> n, named |-> named, alone |-> \A d \in Builds : ~Running(d)]
    <3>1. begun \in Standing
      BY <2>2
    <3>2. \A c \in Builds : [build[c] EXCEPT !.alone = FALSE] \in Standing
      OBVIOUS
    <3>3. build' = [c \in Builds |-> IF c = b THEN begun ELSE [build[c] EXCEPT !.alone = FALSE]]
      BY <2>1
    <3> HIDE DEF begun, Standing
    <3>4. build' \in [Builds -> Standing]
      BY <3>1, <3>2, <3>3
    <3> QED
      BY <2>3, <3>4 DEF Standing
  <2>7. Opened'
    BY <2>3, <2>4, <2>5
  <2> QED
    BY <2>6, <2>7
<1>2. ASSUME NEW i \in Index, OpenSnapshot(b, i) PROVE StoreTypeOK' /\ Opened'
  <2>1. files' = [files EXCEPT ![i] = <<>>] /\ i \in build[b].todo
    BY <1>2 DEF OpenSnapshot
  <2>2. build' = [build EXCEPT ![b] = [@ EXCEPT !.at = "writing", !.now = i]]
    BY <1>2 DEF OpenSnapshot
  <2>3. <<>> \in Seq(Builds)
    OBVIOUS
  <2> QED
    BY <1>0, <2>1, <2>2, <2>3
<1>3. CASE WriteSnapshot(b)
  <2> DEFINE i == build[b].now
  <2>1. i \in Index /\ files[i] \in Seq(Builds) /\ Overwrite(files[i], Snapshot(b)) \in Seq(Builds)
    BY <1>0, <1>3, SnapshotType, OverwriteType DEF WriteSnapshot
  <2>2. files' = [files EXCEPT ![i] = Overwrite(files[i], Snapshot(b))]
    BY <1>3 DEF WriteSnapshot
  <2>3. \A c \in Builds : c # b => build'[c] = build[c]
    BY <1>3 DEF WriteSnapshot
  <2>4. build'[b] = [build[b] EXCEPT !.at = "saving", !.todo = build[b].todo \ {i}]
    BY <1>0, <1>3 DEF WriteSnapshot
  <2>5. DOMAIN build' = Builds /\ build' = [c \in Builds |-> build'[c]]
    BY <1>3 DEF WriteSnapshot
  <2> HIDE DEF i
  <2>6. build'[b] \in [at : {"idle", "saving", "writing", "stored", "failed"}, indexes : SUBSET Index,
          todo : SUBSET Index, now : Index \cup {NoIndex}, size : 1 .. 2, named : BOOLEAN,
        alone : BOOLEAN]
    BY <1>0, <2>4
  <2>7. build'[b].at = "saving"
    BY <1>0, <2>4
  <2>8. StoreTypeOK'
    BY <2>1, <2>2, <2>3, <2>5, <2>6
  <2>9. Opened'
    BY <2>1, <2>2, <2>3, <2>7
  <2> QED
    BY <2>8, <2>9
<1>4. CASE FinishBuild(b) \/ BuildStops(b)
  <2>1. PICK how \in {"stored", "failed"} : build' = [build EXCEPT ![b].at = how]
    BY <1>4 DEF FinishBuild, BuildStops
  <2>2. files' = files
    BY <1>4 DEF FinishBuild, BuildStops
  <2> QED
    BY <1>0, <2>1, <2>2
<1> QED
  BY <1>1, <1>2, <1>3, <1>4 DEF BuildStep

(* Every step of a build keeps what a lone build stored. *)
LEMMA AloneStoresStep ==
  ASSUME StoreInv, NEW b \in Builds, BuildStep(b)
  PROVE  AloneStores'
<1> USE DEF StoreInv, StoreTypeOK
<1>0. build[b] \in [at : {"idle", "saving", "writing", "stored", "failed"}, indexes : SUBSET Index,
        todo : SUBSET Index, now : Index \cup {NoIndex}, size : 1 .. 2, named : BOOLEAN,
        alone : BOOLEAN]
  OBVIOUS
<1>1. CASE BeginBuild(b)
  <2>1. PICK indexes \in SUBSET Index \ {{}}, n \in 1 .. 2, named \in BOOLEAN :
          /\ named => n = 2
          /\ build' = [c \in Builds |->
            IF c = b THEN [at |-> "saving", indexes |-> indexes, todo |-> indexes, now |-> NoIndex,
                           size |-> n, named |-> named, alone |-> \A d \in Builds : ~Running(d)]
                     ELSE [build[c] EXCEPT !.alone = FALSE]]
    BY <1>1 DEF BeginBuild
  <2>2. \A c \in Builds : c # b => build'[c].at = build[c].at /\ ~build'[c].alone
    BY <2>1
  <2>3. /\ build'[b].at = "saving" /\ build'[b].indexes = indexes /\ build'[b].todo = indexes
        /\ build'[b].alone = (\A d \in Builds : ~Running(d))
    BY <2>1
  <2> QED
    BY <2>2, <2>3 DEF AloneStores, Running
<1>2. ASSUME Running(b), NEW c \in Builds, c # b
      PROVE  ~(build[c].alone /\ build[c].at \in {"saving", "writing", "stored"})
  BY <1>2 DEF AloneStores
<1>3. ASSUME NEW i \in Index, OpenSnapshot(b, i) PROVE AloneStores'
  <2>1. /\ files' = [files EXCEPT ![i] = <<>>] /\ i \in build[b].todo /\ build[b].at = "saving"
        /\ build' = [build EXCEPT ![b] = [@ EXCEPT !.at = "writing", !.now = i]]
    BY <1>3 DEF OpenSnapshot
  <2>2. \A c \in Builds : c # b => build'[c] = build[c]
    BY <2>1
  <2>3. /\ build'[b].at = "writing" /\ build'[b].now = i /\ build'[b].alone = build[b].alone
        /\ build'[b].indexes = build[b].indexes /\ build'[b].todo = build[b].todo
        /\ build'[b].size = build[b].size
    BY <1>0, <2>1
  <2>4. files'[i] = <<>> /\ \A k \in Index : k # i => files'[k] = files[k]
    BY <2>1
  <2>5. Snapshot(b)' = Snapshot(b)
    BY <2>3 DEF Snapshot
  <2>6. Running(b)
    BY <2>1 DEF Running
  <2>7. ASSUME build'[b].alone
        PROVE  /\ \A d \in Builds : d # b => ~Running(d)'
               /\ \A k \in build[b].indexes \ build[b].todo : files'[k] = Snapshot(b)
    BY <1>0, <2>1, <2>2, <2>3, <2>4, <2>7 DEF AloneStores, Running
  <2>8. ASSUME NEW c \in Builds, c # b PROVE ~(build'[c].alone /\ build'[c].at \in {"saving", "writing", "stored"})
    BY <1>2, <2>2, <2>6, <2>8
  <2> QED
    BY <2>3, <2>4, <2>5, <2>7, <2>8 DEF AloneStores
<1>4. CASE WriteSnapshot(b)
  <2> DEFINE i == build[b].now
  <2>1. i \in Index /\ i \in build[b].todo /\ build[b].at = "writing"
    BY <1>0, <1>4 DEF WriteSnapshot, Opened
  <2>2. files' = [files EXCEPT ![i] = Overwrite(files[i], Snapshot(b))]
    BY <1>4 DEF WriteSnapshot
  <2>3. ASSUME build[b].alone PROVE files'[i] = Snapshot(b)
    BY <2>1, <2>2, <2>3, SnapshotType, OverwriteEmpty DEF AloneStores
  <2>4. \A c \in Builds : c # b => build'[c] = build[c]
    BY <1>4 DEF WriteSnapshot
  <2>5. /\ build'[b].at = "saving" /\ build'[b].alone = build[b].alone
        /\ build'[b].indexes = build[b].indexes /\ build'[b].todo = build[b].todo \ {i}
        /\ build'[b].size = build[b].size
    BY <1>0, <1>4 DEF WriteSnapshot
  <2> HIDE DEF i
  <2>6. \A k \in Index : k # i => files'[k] = files[k]
    BY <2>1, <2>2
  <2>7. Snapshot(b)' = Snapshot(b)
    BY <2>5 DEF Snapshot
  <2>8. Running(b)
    BY <2>1 DEF Running
  <2>9. ASSUME build'[b].alone
        PROVE  /\ \A d \in Builds : d # b => ~Running(d)'
               /\ \A k \in build[b].indexes \ (build[b].todo \ {i}) : files'[k] = Snapshot(b)
    <3>1. \A d \in Builds : d # b => ~Running(d)'
      BY <1>0, <2>1, <2>4, <2>5, <2>9 DEF AloneStores, Running
    <3>2. \A k \in build[b].indexes \ (build[b].todo \ {i}) : files'[k] = Snapshot(b)
      BY <1>0, <2>1, <2>3, <2>5, <2>6, <2>9 DEF AloneStores
    <3> QED
      BY <3>1, <3>2
  <2>10. ASSUME NEW c \in Builds, c # b PROVE ~(build'[c].alone /\ build'[c].at \in {"saving", "writing", "stored"})
    BY <1>2, <2>4, <2>8, <2>10
  <2> QED
    BY <2>5, <2>7, <2>9, <2>10 DEF AloneStores
<1>5. CASE FinishBuild(b) \/ BuildStops(b)
  <2>1. PICK how \in {"stored", "failed"} :
          build' = [build EXCEPT ![b].at = how] /\ (how = "stored" => build[b].todo = {})
    BY <1>5 DEF FinishBuild, BuildStops
  <2>2. files' = files /\ Running(b)
    BY <1>5 DEF FinishBuild, BuildStops, Running
  <2>3. \A c \in Builds : c # b => build'[c] = build[c]
    BY <2>1
  <2>4. /\ build'[b].at = how /\ build'[b].alone = build[b].alone
        /\ build'[b].indexes = build[b].indexes /\ build'[b].todo = build[b].todo
        /\ build'[b].size = build[b].size
    BY <1>0, <2>1
  <2>5. Snapshot(b)' = Snapshot(b)
    BY <2>4 DEF Snapshot
  <2>6. ASSUME build'[b].alone
        PROVE  /\ \A d \in Builds : d # b => ~Running(d)'
               /\ \A k \in build[b].indexes \ build[b].todo : files'[k] = Snapshot(b)
    BY <1>0, <2>2, <2>3, <2>4, <2>6 DEF AloneStores, Running
  <2>7. ASSUME NEW c \in Builds, c # b PROVE ~(build'[c].alone /\ build'[c].at \in {"saving", "writing", "stored"})
    BY <1>2, <2>2, <2>3, <2>7
  <2> QED
    BY <2>1, <2>4, <2>5, <2>6, <2>7 DEF AloneStores
<1> QED
  BY <1>1, <1>3, <1>4, <1>5 DEF BuildStep

(* In an index that loads, a record belongs to the build that wrote it. *)
LEMMA EntityFound ==
  ASSUME StoreTypeOK, Loadable
  PROVE  HasIndexedEntity
           <=> \E i \in Index, b \in Builds : files[i] = <<b, b>> /\ build[b].named
<1>1. ASSUME NEW i \in Index, Len(files[i]) = 2
      PROVE  \E b \in Builds : files[i] = <<b, b>>
  <2>1. files[i] # Absent
    BY <1>1 DEF Absent
  <2>2. PICK b \in Builds : files[i] = Snapshot(b)
    BY <2>1 DEF Loadable, Whole
  <2>3. build[b].size = 2
    BY <1>1, <2>2, SnapshotType
  <2> QED
    BY <2>2, <2>3 DEF Snapshot
<1>2. ASSUME NEW i \in Index, NEW b \in Builds, files[i] = <<b, b>>
      PROVE  Len(files[i]) = 2 /\ build[files[i][2]] = build[b]
  BY <1>2
<1>3. ASSUME HasIndexedEntity
      PROVE  \E i \in Index, b \in Builds : files[i] = <<b, b>> /\ build[b].named
  <2>1. PICK i \in Index : Len(files[i]) = 2 /\ build[files[i][2]].named
    BY <1>3, Zenon DEF HasIndexedEntity
  <2>2. PICK b \in Builds : files[i] = <<b, b>>
    BY <1>1, <2>1, Zenon
  <2> QED
    BY <1>2, <2>1, <2>2, Zenon
<1>4. ASSUME NEW i \in Index, NEW b \in Builds, files[i] = <<b, b>>, build[b].named
      PROVE  HasIndexedEntity
  BY <1>2, <1>4, Zenon DEF HasIndexedEntity
<1> QED
  BY <1>3, <1>4, Zenon

(* A search keeps what it knows of the index, and a build costs it all.      *)
LEMMA SearchStep ==
  ASSUME SearchInv, StoreInv, [SearchNext]_<<searchVars, storeVars>>
  PROVE  StoreInv' /\ SearchInv'
<1>1. CASE UNCHANGED <<searchVars, storeVars>>
  BY <1>1 DEF searchVars, storeVars, SearchInv, StoreInv, SearchTypeOK, StoreTypeOK, Opened,
     AloneStores, Running, Snapshot, LookedRight, Loadable, Whole, HasRecords, IndexAnswers,
     HasIndexedEntity, AnsweredFromIndex
<1>2. CASE OtherBuilds
  <2>1. PICK b \in Builds : BuildStep(b)
    BY <1>2 DEF OtherBuilds
  <2>2. StoreTypeOK' /\ Opened' /\ AloneStores'
    BY <2>1, StoreTypeStep, AloneStoresStep DEF StoreInv
  <2>3. SearchInv'
    BY <1>2, <2>2 DEF OtherBuilds, SearchInv, SearchTypeOK, LookedRight, AnsweredFromIndex
  <2> QED
    BY <2>2, <2>3 DEF StoreInv
<1>3. CASE Search
  <2>1. UNCHANGED storeVars /\ wanted' = wanted
    BY <1>3 DEF Search, BeginSearch, LoadFails, LookForRecords, LookForIndex, LookForEntity, SearchIndex,
       AskPlugin, Enrich
  <2>2. StoreInv'
    BY <2>1 DEF storeVars, StoreInv, StoreTypeOK, Opened, AloneStores, Running, Snapshot
  <2>3. /\ Loadable' = Loadable /\ HasRecords' = HasRecords /\ IndexAnswers' = IndexAnswers
    BY <2>1 DEF storeVars, Loadable, Whole, Snapshot, HasRecords, HasIndexedEntity, IndexAnswers
  <2>4. SearchTypeOK'
    BY <1>3, <2>2 DEF StoreInv, SearchInv, SearchTypeOK, Search, BeginSearch, LoadFails,
       LookForRecords, LookForIndex, LookForEntity, SearchIndex, AskPlugin, Enrich, Answers
  <2>5. LookedRight' /\ (steady' /\ look' = "ended" =>
          /\ answer' = "unreadable" <=> ~Loadable
          /\ answer' = "index" <=> Loadable /\ IndexAnswers
          /\ answer' # "lost")
    <3>1. CASE BeginSearch
      BY <2>3, <3>1 DEF BeginSearch, SearchInv, LookedRight
    <3>2. CASE LoadFails
      BY <2>3, <3>2 DEF LoadFails, Answers, SearchInv, LookedRight
    <3>3. CASE LookForRecords
      BY <2>3, <3>3, IndexedSearchAssumption DEF LookForRecords, SearchInv, LookedRight, IndexAnswers
    <3>4. CASE LookForIndex
      BY <2>3, <3>4, IndexedSearchAssumption DEF LookForIndex, SearchInv, LookedRight, IndexAnswers
    <3>5. CASE SearchIndex
      BY <2>3, <3>5 DEF SearchIndex, Answers, SearchInv, LookedRight
    <3>6. CASE AskPlugin
      BY <2>3, <3>6 DEF AskPlugin, Answers, SearchInv, LookedRight
    <3>7. CASE Enrich
      BY <2>3, <3>7 DEF Enrich, Answers, SearchInv, LookedRight
    <3>8. CASE LookForEntity
      BY <2>3, <3>8, IndexedSearchAssumption DEF LookForEntity, SearchInv, LookedRight, IndexAnswers
    <3> QED
      BY <1>3, <3>1, <3>2, <3>3, <3>4, <3>5, <3>6, <3>7, <3>8 DEF Search
  <2>6. AnsweredFromIndex'
    BY <2>1, <2>2, <2>3, <2>5, EntityFound
    DEF AnsweredFromIndex, IndexAnswers, HasRecords, storeVars, StoreInv, SearchInv
  <2> QED
    BY <2>2, <2>4, <2>5, <2>6 DEF SearchInv
<1> QED
  BY <1>1, <1>2, <1>3 DEF SearchNext

-----------------------------------------------------------------------------
(* A grant covers only what the host can be asked for. *)
LEMMA ScopeType ==
  ASSUME NEW version \in Manifests, called \in SUBSET Ops
  PROVE  Scope(version) \in SUBSET Requests
<1>1. \A o \in called : version[o] \in SUBSET Needs
  BY HostCallsAssumption
<1>2. \A needs \in SUBSET Needs : ScopeOf(needs) \in SUBSET Requests
  BY DEF Needs, Requests, ScopeOf, OperationScope, DatasourceScope
<1> QED
  BY <1>1, <1>2 DEF Scope

(* Every step of a call keeps what is known of its grant. *)
LEMMA CallStep ==
  ASSUME CallInv, [CallNext]_callVars
  PROVE  CallInv'
<1> USE HostCallsAssumption
<1>1. CASE UNCHANGED callVars
  BY <1>1 DEF callVars, CallInv, CallTypeOK, GrantKnown, ServedAsDeclared, DeclaredIsServed,
     Scope, ScopeOf
<1>2. CASE MakeGrant
  <2>1. PICK readable \in IF kind = "discovery" THEN {TRUE} ELSE BOOLEAN :
          LET scope == IF readable THEN Scope(installed) ELSE {} IN
          /\ unread' = ~readable
          /\ grant' = IF kind = "datasources" /\ scope = {} THEN NoGrant
                      ELSE [made |-> TRUE, scope |-> scope, expires |-> clock + TTL]
    BY <1>2 DEF MakeGrant
  <2>2. /\ at = "scope" /\ at' = "start"
        /\ UNCHANGED <<kind, called, installed, running, clock, served, refused, versions>>
    BY <1>2 DEF MakeGrant, requestVars
  <2>3. /\ clock \in Nat /\ called \in SUBSET Ops /\ installed \in Manifests
        /\ served = {} /\ refused = {} /\ installed \in versions
    BY <2>2 DEF CallInv, CallTypeOK, GrantKnown
  <2>4. Scope(installed) \in SUBSET Requests /\ Scope(installed)' = Scope(installed)
    BY <2>2, <2>3, ScopeType DEF Scope, ScopeOf
  <2>5. /\ grant' \in [made : BOOLEAN, scope : SUBSET Requests, expires : Nat]
        /\ grant'.made => grant'.expires >= TTL
        /\ ~grant'.made => grant'.scope = {}
        /\ IF unread' THEN grant'.scope = {} ELSE grant'.scope = Scope(installed)
    <3> DEFINE scope == IF readable THEN Scope(installed) ELSE {}
    <3>1. /\ scope \in SUBSET Requests /\ clock + TTL \in Nat /\ clock + TTL >= TTL
      BY <2>3, <2>4
    <3>2. \/ grant' = NoGrant /\ scope = {}
          \/ grant' = [made |-> TRUE, scope |-> scope, expires |-> clock + TTL]
      BY <2>1
    <3>3. (unread' => scope = {}) /\ (~unread' => scope = Scope(installed))
      BY <2>1
    <3> HIDE DEF scope
    <3>4. NoGrant \in [made : BOOLEAN, scope : SUBSET Requests, expires : Nat]
      BY DEF NoGrant
    <3>5. CASE grant' = NoGrant /\ scope = {}
      BY <3>3, <3>4, <3>5 DEF NoGrant
    <3>6. CASE grant' = [made |-> TRUE, scope |-> scope, expires |-> clock + TTL]
      BY <3>1, <3>3, <3>6
    <3> QED
      BY <3>2, <3>5, <3>6
  <2>6. CallTypeOK'
    BY <2>1, <2>2, <2>5 DEF CallInv, CallTypeOK
  <2>7. GrantKnown'
    BY <2>2, <2>3, <2>4, <2>5 DEF CallInv, GrantKnown
  <2> QED
    BY <2>2, <2>3, <2>6, <2>7 DEF CallInv, ServedAsDeclared, DeclaredIsServed
<1>3. CASE StartPlugin
  <2>1. /\ at = "start" /\ at' \in {"framed", "alone"} /\ running' = installed
        /\ UNCHANGED <<kind, called, installed, grant, clock, served, refused, versions, unread>>
    BY <1>3 DEF StartPlugin, requestVars, historyVars
  <2>2. served = {} /\ refused = {}
    BY <2>1 DEF CallInv, GrantKnown
  <2>3. \A v : Scope(v)' = Scope(v)
    BY <2>1 DEF Scope, ScopeOf
  <2> QED
    BY <2>1, <2>2, <2>3 DEF CallInv, CallTypeOK, GrantKnown, ServedAsDeclared, DeclaredIsServed
<1>4. ASSUME NEW request \in Requests, HostCall(request) PROVE CallInv'
  <2>1. /\ at = "framed"
        /\ UNCHANGED <<kind, called, at, installed, running, grant, clock, versions, unread>>
    BY <1>4 DEF HostCall, requestVars
  <2>2. \/ Valid /\ request \in grant.scope /\ served' = served \cup {request} /\ refused' = refused
        \/ ~(Valid /\ request \in grant.scope) /\ refused' = refused \cup {request} /\ served' = served
    BY <1>4 DEF HostCall
  <2>3. grant.made => Valid
    <3>1. clock <= Timeout + 1 /\ grant.expires \in Nat /\ (grant.made => grant.expires >= TTL)
          /\ clock \in Nat
      BY DEF CallInv, CallTypeOK, GrantKnown
    <3> QED
      BY <3>1 DEF Valid
  <2>4. /\ \A v : Scope(v)' = Scope(v)
        /\ \A needs : ScopeOf(needs)' = ScopeOf(needs)
    BY <2>1 DEF Scope, ScopeOf
  <2>5. CallTypeOK' /\ GrantKnown'
    BY <2>1, <2>2, <2>4 DEF CallInv, CallTypeOK, GrantKnown
  <2>6. ServedAsDeclared'
    <3>1. ASSUME request \in grant.scope
          PROVE  \E version \in versions, o \in called : request \in ScopeOf(version[o])
      BY <2>1, <3>1 DEF CallInv, GrantKnown, Scope
    <3> QED
      BY <2>1, <2>2, <2>4, <3>1 DEF CallInv, ServedAsDeclared
  <2>7. DeclaredIsServed'
    <3>1. ASSUME versions = {running}, ~unread, request \notin grant.scope, NEW o \in called
          PROVE  request \notin ScopeOf(running[o])
      BY <2>1, <3>1 DEF CallInv, GrantKnown, Scope
    <3>2. ~(Valid /\ request \in grant.scope) => request \notin grant.scope
      BY <2>3 DEF CallInv, GrantKnown
    <3> QED
      BY <2>1, <2>2, <2>4, <3>1, <3>2 DEF CallInv, DeclaredIsServed
  <2> QED
    BY <2>5, <2>6, <2>7 DEF CallInv
<1>5. CASE CallEnds
  <2>1. /\ at' = "ended"
        /\ UNCHANGED <<kind, called, installed, running, grant, clock, served, refused, versions, unread>>
    BY <1>5 DEF CallEnds, requestVars, historyVars
  <2> QED
    BY <2>1 DEF CallInv, CallTypeOK, GrantKnown, ServedAsDeclared, DeclaredIsServed, Scope, ScopeOf
<1>6. CASE Tick
  <2>1. /\ clock <= Timeout /\ clock' = clock + 1
        /\ UNCHANGED <<kind, called, at, installed, running, grant, served, refused, versions, unread>>
    BY <1>6 DEF Tick, requestVars, historyVars
  <2>2. CallTypeOK'
    BY <2>1 DEF CallInv, CallTypeOK
  <2>3. /\ \A v : Scope(v)' = Scope(v)
        /\ \A needs : ScopeOf(needs)' = ScopeOf(needs)
    BY <2>1 DEF Scope, ScopeOf
  <2>4. GrantKnown'
    BY <2>1, <2>3 DEF CallInv, GrantKnown
  <2> QED
    BY <2>1, <2>2, <2>3, <2>4 DEF CallInv, ServedAsDeclared, DeclaredIsServed
<1>7. CASE Upgrade
  <2>1. PICK version \in Manifests : installed' = version /\ versions' = versions \cup {version}
    BY <1>7 DEF Upgrade
  <2>2. UNCHANGED <<kind, called, at, running, grant, clock, served, refused, unread>>
    BY <1>7 DEF Upgrade, requestVars
  <2>3. /\ \A v : Scope(v)' = Scope(v)
        /\ \A needs : ScopeOf(needs)' = ScopeOf(needs)
    BY <2>2 DEF Scope, ScopeOf
  <2>4. CallTypeOK' /\ GrantKnown'
    BY <2>1, <2>2, <2>3 DEF CallInv, CallTypeOK, GrantKnown
  <2>5. versions' = {running'} => versions = {running}
    BY <2>1, <2>2 DEF CallInv, GrantKnown
  <2> QED
    BY <2>1, <2>2, <2>3, <2>4, <2>5 DEF CallInv, ServedAsDeclared, DeclaredIsServed
<1> QED
  BY <1>1, <1>2, <1>3, <1>4, <1>5, <1>6, <1>7 DEF CallNext

-----------------------------------------------------------------------------
LEMMA InitIInv == Init => IInv
<1> SUFFICES ASSUME Init PROVE IInv
  OBVIOUS
<1>1. StoreInv
  <2>1. Idle \in [at : {"idle", "saving", "writing", "stored", "failed"}, indexes : SUBSET Index,
          todo : SUBSET Index, now : Index \cup {NoIndex}, size : 1 .. 2, named : BOOLEAN,
        alone : BOOLEAN]
    BY DEF Idle
  <2>2. StoreTypeOK
    BY <2>1 DEF Init, SearchInit, StoreInit, StoreTypeOK
  <2> QED
    BY <2>2 DEF Init, SearchInit, StoreInit, StoreInv, Opened, AloneStores, Idle
<1>2. SearchInv
  BY <1>1 DEF Init, SearchInit, StoreInv, SearchInv, SearchTypeOK, LookedRight, AnsweredFromIndex
<1>3. CallInv
  <2>1. NoGrant \in [made : BOOLEAN, scope : SUBSET Requests, expires : Nat]
    BY DEF NoGrant
  <2>2. /\ at = "scope" /\ kind \in {"operations", "datasources", "discovery"} /\ called \in SUBSET Ops
        /\ installed \in Manifests /\ running = installed /\ versions = {installed}
        /\ served = {} /\ refused = {} /\ unread = FALSE /\ grant = NoGrant /\ clock = 0
    BY DEF Init, CallInit
  <2>3. 0 \in 0 .. Timeout + 1
    BY HostCallsAssumption
  <2>4. CallTypeOK
    BY <2>1, <2>2, <2>3 DEF CallTypeOK
  <2>5. GrantKnown
    BY DEF Init, CallInit, NoGrant, GrantKnown
  <2> QED
    BY <2>4, <2>5 DEF Init, CallInit, CallInv, ServedAsDeclared, DeclaredIsServed
<1> QED
  BY <1>1, <1>2, <1>3 DEF Init, IInv

LEMMA Invariance == Spec => []IInv
<1>1. ASSUME IInv, [Next]_vars PROVE IInv'
  <2>1. part' \in {"index", "grant"}
    BY <1>1 DEF IInv, Next, vars
  <2>2. [SearchNext]_<<searchVars, storeVars>> /\ [CallNext]_callVars
    BY <1>1 DEF Next, vars
  <2> QED
    BY <1>1, <2>1, <2>2, SearchStep, CallStep DEF IInv
<1>2. QED
  BY <1>1, InitIInv, PTL DEF Spec

(* Types, for any indexes, builds and manifests. *)
THEOREM Typing == Spec => []TypeOK
<1>1. IInv => TypeOK
  BY DEF IInv, SearchInv, CallInv, TypeOK
<1>2. QED
  BY <1>1, Invariance, PTL

(* What a build stored is there whole unless another one came near it, for  *)
(* any number of builds, whatever they left behind.                         *)
THEOREM LoneBuildsStored == Spec => []LoneBuildStored
<1>1. IInv => LoneBuildStored
  BY DEF IInv, StoreInv, AloneStores, LoneBuildStored, Loadable, Whole
<1>2. QED
  BY <1>1, Invariance, PTL

(* With no build near, the host answers from its index exactly when it has   *)
(* what is asked for.                                                        *)
THEOREM IndexAnswersRight == Spec => []AnsweredFromIndex
<1>1. IInv => AnsweredFromIndex
  BY DEF IInv, SearchInv
<1>2. QED
  BY <1>1, Invariance, PTL

(* The host does nothing that a version installed during the call does not   *)
(* declare for it, however often the plugin is upgraded.                     *)
THEOREM OnlyDeclared == Spec => []ServedAsDeclared
<1>1. IInv => ServedAsDeclared
  BY DEF IInv, CallInv
<1>2. QED
  BY <1>1, Invariance, PTL

(* Nothing declared is refused up to the deadline, for any timeout that is   *)
(* shorter than the life of a grant.                                         *)
THEOREM AllDeclared == Spec => []DeclaredIsServed
<1>1. IInv => DeclaredIsServed
  BY DEF IInv, CallInv
<1>2. QED
  BY <1>1, Invariance, PTL

=============================================================================
