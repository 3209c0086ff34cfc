------------------------- MODULE AdapterCacheProofs -------------------------
(***************************************************************************)
(* Proofs about AdapterCache, for any callers, plugins and versions.       *)
(***************************************************************************)
EXTENDS AdapterCache, TLAPS

(* Versions only grow: nobody knows of one newer than what is installed. *)
Known ==
  /\ \A p \in Plugins : cached[p] <= installed[p]
  /\ \A c \in Callers, p \in Plugins : seen[c][p] <= installed[p]

(* What a hook for a plugin knows on its way to the answer. *)
Knows(c) ==
  /\ pc[c] \in {"fetch", "store", "answered"} =>
       want[c] \in Plugins /\ got[c] <= installed[want[c]]
  /\ pc[c] = "fetch" => got[c] = 0
  /\ pc[c] = "store" => got[c] # 0
  /\ pc[c] = "answered" /\ got[c] = 0 /\ ~cut[c] => seen[c][want[c]] = 0

(* Who builds the index, while it is being built. *)
Builder ==
  /\ \A c \in Callers : pc[c] = "index" => once = "running"
  /\ \A c, d \in Callers : pc[c] = "index" /\ pc[d] = "index" => c = d
  /\ \A c \in Callers : pc[c] = "derived" => once = "done"

IInv == TypeOK /\ Known /\ (\A c \in Callers : Knows(c)) /\ Builder

-----------------------------------------------------------------------------
LEMMA InitIInv == Init => IInv
<1> SUFFICES ASSUME Init PROVE IInv
  OBVIOUS
<1> USE AdapterCacheAssumption DEF Init
<1>1. installed \in [Plugins -> Versions]
  OBVIOUS
<1>2. 0 \in Versions /\ \A v \in Versions : 0 <= v /\ v <= v
  BY DEF Versions
<1>3. TypeOK
  BY <1>1, <1>2 DEF TypeOK
<1>4. Known
  BY <1>1, <1>2 DEF Known
<1>5. (\A c \in Callers : Knows(c)) /\ Builder
  BY DEF Knows, Builder
<1> QED
  BY <1>3, <1>4, <1>5 DEF IInv

Places == {"idle", "fetch", "store", "answered", "index", "wait", "derived"}

(* An install keeps what everybody knows true. *)
LEMMA InstallStep ==
  ASSUME IInv, NEW p \in Plugins, InstallNewer(p)
  PROVE  IInv'
<1> USE AdapterCacheAssumption DEF IInv, TypeOK
<1>1. /\ installed' \in [Plugins -> Versions]
      /\ \A q \in Plugins, v \in Versions : v <= installed[q] => v <= installed'[q]
  BY DEF InstallNewer, Versions
<1>2. TypeOK'
  BY <1>1 DEF InstallNewer
<1>3. Known'
  BY <1>1 DEF Known, InstallNewer
<1>4. ASSUME NEW c \in Callers PROVE Knows(c)'
  BY <1>1 DEF Knows, InstallNewer
<1>5. Builder'
  BY DEF Builder, InstallNewer
<1> QED
  BY <1>2, <1>3, <1>4, <1>5

(* The hooks that want a manifest. *)
LEMMA ManifestStep ==
  ASSUME IInv, NEW c \in Callers,
         (\E p \in Plugins : Ask(c, p)) \/ Fetch(c) \/ Store(c)
  PROVE  IInv'
<1> USE AdapterCacheAssumption DEF IInv, TypeOK
<1>1. ASSUME NEW p \in Plugins, Ask(c, p) PROVE IInv'
  <2> USE <1>1 DEF Ask, stores, Goto
  <2>1. TypeOK'
    BY DEF Plugins
  <2>2. Known'
    BY DEF Known, Versions
  <2>3. ASSUME NEW d \in Callers PROVE Knows(d)'
    <3>1. CASE d = c
      BY <3>1 DEF Knows, Known
    <3>2. CASE d # c
      BY <3>2 DEF Knows
    <3> QED
      BY <3>1, <3>2
  <2>4. Builder'
    BY DEF Builder
  <2> QED
    BY <2>1, <2>2, <2>3, <2>4
<1>2. CASE Fetch(c)
  <2> USE <1>2 DEF stores, Goto
  <2>1. /\ want[c] \in Plugins /\ got[c] = 0 /\ installed[want[c]] \in Versions
        /\ seen[c][want[c]] \in Versions /\ seen[c][want[c]] <= installed[want[c]]
    BY DEF Fetch, Knows, Known
  <2>2. /\ UNCHANGED <<installed, cached, once, index, at, want, seen>>
        /\ pc' \in [Callers -> Places] /\ pc'[c] \in {"store", "answered"}
        /\ \A d \in Callers \ {c} : pc'[d] = pc[d] /\ got'[d] = got[d] /\ cut'[d] = cut[d]
    BY DEF Fetch, Places
  <2>3. got' \in [Callers -> Versions]
    BY <2>1 DEF Fetch
  <2>4. cut' \in [Callers -> BOOLEAN]
    BY DEF Fetch
  <2>5. TypeOK'
    BY <2>2, <2>3, <2>4 DEF Places
  <2>6. Known'
    BY <2>2 DEF Known
  <2>7. Knows(c)'
    <3>1. CASE cut'[c] = TRUE /\ pc'[c] = "answered" /\ got' = got
      BY <2>1, <2>2, <3>1 DEF Knows, Versions
    <3>2. CASE /\ got' = [got EXCEPT ![c] = installed[want[c]]]
               /\ pc'[c] = IF installed[want[c]] = 0 THEN "answered" ELSE "store"
      BY <2>1, <2>2, <3>2 DEF Knows, Versions
    <3> QED
      BY <3>1, <3>2 DEF Fetch
  <2>8. ASSUME NEW d \in Callers, d # c PROVE Knows(d)'
    BY <2>2, <2>8 DEF Knows
  <2>9. Builder'
    BY <2>2 DEF Builder
  <2> QED
    BY <2>5, <2>6, <2>7, <2>8, <2>9
<1>3. CASE Store(c)
  <2> USE <1>3 DEF Store, Goto
  <2>1. want[c] \in Plugins /\ got[c] <= installed[want[c]] /\ got[c] # 0
    BY DEF Knows
  <2>2. TypeOK'
    BY <2>1
  <2>3. Known'
    BY <2>1 DEF Known
  <2>4. ASSUME NEW d \in Callers PROVE Knows(d)'
    BY <2>1 DEF Knows
  <2>5. Builder'
    BY DEF Builder
  <2> QED
    BY <2>2, <2>3, <2>4, <2>5
<1> QED
  BY <1>1, <1>2, <1>3

(* The hook that wants the index. *)
LEMMA IndexStep ==
  ASSUME IInv, NEW c \in Callers,
         AskIndex(c) \/ IndexNext(c) \/ IndexBuilt(c) \/ IndexReady(c) \/ Return(c)
  PROVE  IInv'
<1> USE AdapterCacheAssumption DEF IInv, TypeOK
<1>1. UNCHANGED <<installed, cached, want, got>>
  BY DEF AskIndex, IndexNext, IndexBuilt, IndexReady, Return, stores
<1>2. TypeOK'
  <2>1. CASE IndexNext(c)
    <3>1. at' \in 1 .. Entries + 1
      BY <2>1 DEF IndexNext
    <3>2. index' \subseteq Plugins
      <4>1. at \in Plugins
        BY <2>1 DEF IndexNext, Plugins
      <4>2. index' = index \/ index' = index \cup {at}
        <5>1. \/ index' = (IF installed[at] # 0 THEN index \cup {at} ELSE index)
              \/ index' = index
          BY <2>1, Zenon DEF IndexNext
        <5> QED
          BY ONLY <5>1
      <4>3. index \subseteq Plugins
        BY Zenon
      <4> QED
        BY ONLY <4>1, <4>2, <4>3
    <3>3. cut' \in [Callers -> BOOLEAN]
      BY <2>1 DEF IndexNext
    <3>4. UNCHANGED <<installed, cached, once, pc, want, got, seen>>
      BY <2>1 DEF IndexNext
    <3> QED
      BY <3>1, <3>2, <3>3, <3>4
  <2>2. CASE AskIndex(c)
    BY <2>2 DEF AskIndex, Goto
  <2>3. CASE IndexBuilt(c) \/ IndexReady(c) \/ Return(c)
    BY <2>3 DEF IndexBuilt, IndexReady, Return, Goto, stores
  <2> QED
    BY <2>1, <2>2, <2>3
<1>3. Known'
  <2>1. seen' = seen \/ seen' = [seen EXCEPT ![c] = installed]
    BY DEF AskIndex, IndexNext, IndexBuilt, IndexReady, Return
  <2> QED
    BY <1>1, <2>1 DEF Known, Versions
<1>4. ASSUME NEW d \in Callers PROVE Knows(d)'
  <2>1. CASE d = c
    <3>1. pc'[c] \notin {"fetch", "store", "answered"}
      BY DEF AskIndex, IndexNext, IndexBuilt, IndexReady, Return, Goto
    <3> QED
      BY <2>1, <3>1 DEF Knows
  <2>2. CASE d # c
    <3>1. pc'[d] = pc[d] /\ seen'[d] = seen[d] /\ cut'[d] = cut[d]
      BY <2>2 DEF AskIndex, IndexNext, IndexBuilt, IndexReady, Return, Goto
    <3> QED
      BY <1>1, <3>1 DEF Knows
  <2> QED
    BY <2>1, <2>2
<1>5. Builder'
  <2>1. CASE AskIndex(c)
    BY <2>1 DEF AskIndex, Goto, Builder
  <2>2. CASE IndexNext(c)
    BY <2>2 DEF IndexNext, Builder
  <2>3. CASE IndexBuilt(c)
    BY <2>3 DEF IndexBuilt, Goto, Builder
  <2>4. CASE IndexReady(c) \/ Return(c)
    BY <2>4 DEF IndexReady, Return, Goto, stores, Builder
  <2> QED
    BY <2>1, <2>2, <2>3, <2>4
<1> QED
  BY <1>2, <1>3, <1>4, <1>5

(* The inductive invariant holds in every state. *)
THEOREM InductiveInvariant == Spec => []IInv
<1>1. IInv /\ UNCHANGED vars => IInv'
  BY DEF IInv, TypeOK, Known, Knows, Builder, vars
<1>2. IInv /\ [Next]_vars => IInv'
  BY <1>1, InstallStep, ManifestStep, IndexStep DEF Next, Hook
<1> QED
  BY <1>2, InitIInv, PTL DEF Spec

(* The caches' variables keep their types. *)
THEOREM Typing == Spec => []TypeOK
<1>1. IInv => TypeOK
  BY DEF IInv
<1> QED
  BY <1>1, InductiveInvariant, PTL

(* However many hooks ask while plugins come and change, a failed fetch is   *)
(* not remembered and no version is made up.  (cachedManifest.)              *)
THEOREM NoFailureCached == Spec => []FailuresRetried
<1>1. IInv => FailuresRetried
  BY DEF IInv, Knows, FailuresRetried
<1> QED
  BY <1>1, InductiveInvariant, PTL

(* One goroutine builds the index, everybody else sees it whole.             *)
(* (cachedIntentIndex.)                                                      *)
THEOREM BuiltOnce == Spec => OneIndex
<1>1. IInv /\ [Next]_vars =>
        [ /\ (\E c \in Callers : pc[c] = "derived") => once = "done"
          /\ once = "done" => UNCHANGED index
          /\ \A c, d \in Callers : pc[c] = "index" /\ pc[d] = "index" => c = d ]_vars
  <2> SUFFICES ASSUME IInv, Next, once = "done"
               PROVE  UNCHANGED index
    BY DEF IInv, Builder
  <2>1. \A c \in Callers : ~IndexNext(c)
    BY DEF IInv, Builder, IndexNext
  <2> QED
    BY <2>1 DEF Next, Hook, InstallNewer, Ask, Fetch, Store, AskIndex, IndexBuilt, IndexReady,
                Return, stores
<1> QED
  BY <1>1, InductiveInvariant, PTL DEF Spec, OneIndex

-----------------------------------------------------------------------------
(* The two ways in which the index misses a plugin: it is installed after    *)
(* the builder passed it, or the builder's context ends one of its fetches.  *)
BuilderKept == \A c \in Callers : pc[c] = "index" => ~cut[c]
OnlyUpgrades == \A p \in Plugins : installed[p] = 0 => installed'[p] = 0

(* Without them the index has all that is installed of what was passed.      *)
Indexed ==
  /\ once = "new" => at = 1
  /\ once = "done" => at = Entries + 1
  /\ \A p \in Plugins : installed[p] # 0 /\ p < at => p \in index

LEMMA IndexedStep ==
  ASSUME IInv, Indexed, Next, BuilderKept', OnlyUpgrades
  PROVE  Indexed'
<1> USE AdapterCacheAssumption DEF IInv, TypeOK
<1>1. ASSUME NEW p \in Plugins, InstallNewer(p) PROVE Indexed'
  <2>1. \A q \in Plugins : installed'[q] # 0 => installed[q] # 0
    BY DEF OnlyUpgrades
  <2> QED
    BY <1>1, <2>1 DEF Indexed, InstallNewer
<1>2. ASSUME NEW c \in Callers,
             \/ \E p \in Plugins : Ask(c, p)
             \/ Fetch(c) \/ Store(c) \/ IndexReady(c) \/ Return(c)
      PROVE  Indexed'
  <2>1. UNCHANGED <<installed, once, index, at>>
    BY <1>2 DEF Ask, Fetch, Store, IndexReady, Return, stores
  <2> QED
    BY <2>1 DEF Indexed
<1>3. ASSUME NEW c \in Callers, AskIndex(c) PROVE Indexed'
  BY <1>3 DEF AskIndex, Indexed
<1>4. ASSUME NEW c \in Callers, IndexNext(c) PROVE Indexed'
  <2>1. /\ pc'[c] = "index" /\ once = "running" /\ at \in Plugins
        /\ at' = at + 1 /\ once' = once /\ installed' = installed
    BY <1>4 DEF IndexNext, Builder, Plugins
  <2>2. index' = IF installed[at] # 0 THEN index \cup {at} ELSE index
    <3>1. ~cut'[c]
      BY <2>1 DEF BuilderKept
    <3> QED
      BY <1>4, <3>1 DEF IndexNext
  <2>3. \A p \in Plugins : installed[p] # 0 /\ p < at + 1 => p \in index'
    BY <2>1, <2>2 DEF Indexed, Plugins
  <2> QED
    BY <2>1, <2>3 DEF Indexed
<1>5. ASSUME NEW c \in Callers, IndexBuilt(c) PROVE Indexed'
  <2>1. at = Entries + 1
    BY <1>5 DEF IndexBuilt
  <2> QED
    BY <1>5, <2>1 DEF IndexBuilt, Indexed
<1> QED
  BY <1>1, <1>2, <1>3, <1>4, <1>5 DEF Next, Hook

(* What the violation of AdapterIndex.cfg needs: the shared index has all    *)
(* that was installed when a hook began, whoever built it, as long as no     *)
(* plugin is installed for the first time and no fetch of the builder is     *)
(* cut short.  Upgrades and other callers' cancellations do it no harm.      *)
(* (fluxplaneplugin/plugin.go: cachedIntentIndex and buildIntentIndex.)      *)
THEOREM IndexComplete ==
  Spec /\ []BuilderKept /\ [][OnlyUpgrades]_vars => []IndexRetried
<1>1. Init => Indexed
  BY AdapterCacheAssumption DEF Init, Indexed, Plugins
<1>2. IInv /\ Indexed /\ BuilderKept' /\ [Next /\ OnlyUpgrades]_vars => Indexed'
  <2>1. Indexed /\ UNCHANGED vars => Indexed'
    BY DEF Indexed, vars
  <2> QED
    BY <2>1, IndexedStep
<1>3. IInv /\ Indexed => IndexRetried
  <2> SUFFICES ASSUME IInv, Indexed, NEW c \in Callers, pc[c] = "derived",
                      NEW p \in Plugins, seen[c][p] # 0
               PROVE  p \in index
    BY DEF IndexRetried
  <2>1. at = Entries + 1
    BY DEF IInv, Builder, Indexed
  <2>2. installed[p] # 0
    BY DEF IInv, TypeOK, Known, Versions
  <2> QED
    BY <2>1, <2>2, AdapterCacheAssumption DEF Indexed, Plugins
<1> QED
  BY <1>1, <1>2, <1>3, InductiveInvariant, PTL DEF Spec

=============================================================================
