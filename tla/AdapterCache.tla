---------------------------- MODULE AdapterCache ----------------------------
(***************************************************************************)
(* What the fluxplaneplugin adapters remember: each adapter the manifest   *)
(* of its plugin, and all of them together one intent index.  Host hooks   *)
(* run concurrently; plugins are installed and upgraded meanwhile.         *)
(*                                                                         *)
(* A manifest is known by the version it was read from; 0 is a plugin that *)
(* is not installed, and a manifest nobody has.                            *)
(***************************************************************************)
EXTENDS Naturals

CONSTANTS
  Callers,      (* goroutines inside a hook of some adapter *)
  Entries,      (* how many plugins the marketplace has *)
  MaxVersion,   (* bound on the versions installed during a run *)
  Cancels       (* whether a caller's context may end during a fetch *)

ASSUME AdapterCacheAssumption ==
  Entries \in Nat /\ MaxVersion \in Nat /\ Cancels \in BOOLEAN

VARIABLES
  installed,   (* the version of each plugin on disk *)
  cached,      (* the version each adapter's manifest was read from *)
  once,        (* intentOnce *)
  index,       (* the plugins in the shared intent index *)
  at,          (* the plugin buildIntentIndex looks at *)
  pc,          (* where each caller stands *)
  want,        (* the plugin its hook is for *)
  got,         (* the version it fetched or was answered with *)
  cut,         (* whether its context ended a fetch of this call *)
  seen         (* what was installed when its call began *)

vars == <<installed, cached, once, index, at, pc, want, got, cut, seen>>
stores == <<installed, cached, once, index, at>>

Plugins == 1 .. Entries
Versions == 0 .. MaxVersion

Init ==
  /\ installed \in [Plugins -> {0, 1} \cap Versions]
  /\ cached = [p \in Plugins |-> 0]
  /\ once = "new" /\ index = {} /\ at = 1
  /\ pc = [c \in Callers |-> "idle"]
  /\ want = [c \in Callers |-> 1]
  /\ got = [c \in Callers |-> 0]
  /\ cut = [c \in Callers |-> FALSE]
  /\ seen = [c \in Callers |-> installed]

Goto(c, where) == pc' = [pc EXCEPT ![c] = where]

(* dex plugin install or upgrade, in this process or another. *)
InstallNewer(p) ==
  /\ installed[p] < MaxVersion
  /\ installed' = [installed EXCEPT ![p] = @ + 1]
  /\ UNCHANGED <<cached, once, index, at, pc, want, got, cut, seen>>

(* Contributions, Operations and the datasource hooks: the manifest that is *)
(* cached is the answer.  The lock is not held over the fetch.              *)
Ask(c, p) ==
  /\ pc[c] = "idle"
  /\ want' = [want EXCEPT ![c] = p]
  /\ got' = [got EXCEPT ![c] = cached[p]]
  /\ cut' = [cut EXCEPT ![c] = FALSE]
  /\ seen' = [seen EXCEPT ![c] = installed]
  /\ Goto(c, IF cached[p] # 0 THEN "answered" ELSE "fetch")
  /\ UNCHANGED stores

(* Fault: the flag is set before the error is looked at. *)
Fetch_Remembered(c) ==
  /\ pc[c] = "fetch"
  /\ got' = [got EXCEPT ![c] = installed[want[c]]]
  /\ cached' = [cached EXCEPT ![want[c]] = MaxVersion]
  /\ Goto(c, "answered")
  /\ UNCHANGED <<installed, once, index, at, want, cut, seen>>

(* engine.Manifest runs the plugin.  Without a manifest the hook answers    *)
(* with a stub or nothing, and nothing is remembered.                       *)
Fetch(c) ==
  /\ pc[c] = "fetch"
  /\ \/ /\ got' = [got EXCEPT ![c] = installed[want[c]]]
        /\ Goto(c, IF installed[want[c]] = 0 THEN "answered" ELSE "store")
        /\ UNCHANGED cut
     \/ /\ Cancels
        /\ cut' = [cut EXCEPT ![c] = TRUE]
        /\ Goto(c, "answered")
        /\ UNCHANGED got
  /\ UNCHANGED <<stores, want, seen>>

Store(c) ==
  /\ pc[c] = "store"
  /\ cached' = [cached EXCEPT ![want[c]] = got[c]]
  /\ Goto(c, "answered")
  /\ UNCHANGED <<installed, once, index, at, want, got, cut, seen>>

(* Fault: two goroutines may both find the index missing. *)
AskIndex_CheckThenBuild(c) ==
  /\ pc[c] = "idle"
  /\ seen' = [seen EXCEPT ![c] = installed]
  /\ cut' = [cut EXCEPT ![c] = FALSE]
  /\ IF once # "done"
     THEN once' = "running" /\ Goto(c, "index") /\ at' = 1 /\ index' = {}
     ELSE Goto(c, "wait") /\ UNCHANGED <<once, at, index>>
  /\ UNCHANGED <<installed, cached, want, got>>

(* AssertionDerivers: intentOnce.Do lets the first caller build the index   *)
(* and the others wait for it.                                              *)
AskIndex(c) ==
  /\ pc[c] = "idle"
  /\ seen' = [seen EXCEPT ![c] = installed]
  /\ cut' = [cut EXCEPT ![c] = FALSE]
  /\ IF once = "new"
     THEN once' = "running" /\ Goto(c, "index")
     ELSE Goto(c, "wait") /\ UNCHANGED once
  /\ UNCHANGED <<installed, cached, index, at, want, got>>

(* Fault: the plugin behind the one fetched is recorded. *)
IndexNext_OffByOne(c) ==
  /\ pc[c] = "index"
  /\ at <= Entries
  /\ at' = at + 1
  /\ index' = IF installed[at] # 0 THEN index \cup {at + 1} ELSE index
  /\ UNCHANGED <<installed, cached, once, pc, want, got, cut, seen>>

(* buildIntentIndex fetches the next manifest itself, under the builder's   *)
(* context, and skips a plugin it cannot fetch.                             *)
IndexNext(c) ==
  /\ pc[c] = "index"
  /\ at <= Entries
  /\ at' = at + 1
  /\ \/ /\ index' = IF installed[at] # 0 THEN index \cup {at} ELSE index
        /\ UNCHANGED cut
     \/ Cancels /\ cut' = [cut EXCEPT ![c] = TRUE] /\ UNCHANGED index
  /\ UNCHANGED <<installed, cached, once, pc, want, got, seen>>

IndexBuilt(c) ==
  /\ pc[c] = "index"
  /\ at > Entries
  /\ once' = "done"
  /\ Goto(c, "derived")
  /\ UNCHANGED <<installed, cached, index, at, want, got, cut, seen>>

IndexReady(c) ==
  /\ pc[c] = "wait"
  /\ once = "done"
  /\ Goto(c, "derived")
  /\ UNCHANGED <<stores, want, got, cut, seen>>

Return(c) ==
  /\ pc[c] \in {"answered", "derived"}
  /\ Goto(c, "idle")
  /\ UNCHANGED <<stores, want, got, cut, seen>>

Hook(c) ==
  \/ \E p \in Plugins : Ask(c, p)
  \/ Fetch(c) \/ Store(c) \/ AskIndex(c) \/ IndexNext(c) \/ IndexBuilt(c)
  \/ IndexReady(c) \/ Return(c)

Next == (\E p \in Plugins : InstallNewer(p)) \/ (\E c \in Callers : Hook(c))

Spec == Init /\ [][Next]_vars

-----------------------------------------------------------------------------
TypeOK ==
  /\ installed \in [Plugins -> Versions]
  /\ cached \in [Plugins -> Versions]
  /\ once \in {"new", "running", "done"}
  /\ index \subseteq Plugins
  /\ at \in 1 .. Entries + 1
  /\ pc \in [Callers -> {"idle", "fetch", "store", "answered", "index", "wait", "derived"}]
  /\ want \in [Callers -> Nat]
  /\ got \in [Callers -> Versions]
  /\ cut \in [Callers -> BOOLEAN]
  /\ seen \in [Callers -> [Plugins -> Versions]]

(* A failed fetch is retried: a hook whose own context lasted answers        *)
(* without a manifest only for a plugin that was not installed when it was   *)
(* called, and never with a version that was not installed.                  *)
(* (fluxplaneplugin/plugin.go: cachedManifest caches what succeeded.)        *)
FailuresRetried ==
  \A c \in Callers : pc[c] = "answered" =>
    /\ got[c] = 0 /\ ~cut[c] => seen[c][want[c]] = 0
    /\ got[c] <= installed[want[c]]

(* One goroutine builds the index, and nobody sees it before it is built or  *)
(* another one after.  (fluxplaneplugin/plugin.go: cachedIntentIndex.)       *)
OneIndex ==
  [][ /\ (\E c \in Callers : pc[c] = "derived") => once = "done"
      /\ once = "done" => UNCHANGED index
      /\ \A c, d \in Callers : pc[c] = "index" /\ pc[d] = "index" => c = d ]_vars

(* The shared index is cached "while keeping install failures retryable"     *)
(* (CHANGELOG.md:73): a deriver handed out after a plugin was installed      *)
(* knows the plugin.                                                         *)
IndexRetried ==
  \A c \in Callers : pc[c] = "derived" /\ ~cut[c] =>
    {p \in Plugins : seen[c][p] # 0} \subseteq index

=============================================================================
