------------------------------ MODULE HostCalls ------------------------------
(***************************************************************************)
(* The grant of an invocation: InvokeInstance reads from the manifest what *)
(* the operations called, or the datasources named, declare that they      *)
(* need, makes a grant for it, and runs the plugin with it; the host       *)
(* checks what the plugin then asks of it against the grant.               *)
(*                                                                         *)
(* Each look at the manifest runs the plugin once more, so an upgrade by   *)
(* another dex process may come between any two of them.  A batch is an    *)
(* operation call with more than one operation.                            *)
(***************************************************************************)
EXTENDS Naturals

CONSTANTS
  Ops,        (* the plugin's operations, or its datasources *)
  Manifests,  (* what its versions may declare *)
  Timeout,    (* Runner.Timeout *)
  TTL         (* how long a grant lasts *)

Needs == {"network", "provider", "secret"}
Requests == {"http", "provider", "secret"}

(* The CLI and the Engine's default give two minutes, and a grant five.     *)
ASSUME HostCallsAssumption ==
  /\ Manifests \subseteq [Ops -> SUBSET Needs]
  /\ Timeout \in Nat /\ TTL \in Nat
  /\ Timeout < TTL

VARIABLES
  at,         (* where InvokeInstance stands *)
  kind,       (* of operations, datasources, or endpoints.discover *)
  called,     (* the operations called, or the datasources named *)
  installed,  (* what the installed version declares *)
  running,    (* what the version that runs declares *)
  grant,      (* the grant in the request *)
  clock,      (* the time since the call began *)
  served,     (* what the host did for the plugin *)
  refused,    (* and what it would not do *)
  versions,   (* the versions installed since the call began *)
  unread      (* whether the manifest could not be had for the grant *)

callVars == <<at, kind, called, installed, running, grant, clock, served, refused, versions, unread>>
requestVars == <<kind, called>>
historyVars == <<served, refused, versions, unread>>

NoGrant == [made |-> FALSE, scope |-> {}, expires |-> 0]

CallInit ==
  /\ at = "scope"
  /\ kind \in {"operations", "datasources", "discovery"}
  /\ called \in SUBSET Ops \ {{}}
  /\ installed \in Manifests /\ running = installed
  /\ grant = NoGrant
  /\ clock = 0
  /\ served = {} /\ refused = {}
  /\ versions = {installed}
  /\ unread = FALSE

OperationScope(needs) ==
  (IF "network" \in needs /\ "provider" \notin needs THEN {"http"} ELSE {})
    \cup (needs \ {"network"})

(* Fault: what is declared is taken for the capability. *)
DatasourceScope_Raw(needs) == needs \cup (IF "secret" \in needs THEN {"http"} ELSE {})

DatasourceScope(needs) ==
  (IF needs \cap {"network", "secret"} # {} THEN {"http"} ELSE {})
    \cup (needs \ {"network"})

(* To discover endpoints a plugin is given the Kubernetes provider, whatever *)
(* it declares.                                                             *)
ScopeOf(needs) ==
  IF kind = "operations" THEN OperationScope(needs)
  ELSE IF kind = "discovery" THEN {"provider"} ELSE DatasourceScope(needs)

(* Fault: the grant covers every operation of the manifest. *)
Scope_Whole(manifest) == UNION {ScopeOf(manifest[o]) : o \in Ops}

(* Fault: a batch is granted what one of its calls needs. *)
Scope_First(manifest) == ScopeOf(manifest[CHOOSE o \in called : TRUE])

(* operationGrantScope, datasourceGrantScope *)
Scope(manifest) == UNION {ScopeOf(manifest[o]) : o \in called}

(* A manifest that cannot be had leaves operations with an empty grant, and *)
(* datasources, like those that need nothing, with none; a discovery needs  *)
(* no manifest.                                                             *)
MakeGrant ==
  /\ at = "scope"
  /\ \E readable \in IF kind = "discovery" THEN {TRUE} ELSE BOOLEAN :
       LET scope == IF readable THEN Scope(installed) ELSE {} IN
       /\ unread' = ~readable
       /\ grant' = IF kind = "datasources" /\ scope = {} THEN NoGrant
                   ELSE [made |-> TRUE, scope |-> scope, expires |-> clock + TTL]
  /\ at' = "start"
  /\ UNCHANGED <<requestVars, installed, running, clock, served, refused, versions>>

(* A plugin that says, and shows, that it speaks frames runs with the host  *)
(* at its side; any other, or one that cannot be asked just then, runs      *)
(* alone.                                                                   *)
StartPlugin ==
  /\ at = "start"
  /\ at' \in {"framed", "alone"}
  /\ running' = installed
  /\ UNCHANGED <<requestVars, installed, grant, clock, historyVars>>

(* validateGrantBase *)
Valid == grant.made /\ clock <= grant.expires

(* handleHostRequest: ValidateCapabilityGrant, and ResolveSecret's purpose. *)
HostCall(request) ==
  /\ at = "framed"
  /\ IF Valid /\ request \in grant.scope
     THEN served' = served \cup {request} /\ UNCHANGED refused
     ELSE refused' = refused \cup {request} /\ UNCHANGED served
  /\ UNCHANGED <<requestVars, at, installed, running, grant, clock, versions, unread>>

(* The grant cannot be written, the plugin answers or fails, or the         *)
(* deadline kills it.  The grant stays on disk, and is good until it        *)
(* expires.                                                                 *)
CallEnds ==
  /\ at # "ended"
  /\ at' = "ended"
  /\ UNCHANGED <<requestVars, installed, running, grant, clock, historyVars>>

(* A host call that came before the deadline may be looked at just after.   *)
Tick ==
  /\ at # "ended"
  /\ clock <= Timeout
  /\ clock' = clock + 1
  /\ UNCHANGED <<requestVars, at, installed, running, grant, historyVars>>

Upgrade ==
  /\ at # "ended"
  /\ \E version \in Manifests :
       /\ installed' = version
       /\ versions' = versions \cup {version}
  /\ UNCHANGED <<requestVars, at, running, grant, clock, served, refused, unread>>

CallNext ==
  \/ MakeGrant \/ StartPlugin \/ CallEnds \/ Tick \/ Upgrade
  \/ \E request \in Requests : HostCall(request)

-----------------------------------------------------------------------------
CallTypeOK ==
  /\ at \in {"scope", "start", "framed", "alone", "ended"}
  /\ kind \in {"operations", "datasources", "discovery"}
  /\ called \in SUBSET Ops
  /\ {installed, running} \subseteq Manifests
  /\ grant \in [made : BOOLEAN, scope : SUBSET Requests, expires : Nat]
  /\ clock \in 0 .. Timeout + 1
  /\ served \in SUBSET Requests /\ refused \in SUBSET Requests
  /\ versions \in SUBSET Manifests
  /\ unread \in BOOLEAN

(* The host does nothing for a plugin that no operation of this very call,  *)
(* and no datasource, declares in a version that was installed during the   *)
(* call: an upgrade between the grant and the run gives no more than the    *)
(* one version or the other.  A discovery gives the provider and no more.   *)
(* ("only the credential material required for that call",                  *)
(* docs/concepts.md; runtime/runner.go: operationGrantScope.)               *)
ServedAsDeclared ==
  \A request \in served : \E version \in versions, o \in called : request \in ScopeOf(version[o])

(* While nothing is upgraded and the manifest can be read, a plugin is      *)
(* refused nothing that its version declares for the call, up to the        *)
(* deadline: the grant does not run out under it.                           *)
(* (runtime/secret.go: validateGrantBase against Runner.Timeout.)           *)
DeclaredIsServed ==
  versions = {running} /\ ~unread =>
    \A request \in refused, o \in called : request \notin ScopeOf(running[o])

=============================================================================
