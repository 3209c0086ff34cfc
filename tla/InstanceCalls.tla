---------------------------- MODULE InstanceCalls ----------------------------
(***************************************************************************)
(* The two parts of InvokeInstance before and around the plugin's process: *)
(* the index that may answer in its place, and the grant it runs with.     *)
(* They share no state.  A behaviour follows one of them: a datasource     *)
(* call at its index, or any call at its grant.                            *)
(***************************************************************************)
EXTENDS IndexedSearch, HostCalls

VARIABLE part  (* which part this behaviour follows *)

vars == <<searchVars, storeVars, callVars, part>>

(* What the other part starts from does not matter. *)
Init ==
  /\ SearchInit /\ CallInit
  /\ \/ part = "index" /\ kind = "datasources" /\ called = Ops
     \/ part = "grant" /\ wanted = "any"

Next ==
  /\ \/ part = "index" /\ SearchNext /\ UNCHANGED callVars
     \/ part = "grant" /\ CallNext /\ UNCHANGED <<searchVars, storeVars>>
  /\ UNCHANGED part

Spec == Init /\ [][Next]_vars

(* One type invariant for both. *)
TypeOK == part \in {"index", "grant"} /\ SearchTypeOK /\ CallTypeOK

=============================================================================
