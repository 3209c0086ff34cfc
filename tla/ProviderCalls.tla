---------------------------- MODULE ProviderCalls ----------------------------
(***************************************************************************)
(* The three operations of the host that are more than one request: a      *)
(* fan-out over the provider plugins, a copy out of a container, and a     *)
(* port-forward.  Each runs under the context its invocation made for it.  *)
(***************************************************************************)
EXTENDS Fanout, ArchiveCopy, PortForward

vars == <<opVars, fanVars, copyVars, forwardVars>>

Init == OpInit /\ FanInit /\ CopyInit /\ ForwardInit

Next ==
  \/ FanNext /\ UNCHANGED <<opVars, copyVars, forwardVars>>
  \/ CopyNext /\ UNCHANGED <<opVars, fanVars, forwardVars>>
  \/ ForwardNext /\ UNCHANGED <<opVars, fanVars, copyVars>>
  \/ CtxEnds /\ UNCHANGED <<fanVars, copyVars, forwardVars>>

(* Every context ends: InvokeInstance's deadline passes, or it returns.     *)
Fairness == WF_opVars(CtxEnds) /\ FanFairness /\ CopyFairness /\ ForwardFairness

Spec == Init /\ [][Next]_vars /\ Fairness

(* One type invariant for the three. *)
TypeOK == OpTypeOK /\ FanTypeOK /\ CopyTypeOK /\ ForwardTypeOK

=============================================================================
