---------------------------- MODULE HostOperation ----------------------------
(***************************************************************************)
(* An operation the host carries out itself, for a builtin plugin or as    *)
(* the provider of a plugin's host call, and the context it runs under:    *)
(* InvokeInstance gives it a deadline, and cancels it when it returns.     *)
(***************************************************************************)

VARIABLES
  call,   (* which operation this is *)
  ctx     (* whether its context is live or over *)

opVars == <<call, ctx>>

Calls == {"search", "copy", "forward"}

OpInit == call \in Calls /\ ctx = "live"

(* The deadline passes, the caller gives up, or InvokeInstance returns.     *)
CtxEnds ==
  /\ ctx = "live"
  /\ ctx' = "over"
  /\ UNCHANGED call

OpTypeOK == call \in Calls /\ ctx \in {"live", "over"}

=============================================================================
