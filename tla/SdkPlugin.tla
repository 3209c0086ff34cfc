----------------------------- MODULE SdkPlugin ------------------------------
(***************************************************************************)
(* The same invocation with a plugin built on the SDK: protocol.Serve runs *)
(* one handler, which calls the host (frameHostClient.CallHost), emits     *)
(* events and in the end answers.  The handler is whatever its author      *)
(* wrote: it may panic, print to stderr, ignore a failed call, and it      *)
(* sends at most MaxCalls frames before it answers.  It is one process: it *)
(* starts no other that would share its pipes.                             *)
(*                                                                         *)
(* The host's half is PluginInvocation's, unchanged; what SDK code does to *)
(* the pipes it does by the actions of the arbitrary plugin there.         *)
(***************************************************************************)
EXTENDS PluginInvocation

CONSTANT MaxCalls   (* host calls and events of one handler, at most *)

ASSUME SdkPluginAssumption ==
  /\ MaxCalls \in Nat
  /\ ~Descendants

VARIABLES
  sdk,      (* where Serve and the handler stand *)
  draft,    (* the frame the plugin's encoder writes, and its chunks left *)
  call,     (* the host call in progress: its place in out *)
  callErr,  (* what CallHost reported to the handler last *)
  calls     (* frames the handler has sent *)

sdkVars == <<sdk, draft, call, callErr, calls>>
allVars == <<vars, sdkVars>>

NoDraft == [frame |-> Part, left |-> 0]
StdinClosed == host \in {"killing", "waiting", "draining", "done"}

SdkInit ==
  /\ Init
  /\ sdk = "root"
  /\ draft = NoDraft
  /\ call = 0
  /\ callErr = "none"
  /\ calls = 0

(* Serve decodes the root request: it has it with the frame's last chunk.   *)
SdkReadRoot ==
  /\ sdk = "root"
  /\ PluginRead
  /\ sdk' = IF inp[taken + 1] = Root THEN "handler" ELSE "root"
  /\ UNCHANGED <<draft, call, callErr, calls>>

(* CallHost and EmitHostEvent take the next id and start to encode.         *)
SdkSend ==
  /\ sdk = "handler"
  /\ proc = "running"
  /\ calls < MaxCalls
  /\ calls' = calls + 1
  /\ sdk' = "writing"
  /\ \E f \in {"hostCall", "event"}, n \in 1 .. MaxFrame :
       draft' = [frame |-> f, left |-> n]
  /\ UNCHANGED <<vars, call, callErr>>

(* The handler returns, and Serve encodes its response.                     *)
SdkAnswer ==
  /\ sdk = "handler"
  /\ proc = "running"
  /\ sdk' = "writing"
  /\ \E f \in Answers, n \in 1 .. MaxFrame : draft' = [frame |-> f, left |-> n]
  /\ UNCHANGED <<vars, call, callErr, calls>>

AfterWrite(f) ==
  CASE f = "hostCall" -> "awaiting" [] f = "event" -> "handler" [] OTHER -> "returned"

(* enc.Encode puts one more chunk into stdout.                              *)
SdkWrite ==
  /\ sdk = "writing"
  /\ PluginWrite
  /\ out' = Append(out, IF draft.left = 1 THEN draft.frame ELSE Part)
  /\ draft' = IF draft.left = 1 THEN NoDraft ELSE [draft EXCEPT !.left = @ - 1]
  /\ sdk' = IF draft.left = 1 THEN AfterWrite(draft.frame) ELSE "writing"
  /\ call' = IF draft.left = 1 /\ draft.frame = "hostCall" THEN Len(out) + 1 ELSE call
  /\ UNCHANGED <<callErr, calls>>

(* CallHost takes the next frame of its stdin for its own response, and     *)
(* reports unexpected_frame if it is not.                                   *)
SdkHear ==
  /\ sdk = "awaiting"
  /\ PluginRead
  /\ IF inp[taken + 1] = HostPart
     THEN UNCHANGED <<sdk, callErr>>
     ELSE /\ sdk' = "handler"
          /\ callErr' = IF inp[taken + 1] = Reply(call) THEN "none" ELSE "unexpected"
  /\ UNCHANGED <<draft, call, calls>>

SdkEOF ==
  /\ sdk = "awaiting"
  /\ proc = "running"
  /\ taken = Len(inp)
  /\ StdinClosed
  /\ sdk' = "handler"
  /\ callErr' = "eof"
  /\ UNCHANGED <<vars, draft, call, calls>>

SdkPanic == sdk = "handler" /\ PluginExit /\ proc' = "crashed" /\ UNCHANGED sdkVars

SdkExit == sdk = "returned" /\ PluginExit /\ proc' = "clean" /\ UNCHANGED sdkVars

SdkStderr == sdk = "handler" /\ PluginFloodsStderr /\ UNCHANGED sdkVars

SdkNext ==
  \/ SdkReadRoot \/ SdkSend \/ SdkAnswer \/ SdkWrite \/ SdkHear \/ SdkEOF
  \/ SdkPanic \/ SdkExit \/ SdkStderr

-----------------------------------------------------------------------------
EnvNext == (HostNext \/ Serve \/ Expire \/ Cancel) /\ UNCHANGED sdkVars

(* The handler, unlike an arbitrary plugin, runs on until it answers, and   *)
(* what the host does for it returns.                                       *)
SdkFairness ==
  /\ WF_allVars(HostNext /\ UNCHANGED sdkVars)
  /\ WF_allVars(Serve /\ UNCHANGED sdkVars)
  /\ WF_allVars(SdkNext)

SdkSafetySpec == SdkInit /\ [][EnvNext \/ SdkNext]_allVars
SdkSpec == SdkSafetySpec /\ SdkFairness

-----------------------------------------------------------------------------
SdkTypeOK ==
  /\ TypeOK
  /\ sdk \in {"root", "handler", "writing", "awaiting", "returned"}
  /\ draft \in [frame : PluginChunk, left : 0 .. MaxFrame]
  /\ call \in Nat
  /\ callErr \in {"none", "unexpected", "eof"}
  /\ calls \in 0 .. MaxCalls

(* The frame a host call takes for its response is its response, however    *)
(* the two encoders and the pipes interleave; and a call loses it only once *)
(* the host has given up.  (protocol/pluginmain.go: CallHost.)              *)
CallsMatch == callErr # "unexpected" /\ (callErr = "eof" => StdinClosed)

(* What a handler answered reaches the caller: nothing but a panic, a       *)
(* cancelled context or an output over its limit costs a plugin its answer. *)
AnswerDelivered ==
  /\ host = "done" /\ proc = "clean" /\ ctx # "cancelled"
  /\ Len(out) <= StdoutLimit /\ ~stderrOver
  => Len(out) > 0 /\ result = out[Len(out)]

(* Without any deadline, the host and an SDK plugin whose handler returns   *)
(* never wait for each other: the call returns, if the host calls do.       *)
SdkReturns == <>(host = "done")

=============================================================================
