-------------------------- MODULE PluginInvocation --------------------------
(***************************************************************************)
(* One framed invocation: Runner.invokeRequestV2 talking to a plugin       *)
(* process it knows nothing about, over the process's stdin and stdout.    *)
(*                                                                         *)
(* A pipe is the log of everything written to it and a count of how much   *)
(* of that was read.  A frame is cut into chunks: any number of Part, then *)
(* the frame itself.  A reader acts on a frame when it reads the last      *)
(* chunk.  Capacity bounds what is written and not read, decoder           *)
(* read-ahead included: past it the writer blocks, as a pipe write does.   *)
(* The id of a plugin's request is its place in the log.                   *)
(*                                                                         *)
(* The process that was started may start others (go run starts the        *)
(* plugin), which inherit its ends of the pipes: they can read, write and  *)
(* keep a pipe open after that process is gone.  Only it is ever killed.   *)
(***************************************************************************)
EXTENDS Naturals, Sequences

CONSTANTS
  Capacity,     (* chunks a pipe holds *)
  StdoutLimit,  (* chunks the host reads before it gives up *)
  MaxFrame,     (* chunks in the longest frame the host sends *)
  Deadline,     (* whether the context can expire *)
  Descendants   (* whether the process can leave others behind *)

ASSUME PluginInvocationAssumption ==
  /\ Capacity \in Nat \ {0}
  /\ StdoutLimit \in Nat \ {0}
  /\ MaxFrame \in Nat \ {0}
  /\ Deadline \in BOOLEAN
  /\ Descendants \in BOOLEAN

VARIABLES
  host,        (* where invokeRequestV2 stands *)
  outbox,      (* the frame the host's encoder writes, and its chunks left *)
  inp,         (* every chunk written to the plugin's stdin *)
  taken,       (* how many of them the plugin read *)
  out,         (* every chunk written to the plugin's stdout *)
  read,        (* how many of them the host read *)
  proc,        (* the process that was started *)
  ends,        (* the pipes whose other end some process still holds *)
  stderrOver,  (* the plugin wrote more to stderr than the host keeps *)
  ctx,         (* the context, and whether its watcher killed the process *)
  result       (* what the call will return once Wait has ended *)

hostVars == <<host, outbox, inp, read, result>>
plugVars == <<taken, out, stderrOver>>
vars == <<host, outbox, inp, taken, out, read, proc, ends, stderrOver, ctx, result>>

(***************************************************************************)
(* Chunks.                                                                 *)
(***************************************************************************)
Part == "part"
Answers == {"rootOK", "rootFail"}
Requests == {"hostCall", "misdirected"}
(* A frame the host rejects: a response with another id, an event for       *)
(* another target, another protocol version, another type.                  *)
Rejected == {"rejected"}
Closing == Answers \cup Rejected \cup {"garbage"}
PluginChunk == {Part, "event"} \cup Requests \cup Closing

HostPart == [kind |-> "part", re |-> 0]
Root == [kind |-> "root", re |-> 0]
Reply(k) == [kind |-> "reply", re |-> k]
HostChunk == [kind : {"part", "root", "reply"}, re : 0 .. StdoutLimit]

Idle == [frame |-> HostPart, left |-> 0]
Sending(frame, n) == [frame |-> frame, left |-> n]

(***************************************************************************)
(* The process, and the host.                                              *)
(***************************************************************************)
Pipes == {"stdin", "stdout", "stderr"}
Exited == proc \in {"clean", "crashed"}

(* The process ends, and with it its ends of the pipes: those it shares     *)
(* with another process stay open.                                          *)
EndsAs(p) ==
  /\ proc' = p
  /\ ends' \in IF Descendants THEN SUBSET ends ELSE {{}}

Kill == IF proc = "running" THEN EndsAs("crashed") ELSE UNCHANGED <<proc, ends>>

CloseWith(r) == host' = "waiting" /\ result' = r /\ outbox' = Idle

Init ==
  /\ host = "start"
  /\ outbox = Idle
  /\ inp = <<>> /\ taken = 0
  /\ out = <<>> /\ read = 0
  /\ proc = "none" /\ ends = {}
  /\ stderrOver = FALSE
  /\ ctx = "live"
  /\ result = "none"

(* command(), a pipe or cmd.Start fails; Start refuses a context that is done. *)
StartFails ==
  /\ host = "start"
  /\ host' = "done"
  /\ result' = "error"
  /\ UNCHANGED <<outbox, inp, taken, out, read, proc, ends, stderrOver, ctx>>

Start ==
  /\ host = "start"
  /\ ctx = "live"
  /\ proc' = "running" /\ ends' = Pipes
  /\ host' = "writing"
  /\ \E n \in 1 .. MaxFrame : outbox' = Sending(Root, n)
  /\ UNCHANGED <<inp, taken, out, read, stderrOver, ctx, result>>

(* enc.Encode puts one more chunk of the frame into stdin. *)
HostWrite ==
  /\ host = "writing"
  /\ "stdin" \in ends
  /\ Len(inp) - taken < Capacity
  /\ inp' = Append(inp, IF outbox.left = 1 THEN outbox.frame ELSE HostPart)
  /\ outbox' = IF outbox.left = 1 THEN Idle ELSE [outbox EXCEPT !.left = @ - 1]
  /\ host' = IF outbox.left = 1 THEN "reading" ELSE "writing"
  /\ UNCHANGED <<taken, out, read, proc, ends, stderrOver, ctx, result>>

(* Fault: the loop takes no notice of an encode error. *)
HostWriteFails_Ignored ==
  /\ host = "writing"
  /\ "stdin" \notin ends
  /\ host' = "reading" /\ outbox' = Idle
  /\ UNCHANGED <<inp, taken, out, read, proc, ends, stderrOver, ctx, result>>

(* Nobody reads stdin any more.  The error ends the call, except that the   *)
(* one of a bad_request reply is dropped.                                   *)
HostWriteFails ==
  /\ host = "writing"
  /\ "stdin" \notin ends
  /\ IF outbox.frame.kind = "reply" /\ out[read] = "misdirected"
     THEN host' = "reading" /\ outbox' = Idle /\ UNCHANGED result
     ELSE CloseWith("error")
  /\ UNCHANGED <<inp, taken, out, read, proc, ends, stderrOver, ctx>>

(* Fault: stdout is decoded without limitedReadCloser. *)
Hearing_Unlimited ==
  /\ host = "reading"
  /\ read < Len(out)
  /\ read' = read + 1

(* dec.Decode reads one more chunk. *)
Hearing ==
  /\ host = "reading"
  /\ read < StdoutLimit
  /\ read < Len(out)
  /\ read' = read + 1

HearOn ==
  /\ Hearing
  /\ out[read + 1] = Part
  /\ UNCHANGED <<host, outbox, inp, taken, out, proc, ends, stderrOver, ctx, result>>

(* A request that is not for the host gets a bad_request reply.             *)
HearMisdirected ==
  /\ Hearing
  /\ out[read + 1] = "misdirected"
  /\ host' = "writing"
  /\ \E n \in 1 .. MaxFrame : outbox' = Sending(Reply(read + 1), n)
  /\ UNCHANGED <<inp, taken, out, proc, ends, stderrOver, ctx, result>>

(* A host call, or an event for the sink: the loop itself serves it.        *)
HearCall ==
  /\ Hearing
  /\ out[read + 1] \in {"hostCall", "event"}
  /\ host' = "serving"
  /\ UNCHANGED <<outbox, inp, taken, out, proc, ends, stderrOver, ctx, result>>

(* Fault: an event is acknowledged. *)
Serve_Acknowledges ==
  /\ host = "serving"
  /\ host' = "writing"
  /\ \E n \in 1 .. MaxFrame : outbox' = Sending(Reply(read), n)
  /\ UNCHANGED <<inp, taken, out, read, proc, ends, stderrOver, ctx, result>>

(* Fault: a host call is served, and its response not sent. *)
Serve_Unanswered ==
  /\ host = "serving"
  /\ host' = "reading"
  /\ UNCHANGED <<outbox, inp, taken, out, read, proc, ends, stderrOver, ctx, result>>

(* handleHostRequest or the event sink returns, which they need not ever.   *)
Serve ==
  /\ host = "serving"
  /\ IF out[read] = "event"
     THEN host' = "reading" /\ UNCHANGED outbox
     ELSE host' = "writing" /\ \E n \in 1 .. MaxFrame : outbox' = Sending(Reply(read), n)
  /\ UNCHANGED <<inp, taken, out, read, proc, ends, stderrOver, ctx, result>>

HearAnswer ==
  /\ Hearing
  /\ out[read + 1] \in Answers
  /\ CloseWith(out[read + 1])
  /\ UNCHANGED <<inp, taken, out, proc, ends, stderrOver, ctx>>

HearRejected ==
  /\ Hearing
  /\ out[read + 1] \in Rejected
  /\ CloseWith("error")
  /\ UNCHANGED <<inp, taken, out, proc, ends, stderrOver, ctx>>

(* Decode fails.  The host looks at stderr.truncated before it waits, while *)
(* the goroutine that sets it may still run: it may miss an overflow.       *)
DecodeFails ==
  /\ host' \in IF stderrOver THEN {"waiting", "killing"} ELSE {"waiting"}
  /\ result' = "error"
  /\ UNCHANGED <<outbox, inp, taken, out, proc, ends, stderrOver, ctx>>

HearGarbage ==
  /\ Hearing
  /\ out[read + 1] = "garbage"
  /\ DecodeFails

(* Nobody can write to stdout any more.                                     *)
HearEOF ==
  /\ host = "reading"
  /\ read < StdoutLimit
  /\ read = Len(out)
  /\ "stdout" \notin ends
  /\ DecodeFails
  /\ UNCHANGED read

(* Fault: the limit is off by one. *)
HearTooMuch_Early ==
  /\ host = "reading"
  /\ read >= StdoutLimit - 1
  /\ host' = "killing"
  /\ result' = "error"
  /\ UNCHANGED <<outbox, inp, taken, out, read, proc, ends, stderrOver, ctx>>

(* limitedReadCloser has nothing left to give. *)
HearTooMuch ==
  /\ host = "reading"
  /\ read >= StdoutLimit
  /\ host' = "killing"
  /\ result' = "error"
  /\ UNCHANGED <<outbox, inp, taken, out, read, proc, ends, stderrOver, ctx>>

HostKill ==
  /\ host = "killing"
  /\ host' = "waiting"
  /\ Kill
  /\ UNCHANGED <<outbox, inp, taken, out, read, stderrOver, ctx, result>>

(* Fault: the call ends on the answer and leaves the process to itself. *)
HostReap_Detached ==
  /\ host = "waiting"
  /\ host' = "draining"
  /\ UNCHANGED <<outbox, inp, taken, out, read, proc, ends, stderrOver, ctx, result>>

(* cmd.Wait: the process is gone.  Wait will report a failure if it failed, *)
(* or if the context's watcher got to it: no OK answer counts then.         *)
HostReap ==
  /\ host = "waiting"
  /\ Exited
  /\ host' = "draining"
  /\ result' = IF result = "rootOK" /\ (proc = "crashed" \/ ctx = "cancelled")
               THEN "error" ELSE result
  /\ UNCHANGED <<outbox, inp, taken, out, read, proc, ends, stderrOver, ctx>>

(* cmd.Wait returns once all of stderr is copied, which takes everybody who *)
(* holds it to let go.  No answer counts once stderr overflowed.            *)
HostWait ==
  /\ host = "draining"
  /\ "stderr" \notin ends
  /\ host' = "done"
  /\ result' = IF stderrOver THEN "error" ELSE result
  /\ UNCHANGED <<outbox, inp, taken, out, read, proc, ends, stderrOver, ctx>>

HostNext ==
  \/ StartFails \/ Start \/ HostWrite \/ HostWriteFails
  \/ HearOn \/ HearMisdirected \/ HearCall \/ HearAnswer \/ HearRejected
  \/ HearGarbage \/ HearEOF \/ HearTooMuch \/ HostKill \/ HostReap \/ HostWait

(***************************************************************************)
(* The context: Runner.Timeout, or the caller's own context.  Its watcher  *)
(* kills the process it finds, and counts as an interruption even if that  *)
(* process has just exited by itself.                                      *)
(***************************************************************************)
Expire ==
  /\ Deadline
  /\ ctx = "live"
  /\ ctx' = "expired"
  /\ UNCHANGED <<hostVars, plugVars, proc, ends>>

(* Fault: the deadline is looked at between frames only. *)
Cancel_BetweenFrames ==
  /\ ctx = "expired"
  /\ host = "reading"
  /\ ctx' = "cancelled"
  /\ Kill
  /\ UNCHANGED <<hostVars, plugVars>>

Cancel ==
  /\ ctx = "expired"
  /\ host \in {"writing", "reading", "serving", "killing", "waiting"}
  /\ ctx' = "cancelled"
  /\ Kill
  /\ UNCHANGED <<hostVars, plugVars>>

(***************************************************************************)
(* Any program at all as the plugin, in one process or in several.  What   *)
(* matters is who still holds an end of a pipe.                            *)
(***************************************************************************)
PluginWrite ==
  /\ "stdout" \in ends
  /\ host # "done"
  /\ Len(out) - read < Capacity
  /\ \E c \in PluginChunk : out' = Append(out, c)
  /\ UNCHANGED <<hostVars, taken, proc, ends, stderrOver, ctx>>

PluginRead ==
  /\ "stdin" \in ends
  /\ taken < Len(inp)
  /\ taken' = taken + 1
  /\ UNCHANGED <<hostVars, out, proc, ends, stderrOver, ctx>>

PluginFloodsStderr ==
  /\ "stderr" \in ends
  /\ stderrOver' = TRUE
  /\ UNCHANGED <<hostVars, taken, out, proc, ends, ctx>>

(* The last process that held an end of a pipe closes it, or exits.         *)
PluginCloses ==
  /\ \E e \in ends : ends' = ends \ {e}
  /\ UNCHANGED <<hostVars, plugVars, proc, ctx>>

PluginExit ==
  /\ proc = "running"
  /\ \E p \in {"clean", "crashed"} : EndsAs(p)
  /\ UNCHANGED <<hostVars, plugVars, ctx>>

PluginNext ==
  PluginWrite \/ PluginRead \/ PluginFloodsStderr \/ PluginCloses \/ PluginExit

-----------------------------------------------------------------------------
Next == HostNext \/ Serve \/ Expire \/ Cancel \/ PluginNext

(* The host is a goroutine that runs whenever it can, and timers fire.      *)
(* Nothing makes the plugin do anything, nor a host call or a sink return.  *)
Fairness == WF_vars(HostNext) /\ WF_vars(Expire) /\ WF_vars(Cancel)

SafetySpec == Init /\ [][Next]_vars
Spec == SafetySpec /\ Fairness

-----------------------------------------------------------------------------
TypeOK ==
  /\ host \in {"start", "writing", "reading", "serving", "killing", "waiting", "draining", "done"}
  /\ outbox \in [frame : HostChunk, left : 0 .. MaxFrame]
  /\ inp \in Seq(HostChunk)
  /\ taken \in Nat
  /\ out \in Seq(PluginChunk)
  /\ read \in 0 .. StdoutLimit
  /\ proc \in {"none", "running", "clean", "crashed"}
  /\ ends \subseteq Pipes
  /\ stderrOver \in BOOLEAN
  /\ ctx \in {"live", "expired", "cancelled"}
  /\ result \in Answers \cup {"none", "error"}

Written(k) == \E i \in 1 .. Len(inp) : inp[i] = Reply(k)

(* The host answers a plugin's requests one at a time and in full: by the   *)
(* time it reads on, or has taken an answer, every host call it has read    *)
(* has its reply in the pipe, and no frame is ever answered twice.          *)
(* (runtime/runner.go: the FrameRequest case of the loop.)                  *)
AnsweredInTurn ==
  /\ host = "reading" \/ result \in Answers =>
       \A k \in 1 .. read : out[k] = "hostCall" => Written(k)
  /\ \A i, j \in 1 .. Len(inp) :
       inp[i].kind = "reply" /\ inp[i] = inp[j] => i = j

(* The call implements RemoteCall: frames are heard in order and none       *)
(* after the one that closes the conversation; it never returns with the    *)
(* process still there; the plugin's answer is the last frame heard.        *)
Phase ==
  IF host = "start" THEN "idle" ELSE IF host = "done" THEN "returned" ELSE "running"
Answer == IF host = "done" THEN result ELSE "none"

RC == INSTANCE RemoteCall WITH
  Frames <- PluginChunk,
  phase <- Phase,
  said <- out,
  heard <- read,
  alive <- proc = "running",
  answer <- Answer

ImplementsRemoteCall == RC!Spec

(* With a deadline the call returns, whatever the started process does: it  *)
(* may stop reading, never exit, or fill the pipe nobody reads once the     *)
(* host waits.  Two things the deadline does not reach can keep the call:   *)
(* a host call or event sink that never returns, which the loop serves      *)
(* itself, and a process left behind that keeps a pipe open, as the program *)
(* of a killed go run may.  (runtime/runner.go: no WaitDelay is set.)       *)
Returns ==
  \/ <>(host = "done")
  \/ <>[](host = "serving")
  \/ <>[](Exited /\ ends # {})

=============================================================================
