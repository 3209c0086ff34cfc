-------------------------- MODULE SdkPluginProofs ---------------------------
(***************************************************************************)
(* Proofs about SdkPlugin, for pipes, limits, frames and handlers of any   *)
(* size.  An SDK plugin is a plugin, so everything PluginInvocationProofs  *)
(* shows holds of it; host calls get their own responses (CallsMatch), and *)
(* what the handler answers reaches the caller (AnswerDelivered).          *)
(***************************************************************************)
EXTENDS SdkPlugin, PluginInvocationProofs

(***************************************************************************)
(* The inductive invariant.  Replies and requests alternate: as long as    *)
(* the handler runs, stdin is empty and no request is under way; while it  *)
(* waits for call, the only frame that can be in stdin, or on its way      *)
(* there, is the reply to call.  A pipe is open as long as the process is. *)
(***************************************************************************)
SdkTypes ==
  /\ sdk \in {"root", "handler", "writing", "awaiting", "returned"}
  /\ draft \in [frame : PluginChunk, left : 0 .. MaxFrame]
  /\ sdk = "writing" => draft.left > 0 /\ draft.frame \in {"hostCall", "event"} \cup Answers
  /\ call \in Nat
  /\ callErr \in {"none", "unexpected", "eof"}
  /\ calls \in 0 .. MaxCalls

NoRequest(from, to) == \A k \in from .. to : out[k] \notin Requests

Starting ==
  sdk = "root" =>
    /\ out = <<>>
    /\ host = "start" => inp = <<>>
    /\ host = "writing" => outbox.frame = Root
    /\ \A i \in 1 .. Len(inp) :
         inp[i] = HostPart \/ (inp[i] = Root /\ i = Len(inp) /\ host # "writing")

Busy ==
  sdk \in {"handler", "writing", "returned"} =>
    /\ host \notin {"start", "writing"}
    /\ taken = Len(inp)
    /\ host = "serving" => out[read] = "event"
    /\ StdinClosed \/ NoRequest(read + 1, Len(out))

Awaiting ==
  sdk = "awaiting" =>
    /\ call = Len(out) /\ call > 0
    /\ host # "start"
    /\ host = "writing" => outbox.frame = Reply(call)
    /\ host = "serving" /\ out[read] = "hostCall" => read = call
    /\ StdinClosed \/ NoRequest(read + 1, Len(out) - 1)
    /\ \A i \in taken + 1 .. Len(inp) :
         \/ inp[i] = HostPart
         \/ inp[i] = Reply(call) /\ i = Len(inp) /\ host # "writing"

Output ==
  /\ \A k \in 1 .. Len(out) : out[k] \in {Part, "event", "hostCall"} \cup Answers
  /\ \A k \in 1 .. Len(out) : out[k] \in Answers => sdk = "returned" /\ k = Len(out)
  /\ sdk = "returned" => Len(out) > 0 /\ out[Len(out)] \in Answers
  /\ proc = "clean" => sdk = "returned"

(* Whatever goes wrong has one of these causes. *)
Blame ==
  result = "error" =>
    \/ proc \in {"none", "crashed"}
    \/ ctx = "cancelled"
    \/ stderrOver
    \/ read >= StdoutLimit /\ out[read] \notin Answers

Held == ends = IF proc = "running" THEN Pipes ELSE {}

SdkIInv ==
  /\ SdkTypes
  /\ Held
  /\ Starting
  /\ Busy
  /\ Awaiting
  /\ CallsMatch
  /\ Output
  /\ Blame

-----------------------------------------------------------------------------
(* A step of the SDK plugin is a step of the arbitrary plugin, or none.     *)
LEMMA SdkStepIsStep ==
  ASSUME SdkTypes, [EnvNext \/ SdkNext]_allVars
  PROVE  [Next]_vars
<1>1. CASE EnvNext
  BY <1>1 DEF EnvNext, Next
<1>2. CASE SdkReadRoot \/ SdkHear
  BY <1>2 DEF SdkReadRoot, SdkHear, Next, PluginNext
<1>3. CASE SdkSend \/ SdkAnswer \/ SdkEOF
  BY <1>3 DEF SdkSend, SdkAnswer, SdkEOF
<1>4. CASE SdkWrite
  BY <1>4 DEF SdkWrite, Next, PluginNext
<1>5. CASE SdkPanic \/ SdkExit \/ SdkStderr
  BY <1>5 DEF SdkPanic, SdkExit, SdkStderr, Next, PluginNext
<1>6. CASE UNCHANGED allVars
  BY <1>6 DEF allVars
<1>7. QED
  BY <1>1, <1>2, <1>3, <1>4, <1>5, <1>6 DEF SdkNext

(* One process: its pipes are open as long as it runs.                      *)
LEMMA HeldStep ==
  ASSUME Held, EnvNext \/ SdkNext
  PROVE  Held'
<1> USE SdkPluginAssumption DEF SdkPluginAssumption, Held
<1>1. CASE Start
  BY <1>1 DEF Start
<1>2. CASE HostKill \/ Cancel \/ SdkPanic \/ SdkExit
  BY <1>2 DEF HostKill, Cancel, SdkPanic, SdkExit, PluginExit, Kill, EndsAs
<1>3. CASE \/ StartFails \/ HostWrite \/ HostWriteFails \/ HearOn \/ HearMisdirected \/ HearCall
           \/ HearAnswer \/ HearRejected \/ HearGarbage \/ HearEOF \/ HearTooMuch
           \/ HostReap \/ HostWait \/ Serve \/ Expire
  BY <1>3 DEF StartFails, HostWrite, HostWriteFails, HearOn, HearMisdirected, HearCall,
     HearAnswer, HearRejected, HearGarbage, HearEOF, HearTooMuch, DecodeFails, HostReap,
     HostWait, Serve, Expire
<1>4. CASE \/ SdkReadRoot \/ SdkSend \/ SdkAnswer \/ SdkWrite \/ SdkHear \/ SdkEOF \/ SdkStderr
  BY <1>4 DEF SdkReadRoot, SdkSend, SdkAnswer, SdkWrite, SdkHear, SdkEOF, SdkStderr,
     PluginRead, PluginWrite, PluginFloodsStderr, vars
<1>5. QED
  BY <1>1, <1>2, <1>3, <1>4 DEF EnvNext, HostNext, SdkNext

LEMMA SdkInitIInv == SdkInit => SdkIInv
<1> SUFFICES ASSUME SdkInit PROVE SdkIInv
  OBVIOUS
<1> USE PluginInvocationAssumption, SdkPluginAssumption
        DEF PluginInvocationAssumption, SdkPluginAssumption, SdkInit, Init
<1>1. SdkTypes
  BY DEF SdkTypes, NoDraft, PluginChunk
<1>2. Held /\ Starting /\ Busy /\ Awaiting /\ CallsMatch
  BY DEF Held, Starting, Busy, Awaiting, CallsMatch
<1>3. Output /\ Blame
  BY DEF Output, Blame
<1>4. QED
  BY <1>1, <1>2, <1>3 DEF SdkIInv

(* A step of the host or of the context keeps the invariant.                *)
LEMMA EnvStep ==
  ASSUME IInv, SdkIInv, EnvNext
  PROVE  SdkIInv'
<1> USE PluginInvocationAssumption
        DEF PluginInvocationAssumption, IInv, SdkIInv, EnvNext, sdkVars, TypeOK
<1>0. Held'
  BY HeldStep
<1>1. CASE HostWrite
  <2> USE <1>1 DEF HostWrite
  <2> DEFINE chunk == IF outbox.left = 1 THEN outbox.frame ELSE HostPart
  <2>1. chunk \in HostChunk /\ inp' = Append(inp, chunk)
    BY ChunkTypes
  <2>2. /\ Len(inp') = Len(inp) + 1
        /\ \A i \in 1 .. Len(inp) : inp'[i] = inp[i]
        /\ inp'[Len(inp) + 1] = chunk
    BY <2>1, AppendKeeps
  <2>3. /\ outbox.left = 1 => chunk = outbox.frame /\ host' = "reading"
        /\ outbox.left # 1 => chunk = HostPart /\ host' = host /\ outbox'.frame = outbox.frame
    BY ChunkTypes
  <2> HIDE DEF chunk
  <2>4. SdkTypes' /\ CallsMatch' /\ Output' /\ Blame'
    BY <2>3 DEF SdkTypes, CallsMatch, Output, Blame, StdinClosed
  <2>5. Starting'
    BY <2>2, <2>3 DEF Starting
  <2>6. Busy'
    BY DEF Busy
  <2>7. Awaiting'
    BY <2>2, <2>3 DEF Awaiting, NoRequest, StdinClosed
  <2>8. QED
    BY <1>0, <2>4, <2>5, <2>6, <2>7
<1>2. CASE Serve
  <2> USE <1>2 DEF Serve, Sending
  <2>1. read > 0 /\ out[read] \in {"hostCall", "event"} /\ ~Written(read)
    BY DEF Serving
  <2>2. out[read] = "hostCall" => sdk = "awaiting" /\ read = call
    BY <2>1 DEF Starting, Busy, Awaiting, SdkTypes, Positions
  <2>3. SdkTypes' /\ CallsMatch' /\ Output' /\ Blame'
    BY DEF SdkTypes, CallsMatch, Output, Blame, StdinClosed, Verdicts
  <2>4. Starting' /\ Busy'
    BY <2>1, <2>2 DEF Starting, Busy, NoRequest, StdinClosed, Positions
  <2>5. Awaiting'
    <3>1. CASE out[read] = "event"
      BY <2>1, <3>1 DEF Awaiting, NoRequest, StdinClosed
    <3>2. CASE out[read] = "hostCall"
      <4>1. \A i \in taken + 1 .. Len(inp) : inp[i] = HostPart
        BY <2>1, <2>2, <3>2 DEF Awaiting, Written
      <4>2. QED
        BY <2>1, <2>2, <3>2, <4>1 DEF Awaiting, NoRequest, StdinClosed
    <3>3. QED
      BY <2>1, <3>1, <3>2
  <2>6. QED
    BY <1>0, <2>3, <2>4, <2>5
<1>3. CASE StartFails \/ Start
  <2> USE <1>3 DEF StartFails, Start, Sending
  <2>1. SdkTypes' /\ CallsMatch' /\ Output'
    BY DEF SdkTypes, CallsMatch, Output, StdinClosed, Processes
  <2>2. Starting' /\ Busy' /\ Awaiting'
    BY DEF Starting, Busy, Awaiting
  <2>3. Blame'
    BY DEF Blame, Verdicts, Processes
  <2>4. QED
    BY <1>0, <2>1, <2>2, <2>3
<1>4. CASE HostWriteFails
  <2> USE <1>4 DEF HostWriteFails, CloseWith
  <2>1. sdk # "returned" /\ proc = "crashed"
    BY <1>0 DEF Held, Pipes, Busy, Output, Exited, Processes
  <2>2. host' = "waiting"
    BY DEF Encoding, Output, Requests, Positions, Answers, Part, Root, Reply
  <2>3. QED
    BY <1>0, <2>1, <2>2 DEF SdkTypes, CallsMatch, Output, Blame, Starting, Busy, Awaiting, StdinClosed
<1>5. CASE HearOn \/ HearCall
  <2> USE <1>5 DEF HearOn, HearCall, Hearing
  <2>1. SdkTypes' /\ CallsMatch' /\ Output' /\ Blame' /\ Starting'
    BY DEF SdkTypes, CallsMatch, Output, Blame, Starting, StdinClosed, Verdicts
  <2>2. Busy'
    BY DEF Busy, NoRequest, StdinClosed, Requests
  <2>3. Awaiting'
    <3>1. sdk = "awaiting" /\ out[read'] = "hostCall" => read' = call
      BY DEF Awaiting, NoRequest, StdinClosed, Requests
    <3>2. QED
      BY <3>1 DEF Awaiting, NoRequest, StdinClosed
  <2>4. QED
    BY <1>0, <2>1, <2>2, <2>3
<1>6. CASE HearAnswer
  <2> USE <1>6 DEF HearAnswer, Hearing, CloseWith
  <2>1. SdkTypes' /\ CallsMatch' /\ Output' /\ Blame' /\ Starting'
    BY DEF SdkTypes, CallsMatch, Output, Blame, Starting, StdinClosed, Verdicts, Answers
  <2>2. Busy' /\ Awaiting'
    BY DEF Busy, Awaiting, NoRequest, StdinClosed
  <2>3. QED
    BY <1>0, <2>1, <2>2
<1>7. CASE HearMisdirected \/ HearRejected \/ HearGarbage
  BY <1>7 DEF HearMisdirected, HearRejected, HearGarbage, Hearing, Output, Rejected, Part, Answers
<1>8. CASE HearEOF
  <2> USE <1>8 DEF HearEOF, DecodeFails, Exited
  <2>1. proc = "crashed"
    BY DEF Held, Pipes, Output, Verdicts, Closing, Processes
  <2>2. SdkTypes' /\ CallsMatch' /\ Output' /\ Blame' /\ Starting'
    BY <2>1 DEF SdkTypes, CallsMatch, Output, Blame, Starting, StdinClosed
  <2>3. Busy' /\ Awaiting'
    BY DEF Busy, Awaiting, NoRequest, StdinClosed
  <2>4. QED
    BY <1>0, <2>2, <2>3
<1>9. CASE HearTooMuch
  <2> USE <1>9 DEF HearTooMuch
  <2>1. SdkTypes' /\ CallsMatch' /\ Output' /\ Blame' /\ Starting'
    BY DEF SdkTypes, CallsMatch, Output, Blame, Starting, StdinClosed, Verdicts, Closing
  <2>2. Busy' /\ Awaiting'
    BY DEF Busy, Awaiting, NoRequest, StdinClosed
  <2>3. QED
    BY <1>0, <2>1, <2>2
<1>10. CASE HostKill \/ HostReap \/ HostWait \/ Expire \/ Cancel
  <2> USE <1>10 DEF HostKill, HostReap, HostWait, Expire, Cancel, Kill, EndsAs, Exited, hostVars, plugVars
  <2>1. SdkTypes' /\ CallsMatch' /\ Output' /\ Starting'
    BY DEF SdkTypes, CallsMatch, Output, Starting, StdinClosed
  <2>2. Blame'
    BY DEF Blame, Processes
  <2>3. Busy' /\ Awaiting'
    BY DEF Busy, Awaiting, NoRequest, StdinClosed
  <2>4. QED
    BY <1>0, <2>1, <2>2, <2>3
<1>11. QED
  BY <1>1, <1>2, <1>3, <1>4, <1>5, <1>6, <1>7, <1>8, <1>9, <1>10 DEF HostNext

(* A step of the plugin keeps the invariant.                                *)
LEMMA SdkStep ==
  ASSUME IInv, SdkIInv, SdkNext
  PROVE  SdkIInv'
<1> USE PluginInvocationAssumption, SdkPluginAssumption
        DEF PluginInvocationAssumption, SdkPluginAssumption, IInv, SdkIInv, TypeOK, hostVars
<1>0. Held'
  BY HeldStep
<1>1. CASE SdkWrite
  <2> USE DEF NoRequest
  <2> DEFINE chunk == IF draft.left = 1 THEN draft.frame ELSE Part
  <2>1. chunk \in PluginChunk /\ out' = Append(out, chunk)
    BY <1>1 DEF SdkWrite, SdkTypes, PluginChunk
  <2>2. /\ Len(out') = Len(out) + 1
        /\ \A i \in 1 .. Len(out) : out'[i] = out[i]
        /\ out'[Len(out) + 1] = chunk
    BY <2>1, AppendKeeps
  <2>3. /\ UNCHANGED <<host, outbox, inp, read, result, taken, proc, stderrOver, ctx,
                       callErr, calls>>
        /\ sdk = "writing" /\ proc = "running"
    BY <1>1 DEF SdkWrite, PluginWrite, Held
  <2>4. \/ /\ draft.left # 1 /\ chunk = Part
           /\ sdk' = "writing" /\ call' = call /\ draft' = [draft EXCEPT !.left = @ - 1]
        \/ /\ chunk \in {"event"} /\ sdk' = "handler" /\ call' = call /\ draft' = NoDraft
        \/ /\ chunk = "hostCall" /\ sdk' = "awaiting" /\ call' = Len(out) + 1 /\ draft' = NoDraft
        \/ /\ chunk \in Answers /\ sdk' = "returned" /\ call' = call /\ draft' = NoDraft
    BY <1>1 DEF SdkWrite, AfterWrite, SdkTypes, Answers
  <2> HIDE DEF chunk
  <2>5. SdkTypes'
    <3>1. NoDraft \in [frame : PluginChunk, left : 0 .. MaxFrame]
      BY DEF NoDraft, PluginChunk
    <3> DEFINE rest == [draft EXCEPT !.left = @ - 1]
    <3>2. draft.left # 1 =>
            /\ rest \in [frame : PluginChunk, left : 0 .. MaxFrame]
            /\ rest.left > 0 /\ rest.frame = draft.frame
      <4> SUFFICES ASSUME draft.left # 1
                   PROVE  /\ rest \in [frame : PluginChunk, left : 0 .. MaxFrame]
                          /\ rest.left > 0 /\ rest.frame = draft.frame
        OBVIOUS
      <4>1. /\ draft \in [frame : PluginChunk, left : 0 .. MaxFrame]
            /\ draft.left - 1 \in 1 .. MaxFrame
        BY <2>3 DEF SdkTypes
      <4>2. QED
        BY <4>1
    <3>3. Len(out) + 1 \in Nat
      OBVIOUS
    <3>4. QED
      BY <2>3, <2>4, <3>1, <3>2, <3>3 DEF SdkTypes
  <2>6. Starting' /\ CallsMatch'
    BY <2>3, <2>4 DEF Starting, CallsMatch, StdinClosed
  <2>7. host = "serving" => out'[read] = "event"
    BY <2>2, <2>3 DEF Busy, Serving, Positions
  <2>8. Busy'
    BY <2>2, <2>3, <2>4, <2>7 DEF Busy, StdinClosed, Requests, Part, Answers
  <2>9. Awaiting'
    <3> SUFFICES ASSUME sdk' = "awaiting" PROVE Awaiting'
      BY DEF Awaiting
    <3>1. call' = Len(out') /\ host \notin {"start", "writing"} /\ taken = Len(inp)
      BY <2>2, <2>3, <2>4 DEF Busy
    <3>2. StdinClosed' \/ \A k \in read' + 1 .. Len(out') - 1 : out'[k] \notin Requests
      BY <2>2, <2>3 DEF Busy, StdinClosed
    <3>3. QED
      BY <2>2, <2>3, <2>7, <3>1, <3>2 DEF Awaiting
  <2>10. Output'
    <3>1. \A k \in 1 .. Len(out') : out'[k] \in {Part, "event", "hostCall"} \cup Answers
      <4>1. chunk \in {Part, "event", "hostCall"} \cup Answers
        BY <2>4
      <4>2. \A k \in 1 .. Len(out) : out[k] \in {Part, "event", "hostCall"} \cup Answers
        BY DEF Output
      <4>3. SUFFICES ASSUME NEW k \in 1 .. Len(out')
                     PROVE  out'[k] \in {Part, "event", "hostCall"} \cup Answers
        OBVIOUS
      <4>4. CASE k \in 1 .. Len(out)
        BY <2>2, <4>2, <4>4
      <4>5. CASE k = Len(out) + 1
        BY <2>2, <4>1, <4>5
      <4> QED
        BY <2>2, <4>3, <4>4, <4>5
    <3>2. \A k \in 1 .. Len(out) : out'[k] \notin Answers
      BY <2>2, <2>3 DEF Output
    <3>3. chunk \in Answers <=> sdk' = "returned"
      BY <2>4 DEF Part, Answers
    <3>4. QED
      BY <2>2, <2>3, <3>1, <3>2, <3>3 DEF Output
  <2>11. Blame'
    <3>1. read >= StdoutLimit => out'[read] = out[read]
      BY <2>2 DEF Positions
    <3>2. QED
      BY <3>1, <2>3 DEF Blame
  <2>12. QED
    BY <1>0, <2>5, <2>6, <2>8, <2>9, <2>10, <2>11
<1>2. CASE SdkReadRoot
  <2> USE <1>2 DEF SdkReadRoot, PluginRead
  <2>1. SdkTypes' /\ CallsMatch' /\ Blame' /\ Starting' /\ Awaiting'
    BY DEF SdkTypes, CallsMatch, Blame, Starting, Awaiting, StdinClosed
  <2>2. Output'
    BY DEF Output, Starting
  <2>3. Busy'
    <3>1. CASE inp[taken + 1] = Root
      <4>1. taken + 1 = Len(inp) /\ host # "writing" /\ host # "start" /\ out = <<>>
        BY <3>1, ChunkTypes DEF Starting, Processes, Positions
      <4>2. host # "serving"
        BY <4>1 DEF Serving, Positions
      <4>3. QED
        BY <4>1, <4>2 DEF Busy, NoRequest
    <3>2. CASE inp[taken + 1] # Root
      BY <3>2 DEF Busy
    <3>3. QED
      BY <3>1, <3>2
  <2>4. QED
    BY <1>0, <2>1, <2>2, <2>3
<1>3. CASE SdkSend \/ SdkAnswer
  <2> USE DEF SdkSend, SdkAnswer, vars
  <2>1. /\ UNCHANGED <<vars, call, callErr>>
        /\ sdk = "handler" /\ sdk' = "writing"
    BY <1>3
  <2>2. /\ draft' \in [frame : {"hostCall", "event"} \cup Answers, left : 1 .. MaxFrame]
        /\ calls' \in 0 .. MaxCalls
    <3>1. CASE SdkSend
      BY <3>1 DEF SdkTypes
    <3>2. CASE SdkAnswer
      BY <3>2 DEF SdkTypes
    <3> QED
      BY <1>3, <3>1, <3>2
  <2>3. SdkTypes'
    BY <2>1, <2>2 DEF SdkTypes, PluginChunk, Requests, Closing
  <2>4. Starting' /\ Busy' /\ Awaiting' /\ CallsMatch'
    BY <2>1 DEF Starting, Busy, Awaiting, CallsMatch, StdinClosed, NoRequest
  <2>5. Output' /\ Blame'
    BY <2>1 DEF Output, Blame
  <2>6. QED
    BY <1>0, <2>3, <2>4, <2>5
<1>4. CASE SdkHear
  <2> USE <1>4 DEF SdkHear, PluginRead
  <2>1. CASE inp[taken + 1] = HostPart
    BY <1>0, <2>1 DEF SdkTypes, CallsMatch, Blame, Output, Starting, Busy, Awaiting, StdinClosed, NoRequest
  <2>2. CASE inp[taken + 1] # HostPart
    <3>1. inp[taken + 1] = Reply(call) /\ taken + 1 = Len(inp) /\ host # "writing"
      BY <2>2 DEF Awaiting, Positions
    <3>2. read >= Len(out)
      BY <3>1, ChunkTypes DEF RepliesRead, Awaiting, HostChunk, Reply
    <3>3. SdkTypes' /\ CallsMatch' /\ Blame' /\ Starting' /\ Awaiting'
      BY <2>2, <3>1 DEF SdkTypes, CallsMatch, Blame, Starting, Awaiting, StdinClosed
    <3>4. Busy'
      <4>1. Written(call) /\ read = call
        BY <3>1, <3>2 DEF Written, Awaiting, Positions
      <4>2. host # "serving"
        BY <4>1 DEF Serving
      <4>3. QED
        BY <2>2, <3>1, <3>2, <4>2 DEF Busy, Awaiting, NoRequest
    <3>5. Output'
      BY <2>2 DEF Output
    <3>6. QED
      BY <1>0, <3>3, <3>4, <3>5
  <2>3. QED
    BY <2>1, <2>2
<1>5. CASE SdkEOF
  BY <1>0, <1>5 DEF SdkEOF, vars, SdkTypes, CallsMatch, Blame, Output, Starting, Busy, Awaiting,
              StdinClosed, NoRequest
<1>6. CASE SdkPanic \/ SdkExit \/ SdkStderr
  <2> USE <1>6 DEF SdkPanic, SdkExit, SdkStderr, PluginExit, EndsAs, PluginFloodsStderr, plugVars, sdkVars
  <2>1. SdkTypes' /\ CallsMatch' /\ Starting' /\ Busy' /\ Awaiting'
    BY DEF SdkTypes, CallsMatch, Starting, Busy, Awaiting, StdinClosed, NoRequest
  <2>2. Output' /\ Blame'
    BY DEF Output, Blame
  <2>3. QED
    BY <1>0, <2>1, <2>2
<1>7. QED
  BY <1>1, <1>2, <1>3, <1>4, <1>5, <1>6 DEF SdkNext

THEOREM SdkInductiveInvariant == SdkSafetySpec => [](IInv /\ SdkIInv)
<1>1. SdkInit => IInv /\ SdkIInv
  BY InitIInv, SdkInitIInv DEF SdkInit
<1>2. IInv /\ SdkIInv /\ [EnvNext \/ SdkNext]_allVars => IInv' /\ SdkIInv'
  <2> SUFFICES ASSUME IInv, SdkIInv, [EnvNext \/ SdkNext]_allVars
               PROVE  IInv' /\ SdkIInv'
    OBVIOUS
  <2>1. IInv'
    BY SdkStepIsStep, IInvStep DEF SdkIInv
  <2>2. CASE UNCHANGED allVars
    <3> USE <2>2 DEF allVars, vars, sdkVars, SdkIInv
    <3>1. SdkTypes' /\ Held' /\ Starting' /\ CallsMatch'
      BY DEF SdkTypes, Held, Starting, CallsMatch, StdinClosed
    <3>2. Busy' /\ Awaiting'
      BY DEF Busy, Awaiting, StdinClosed, NoRequest
    <3>3. Output' /\ Blame'
      BY DEF Output, Blame
    <3>4. QED
      BY <2>1, <3>1, <3>2, <3>3
  <2>3. QED
    BY <2>1, <2>2, EnvStep, SdkStep
<1>3. QED
  BY <1>1, <1>2, PTL DEF SdkSafetySpec

(* What SDK code does, any plugin may do: PluginInvocationProofs applies.   *)
LEMMA SdkStepsAreSteps == SdkSafetySpec => SafetySpec
<1>1. SdkInit => Init
  BY DEF SdkInit
<1>2. SdkIInv /\ [EnvNext \/ SdkNext]_allVars => [Next]_vars
  BY SdkStepIsStep DEF SdkIInv
<1>3. QED
  BY <1>1, <1>2, SdkInductiveInvariant, PTL DEF SdkSafetySpec, SafetySpec

(* Every variable of the SDK plugin, too, keeps its type.                   *)
THEOREM SdkTyping == SdkSafetySpec => []SdkTypeOK
<1>1. IInv /\ SdkIInv => SdkTypeOK
  BY DEF IInv, SdkIInv, SdkTypes, SdkTypeOK
<1>2. QED
  BY <1>1, SdkInductiveInvariant, PTL

(* A host call is never handed the response to another one, and loses its   *)
(* own only once the host has given up the invocation (CallsMatch).         *)
THEOREM CallsGetTheirResponses == SdkSafetySpec => []CallsMatch
<1>1. SdkIInv => CallsMatch
  BY DEF SdkIInv
<1>2. QED
  BY <1>1, SdkInductiveInvariant, PTL

(* A handler's answer reaches the caller unless the handler panicked, the   *)
(* context was cancelled, or an output passed its limit (AnswerDelivered).  *)
THEOREM AnswersReachTheCaller == SdkSafetySpec => []AnswerDelivered
<1>1. IInv /\ SdkIInv => AnswerDelivered
  <2> SUFFICES ASSUME IInv, SdkIInv, host = "done", proc = "clean", ctx # "cancelled",
                      Len(out) <= StdoutLimit, ~stderrOver
               PROVE  Len(out) > 0 /\ result = out[Len(out)]
    BY DEF AnswerDelivered
  <2> USE PluginInvocationAssumption DEF PluginInvocationAssumption, IInv, SdkIInv, TypeOK
  <2>1. Len(out) > 0 /\ out[Len(out)] \in Answers
    BY DEF Output
  <2>2. result # "error"
    <3> SUFFICES ASSUME result = "error" PROVE FALSE
      OBVIOUS
    <3>1. read >= StdoutLimit /\ out[read] \notin Answers
      BY DEF Blame
    <3>2. read = Len(out)
      BY <3>1 DEF Positions
    <3>3. QED
      BY <3>1, <3>2, <2>1
  <2>3. result \in Answers /\ read > 0 /\ out[read] = result
    BY <2>2 DEF Verdicts
  <2>4. read = Len(out)
    BY <2>3 DEF Output, Positions
  <2>5. QED
    BY <2>1, <2>3, <2>4
<1>2. QED
  BY <1>1, SdkInductiveInvariant, PTL

-----------------------------------------------------------------------------
(***************************************************************************)
(* Deadlock freedom.  The host and the plugin are two processes that block *)
(* on each other's pipes.  What one of them waits for the other can always *)
(* bring about: a root request or a reply in full is in the pipe or being  *)
(* written, and a host that waits for the process's end has either the     *)
(* handler's answer or a process that is gone already.                     *)
(***************************************************************************)
Owed ==
  /\ sdk = "root" /\ host = "reading" => taken < Len(inp) /\ inp[Len(inp)] = Root
  /\ sdk = "awaiting" => out[call] = "hostCall" /\ \A i \in 1 .. taken : inp[i] # Reply(call)
  /\ host = "waiting" /\ result = "error" => Exited

(* The guards of the host's steps, and of the plugin's.  A host call that   *)
(* is served is not waiting for the plugin.                                 *)
HostCanMove ==
  \/ host \in {"start", "serving", "killing"}
  \/ host = "writing" /\ ("stdin" \notin ends \/ Len(inp) - taken < Capacity)
  \/ host = "reading" /\ ("stdout" \notin ends \/ read < Len(out) \/ read >= StdoutLimit)
  \/ host = "waiting" /\ Exited
  \/ host = "draining" /\ "stderr" \notin ends

SdkCanMove ==
  /\ proc = "running"
  /\ \/ sdk \in {"handler", "returned"}
     \/ sdk = "writing" /\ Len(out) - read < Capacity
     \/ sdk \in {"root", "awaiting"} /\ taken < Len(inp)
     \/ sdk = "awaiting" /\ StdinClosed

LEMMA OwedByEnv ==
  ASSUME IInv, SdkIInv, Owed, EnvNext
  PROVE  Owed'
<1> USE PluginInvocationAssumption DEF PluginInvocationAssumption, EnvNext, sdkVars
<1>0. TypeOK /\ Positions
  BY DEF IInv
<1>1. CASE HostWrite
  <2> DEFINE chunk == IF outbox.left = 1 THEN outbox.frame ELSE HostPart
  <2>1. /\ host = "writing" /\ inp' = Append(inp, chunk)
        /\ host' = IF outbox.left = 1 THEN "reading" ELSE "writing"
        /\ UNCHANGED <<taken, out, read, proc, stderrOver, ctx, result, sdk, call>>
    BY <1>1 DEF HostWrite
  <2>2. chunk \in HostChunk
    BY <1>0, ChunkTypes DEF TypeOK
  <2> HIDE DEF chunk
  <2>3. /\ Len(inp') = Len(inp) + 1 /\ inp'[Len(inp) + 1] = chunk
        /\ \A i \in 1 .. Len(inp) : inp'[i] = inp[i]
    BY <1>0, <2>1, <2>2, AppendKeeps DEF TypeOK
  <2>4. Len(inp) \in Nat /\ taken \in Nat /\ taken <= Len(inp)
    BY <1>0 DEF TypeOK, Positions
  <2>5. sdk = "root" /\ host' = "reading" => chunk = Root
    BY <2>1 DEF SdkIInv, Starting, chunk
  <2>6. \A i \in 1 .. taken : inp'[i] = inp[i]
    BY <2>3, <2>4
  <2> QED
    BY <2>1, <2>3, <2>4, <2>5, <2>6 DEF Owed
<1>2. CASE HostWriteFails
  <2>1. Exited /\ UNCHANGED <<inp, taken, out, proc, sdk, call>> /\ host = "writing"
    BY <1>0, <1>2 DEF HostWriteFails, SdkIInv, Held, Pipes, IInv, Processes, TypeOK, Exited
  <2>2. host' = "waiting"
    BY <1>0, <1>2 DEF HostWriteFails, CloseWith, IInv, Encoding, SdkIInv, Output, Requests, Positions,
       Answers, Part, Root, Reply, TypeOK
  <2> QED
    BY <2>1, <2>2 DEF Owed, Exited
<1>3. CASE StartFails \/ Start \/ HearOn \/ HearCall \/ HearTooMuch
  BY <1>3 DEF StartFails, Start, HearOn, HearCall, HearTooMuch, Hearing, Owed, Exited
<1>4. CASE HearAnswer
  BY <1>4 DEF HearAnswer, Hearing, CloseWith, Owed, Answers, Exited
<1>5. CASE HearMisdirected \/ HearRejected \/ HearGarbage
  <2>1. read + 1 \in 1 .. Len(out) /\ out[read + 1] \in {"misdirected", "rejected", "garbage"}
    BY <1>0, <1>5 DEF HearMisdirected, HearRejected, HearGarbage, Hearing, Rejected, TypeOK
  <2>2. out[read + 1] \in {Part, "event", "hostCall"} \cup Answers
    BY <1>0, <2>1 DEF SdkIInv, Output
  <2> QED
    BY <2>1, <2>2 DEF Part, Answers
<1>6. CASE HearEOF
  BY <1>0, <1>6 DEF HearEOF, DecodeFails, Owed, SdkIInv, Held, Pipes, IInv, Processes, TypeOK, Exited
<1>7. CASE HostKill
  BY <1>0, <1>7 DEF HostKill, Kill, EndsAs, IInv, Processes, Owed, Exited, TypeOK
<1>8. CASE HostReap \/ HostWait \/ Expire \/ Cancel
  BY <1>8 DEF HostReap, HostWait, Expire, Cancel, Kill, EndsAs, hostVars, plugVars, Owed, Exited
<1>9. CASE Serve
  <2>1. sdk # "root"
    BY <1>0, <1>9 DEF Serve, SdkIInv, Starting, IInv, Serving, Positions, TypeOK
  <2> QED
    BY <1>9, <2>1 DEF Serve, Owed, Exited
<1> QED
  BY <1>1, <1>2, <1>3, <1>4, <1>5, <1>6, <1>7, <1>8, <1>9 DEF HostNext

LEMMA OwedBySdk ==
  ASSUME IInv, SdkIInv, Owed, SdkNext
  PROVE  Owed'
<1> USE PluginInvocationAssumption, SdkPluginAssumption
        DEF PluginInvocationAssumption, SdkPluginAssumption, hostVars
<1>0. TypeOK /\ Positions /\ SdkTypes
  BY DEF IInv, SdkIInv
<1>1. CASE SdkWrite
  <2> DEFINE chunk == IF draft.left = 1 THEN draft.frame ELSE Part
  <2>1. /\ UNCHANGED <<host, inp, taken, proc, result>> /\ sdk = "writing"
        /\ out' = Append(out, chunk)
        /\ sdk' = "awaiting" => chunk = "hostCall" /\ call' = Len(out) + 1
        /\ sdk' # "root"
    BY <1>0, <1>1 DEF SdkWrite, PluginWrite, AfterWrite, SdkTypes, Answers
  <2>2. chunk \in PluginChunk
    BY <1>0 DEF SdkTypes, PluginChunk
  <2> HIDE DEF chunk
  <2>3. out'[Len(out) + 1] = chunk /\ Len(out) \in Nat
    BY <1>0, <2>1, <2>2, AppendKeeps DEF TypeOK
  <2>4. ASSUME NEW i \in 1 .. taken PROVE inp[i] # Reply(Len(out) + 1)
    <3>1. i \in 1 .. Len(inp) /\ read \in Nat /\ read <= Len(out)
      BY <1>0, <2>4 DEF TypeOK, Positions
    <3>2. inp[i].kind = "reply" => inp[i].re \in 1 .. read
      BY <3>1 DEF IInv, RepliesRead
    <3> QED
      BY <2>3, <3>1, <3>2 DEF Reply
  <2> QED
    BY <2>1, <2>3, <2>4 DEF Owed, Exited
<1>2. CASE SdkReadRoot \/ SdkHear
  <2>1. /\ UNCHANGED <<host, inp, out, proc, result, call>> /\ taken' = taken + 1 /\ taken < Len(inp)
        /\ \/ sdk = "root" /\ sdk' = (IF inp[taken + 1] = Root THEN "handler" ELSE "root")
           \/ sdk = "awaiting" /\ sdk' \in {"awaiting", "handler"}
                /\ (sdk' = "awaiting" => inp[taken + 1] = HostPart)
    BY <1>2 DEF SdkReadRoot, SdkHear, PluginRead
  <2>2. Len(inp) \in Nat /\ taken \in Nat
    BY <1>0 DEF TypeOK
  <2>3. HostPart # Reply(call)
    BY DEF HostPart, Reply
  <2> QED
    BY <2>1, <2>2, <2>3 DEF Owed, Exited
<1>3. CASE SdkSend \/ SdkAnswer \/ SdkEOF
  BY <1>3 DEF SdkSend, SdkAnswer, SdkEOF, vars, Owed, Exited
<1>4. CASE SdkPanic \/ SdkExit \/ SdkStderr
  BY <1>4 DEF SdkPanic, SdkExit, SdkStderr, PluginExit, EndsAs, PluginFloodsStderr, plugVars, sdkVars,
              Owed, Exited
<1> QED
  BY <1>1, <1>2, <1>3, <1>4 DEF SdkNext

(* The host and an SDK plugin never wait for each other, without a deadline *)
(* and whatever the sizes of pipes, limits and frames: until the call has   *)
(* returned, a guard of the host's or of the plugin's holds.                *)
THEOREM NeverStuck == SdkSafetySpec => [](host = "done" \/ HostCanMove \/ SdkCanMove)
<1>1. SdkInit => Owed
  BY DEF SdkInit, Init, Owed
<1>2. IInv /\ SdkIInv /\ Owed /\ [EnvNext \/ SdkNext]_allVars => Owed'
  <2> SUFFICES ASSUME IInv, SdkIInv, Owed, [EnvNext \/ SdkNext]_allVars PROVE Owed'
    OBVIOUS
  <2>1. CASE UNCHANGED allVars
    BY <2>1 DEF allVars, vars, sdkVars, Owed, Exited
  <2> QED
    BY <2>1, OwedByEnv, OwedBySdk
<1>3. IInv /\ SdkIInv /\ Owed => host = "done" \/ HostCanMove \/ SdkCanMove
  <2> SUFFICES ASSUME IInv, SdkIInv, Owed, host # "done", ~HostCanMove PROVE SdkCanMove
    OBVIOUS
  <2> USE PluginInvocationAssumption DEF PluginInvocationAssumption
  <2>0. /\ TypeOK /\ Positions /\ SdkTypes
        /\ Len(out) \in Nat /\ Len(inp) \in Nat /\ taken \in Nat /\ read \in Nat
        /\ read <= Len(out) /\ taken <= Len(inp)
    BY DEF IInv, SdkIInv, TypeOK, Positions
  <2>1. proc = "running" /\ host \in {"writing", "reading", "waiting"}
    BY <2>0 DEF SdkIInv, Held, IInv, Processes, HostCanMove, Exited, TypeOK
  <2>2. CASE host = "writing"
    <3>1. taken < Len(inp)
      BY <2>0, <2>2 DEF HostCanMove
    <3>2. sdk \in {"root", "awaiting"}
      BY <2>0, <2>2 DEF SdkIInv, Busy, SdkTypes
    <3> QED
      BY <2>1, <3>1, <3>2 DEF SdkCanMove
  <2>3. CASE host = "reading"
    <3>1. read = Len(out) /\ read < StdoutLimit
      BY <2>0, <2>3 DEF HostCanMove
    <3>2. CASE sdk = "root"
      BY <2>1, <2>3, <3>2 DEF SdkCanMove, Owed
    <3>3. CASE sdk = "awaiting"
      <4>1. call = read /\ call > 0 /\ out[call] = "hostCall"
        BY <3>1, <3>3 DEF SdkIInv, Awaiting, Owed
      <4>2. Written(call)
        BY <2>0, <2>3, <4>1 DEF IInv, AnsweredInTurn
      <4>3. PICK i \in 1 .. Len(inp) : inp[i] = Reply(call)
        BY <4>2 DEF Written
      <4>4. i > taken
        BY <2>0, <3>3, <4>3 DEF Owed
      <4> QED
        BY <2>0, <2>1, <3>3, <4>4 DEF SdkCanMove
    <3>4. CASE sdk \in {"handler", "writing", "returned"}
      BY <2>0, <2>1, <3>1, <3>4 DEF SdkCanMove
    <3> QED
      BY <2>0, <3>2, <3>3, <3>4 DEF SdkTypes
  <2>4. CASE host = "waiting"
    <3>1. ~Exited
      BY <2>4 DEF HostCanMove
    <3>2. result \in Answers /\ read > 0 /\ out[read] = result
      BY <2>4, <3>1 DEF Owed, IInv, Verdicts
    <3>3. sdk = "returned"
      BY <2>0, <3>2 DEF SdkIInv, Output
    <3> QED
      BY <2>1, <3>3 DEF SdkCanMove
  <2> QED
    BY <2>1, <2>2, <2>3, <2>4
<1>4. QED
  BY <1>1, <1>2, <1>3, SdkInductiveInvariant, PTL DEF SdkSafetySpec

(* An invocation of an SDK plugin is a remote call, too: it is one of a      *)
(* plugin (SdkStepsAreSteps), and any plugin's is (Implementation).          *)
THEOREM SdkCallIsRemote == SdkSafetySpec => ImplementsRemoteCall
BY SdkStepsAreSteps, Implementation, PTL

=============================================================================
