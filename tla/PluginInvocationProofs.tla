----------------------- MODULE PluginInvocationProofs -----------------------
(***************************************************************************)
(* Proofs about PluginInvocation, for pipes, limits and frames of any      *)
(* size: its types, AnsweredInTurn, and that it implements RemoteCall.     *)
(***************************************************************************)
EXTENDS PluginInvocation, TLAPS

(***************************************************************************)
(* The inductive invariant.  Positions stay inside the logs.  While the    *)
(* host encodes, it encodes the root request or the reply to the frame it  *)
(* has just read; every reply in stdin is to a frame it has read, and none *)
(* to one it still serves.  It never reads past a closing frame, and an    *)
(* answer it holds is that frame.                                          *)
(***************************************************************************)
Positions ==
  /\ read <= Len(out) /\ taken <= Len(inp)
  /\ host = "start" => read = 0

Encoding ==
  host = "writing" =>
    /\ outbox.left > 0
    /\ \/ outbox.frame = Root /\ read = 0
       \/ /\ read > 0
          /\ outbox.frame = Reply(read)
          /\ out[read] \in Requests
          /\ ~Written(read)

Serving ==
  host = "serving" => read > 0 /\ out[read] \in {"hostCall", "event"} /\ ~Written(read)

RepliesRead ==
  \A i \in 1 .. Len(inp) : inp[i].kind = "reply" => inp[i].re \in 1 .. read

AnsweredBefore ==
  host \in {"writing", "serving"} => \A k \in 1 .. read - 1 : out[k] = "hostCall" => Written(k)

Verdicts ==
  /\ host \in {"start", "writing", "reading", "serving"} => result = "none"
  /\ host \in {"writing", "reading", "serving"} => read = 0 \/ out[read] \notin Closing
  /\ host = "killing" => result = "error"
  /\ host \in {"waiting", "draining", "done"} =>
       result = "error" \/ (result \in Answers /\ read > 0 /\ out[read] = result)

Processes ==
  /\ host = "start" => proc = "none"
  /\ host \in {"writing", "reading", "serving", "killing", "waiting"} => proc # "none"
  /\ host = "draining" => Exited
  /\ host = "done" => proc # "running"
  /\ proc = "none" => ends = {}

IInv ==
  /\ TypeOK
  /\ Positions
  /\ Encoding
  /\ Serving
  /\ RepliesRead
  /\ AnsweredInTurn
  /\ AnsweredBefore
  /\ Verdicts
  /\ Processes

-----------------------------------------------------------------------------
(* A pipe's log only grows: what was written stays where it was.            *)
LEMMA AppendKeeps ==
  ASSUME NEW S, NEW s \in Seq(S), NEW e \in S
  PROVE  /\ Append(s, e) \in Seq(S)
         /\ Len(Append(s, e)) = Len(s) + 1
         /\ \A i \in 1 .. Len(s) : Append(s, e)[i] = s[i]
         /\ Append(s, e)[Len(s) + 1] = e
  OBVIOUS

(* The chunks the host writes and the plugin writes are of their types.     *)
LEMMA ChunkTypes ==
  /\ HostPart \in HostChunk /\ Root \in HostChunk
  /\ \A k \in 0 .. StdoutLimit : Reply(k) \in HostChunk
  /\ \A k \in 0 .. StdoutLimit : Reply(k).kind = "reply" /\ Reply(k).re = k
  /\ HostPart.kind = "part" /\ Root.kind = "root"
  BY PluginInvocationAssumption DEF PluginInvocationAssumption, HostPart, Root, Reply, HostChunk

(* Nothing was read or written, and the host is not newly past a frame.     *)
LEMMA InTurnKept ==
  ASSUME AnsweredInTurn, UNCHANGED <<inp, out, read>>,
         host' = "reading" \/ result' \in Answers => host = "reading" \/ result \in Answers
  PROVE  AnsweredInTurn'
BY DEF AnsweredInTurn, Written, Answers

(* What the host heard is not a host call.                                  *)
LEMMA InTurnHeard ==
  ASSUME AnsweredInTurn, UNCHANGED <<inp, out>>, read \in Nat, read' = read + 1,
         host = "reading", out[read + 1] # "hostCall"
  PROVE  AnsweredInTurn'
BY DEF AnsweredInTurn, Written

(* Types survive a step: what the host encodes keeps its size positive.     *)
LEMMA TypeStep ==
  ASSUME TypeOK, Encoding, [Next]_vars
  PROVE  TypeOK'
<1> USE PluginInvocationAssumption DEF PluginInvocationAssumption
<1> USE DEF TypeOK, Answers
<1>1. CASE StartFails
  BY <1>1 DEF StartFails
<1>2. CASE Start
  BY <1>2, ChunkTypes DEF Start, Sending
<1>3. CASE HostWrite
  <2>1. outbox' \in [frame : HostChunk, left : 0 .. MaxFrame]
    <3>1. CASE outbox.left = 1
      BY <1>3, <3>1, ChunkTypes DEF HostWrite, Idle
    <3>2. CASE outbox.left # 1
      BY <1>3, <3>2 DEF HostWrite, Encoding
    <3>3. QED
      BY <3>1, <3>2
  <2>2. inp' \in Seq(HostChunk)
    BY <1>3, ChunkTypes DEF HostWrite
  <2>3. QED
    BY <1>3, <2>1, <2>2 DEF HostWrite
<1>4. CASE HostWriteFails
  BY <1>4, ChunkTypes DEF HostWriteFails, CloseWith, Idle
<1>5. CASE HearOn \/ HearCall
  BY <1>5 DEF HearOn, HearCall, Hearing
<1>6. CASE HearMisdirected
  BY <1>6, ChunkTypes DEF HearMisdirected, Hearing, Sending
<1>7. CASE HearAnswer
  BY <1>7, ChunkTypes DEF HearAnswer, Hearing, CloseWith, Idle
<1>8. CASE HearRejected
  BY <1>8, ChunkTypes DEF HearRejected, Hearing, CloseWith, Idle
<1>9. CASE HearGarbage
  BY <1>9 DEF HearGarbage, Hearing, DecodeFails
<1>10. CASE HearEOF
  BY <1>10 DEF HearEOF, DecodeFails
<1>11. CASE HearTooMuch
  BY <1>11 DEF HearTooMuch
<1>12. CASE HostKill
  BY <1>12 DEF HostKill, Kill, EndsAs
<1>13. CASE HostReap \/ HostWait
  BY <1>13 DEF HostReap, HostWait
<1>14. CASE Expire
  BY <1>14 DEF Expire, hostVars, plugVars
<1>15. CASE Cancel
  BY <1>15 DEF Cancel, Kill, EndsAs, hostVars, plugVars
<1>16. CASE PluginWrite
  BY <1>16 DEF PluginWrite, hostVars
<1>17. CASE PluginRead
  BY <1>17 DEF PluginRead, hostVars
<1>18. CASE PluginFloodsStderr \/ PluginCloses
  BY <1>18 DEF PluginFloodsStderr, PluginCloses, hostVars, plugVars
<1>19. CASE PluginExit
  BY <1>19 DEF PluginExit, EndsAs, hostVars, plugVars
<1>20. CASE Serve
  BY <1>20, ChunkTypes DEF Serve, Sending
<1>21. CASE UNCHANGED vars
  BY <1>21 DEF vars
<1>22. QED
  BY <1>1, <1>2, <1>3, <1>4, <1>5, <1>6, <1>7, <1>8, <1>9, <1>10, <1>11, <1>12,
     <1>13, <1>14, <1>15, <1>16, <1>17, <1>18, <1>19, <1>20, <1>21
     DEF Next, HostNext, PluginNext

LEMMA InitIInv == Init => IInv
<1> SUFFICES ASSUME Init PROVE IInv
  OBVIOUS
<1> USE PluginInvocationAssumption DEF PluginInvocationAssumption
<1>1. TypeOK
  <2>1. outbox \in [frame : HostChunk, left : 0 .. MaxFrame]
    BY ChunkTypes DEF Init, Idle
  <2>2. inp \in Seq(HostChunk) /\ out \in Seq(PluginChunk)
    BY DEF Init
  <2>3. taken \in Nat /\ read \in 0 .. StdoutLimit
    BY DEF Init
  <2>4. QED
    BY <2>1, <2>2, <2>3 DEF Init, TypeOK
<1>2. Positions /\ Encoding /\ Serving /\ RepliesRead /\ AnsweredBefore
  BY DEF Init, Positions, Encoding, Serving, RepliesRead, AnsweredBefore
<1>3. AnsweredInTurn
  BY DEF Init, AnsweredInTurn, Answers
<1>4. Verdicts /\ Processes
  BY DEF Init, Verdicts, Processes
<1>5. QED
  BY <1>1, <1>2, <1>3, <1>4 DEF IInv

LEMMA IInvStep ==
  ASSUME IInv, [Next]_vars
  PROVE  IInv'
<1>1. TypeOK'
  BY TypeStep DEF IInv
<1> USE <1>1 DEF IInv, TypeOK, Answers, Requests, Part, Closing, Rejected
<1>2. CASE HostWrite
  <2> USE <1>2 DEF HostWrite
  <2> DEFINE chunk == IF outbox.left = 1 THEN outbox.frame ELSE HostPart
  <2>1. chunk \in HostChunk /\ inp' = Append(inp, chunk)
    BY ChunkTypes
  <2>2. /\ Len(inp') = Len(inp) + 1
        /\ \A i \in 1 .. Len(inp) : inp'[i] = inp[i]
        /\ inp'[Len(inp) + 1] = chunk
    BY <2>1, AppendKeeps
  <2> HIDE DEF chunk
  <2>3. \A k : Written(k) => Written(k)'
    BY <2>2 DEF Written
  <2>4. chunk.kind # "reply" \/ (chunk = Reply(read) /\ chunk.re = read /\ read > 0)
    BY ChunkTypes DEF chunk, Encoding
  <2>5. outbox.left # 1 => chunk = HostPart
    BY DEF chunk
  <2>6. Positions' /\ RepliesRead'
    <3>1. Positions'
      BY <2>2 DEF Positions
    <3>2. ASSUME NEW i \in 1 .. Len(inp'), inp'[i].kind = "reply"
          PROVE  inp'[i].re \in 1 .. read
      BY <2>2, <2>4, <3>2 DEF RepliesRead
    <3>3. QED
      BY <3>1, <3>2 DEF RepliesRead
  <2>7. Encoding'
    <3> SUFFICES ASSUME outbox.left # 1 PROVE Encoding'
      BY DEF Encoding
    <3>1. outbox' = [outbox EXCEPT !.left = @ - 1] /\ outbox.left > 1
      BY DEF Encoding
    <3>2. outbox'.left > 0 /\ outbox'.frame = outbox.frame
      BY <3>1
    <3>3. ~Written(read) => ~Written(read)'
      BY <2>2, <2>5, ChunkTypes DEF Written
    <3>4. QED
      BY <3>2, <3>3 DEF Encoding
  <2>8. AnsweredBefore'
    BY <2>3 DEF AnsweredBefore
  <2>9. AnsweredInTurn'
    <3>1. host' = "reading" => \A k \in 1 .. read : out[k] = "hostCall" => Written(k)'
      <4> SUFFICES ASSUME outbox.left = 1, NEW k \in 1 .. read, out[k] = "hostCall"
                   PROVE  Written(k)'
        OBVIOUS
      <4>1. CASE k = read
        BY <4>1, <2>2 DEF chunk, Encoding, Written
      <4>2. CASE k # read
        BY <4>2, <2>3 DEF AnsweredBefore
      <4>3. QED
        BY <4>1, <4>2
    <3>2. \A i, j \in 1 .. Len(inp') :
            inp'[i].kind = "reply" /\ inp'[i] = inp'[j] => i = j
      <4>1. chunk.kind = "reply" => \A i \in 1 .. Len(inp) : inp[i] # chunk
        BY <2>4, <2>5, ChunkTypes DEF Encoding, Written, chunk
      <4>2. QED
        BY <4>1, <2>2 DEF AnsweredInTurn
    <3>3. QED
      BY <3>1, <3>2 DEF AnsweredInTurn, Verdicts
  <2>10. Verdicts' /\ Processes' /\ Serving'
    BY DEF Verdicts, Processes, Exited, Serving
  <2>11. QED
    BY <2>6, <2>7, <2>8, <2>9, <2>10
<1>3. CASE StartFails
  <2> USE <1>3 DEF StartFails
  <2>1. Positions' /\ Encoding' /\ Serving' /\ RepliesRead' /\ AnsweredBefore'
    BY DEF Positions, Encoding, Serving, RepliesRead, AnsweredBefore, AnsweredInTurn, Verdicts, Written
  <2>2. AnsweredInTurn'
    BY DEF AnsweredInTurn, AnsweredBefore, Written, Verdicts
  <2>3. Verdicts' /\ Processes'
    BY DEF Verdicts, Processes, Exited
  <2>4. QED
    BY <2>1, <2>2, <2>3
<1>4. CASE Start
  <2> USE <1>4 DEF Start, Sending, Root, HostPart
  <2>1. Positions' /\ Encoding' /\ Serving' /\ RepliesRead' /\ AnsweredBefore'
    BY DEF Positions, Encoding, Serving, RepliesRead, AnsweredBefore, AnsweredInTurn, Verdicts, Written
  <2>2. AnsweredInTurn'
    BY DEF AnsweredInTurn, AnsweredBefore, Written, Verdicts
  <2>3. Verdicts' /\ Processes'
    BY DEF Verdicts, Processes, Positions
  <2>4. QED
    BY <2>1, <2>2, <2>3
<1>5. CASE HostWriteFails
  <2> USE <1>5 DEF HostWriteFails, CloseWith, Idle
  <2>1. Positions' /\ Encoding' /\ Serving' /\ RepliesRead' /\ AnsweredBefore'
    BY DEF Positions, Encoding, Serving, RepliesRead, AnsweredBefore, AnsweredInTurn, Verdicts, Written
  <2>2. AnsweredInTurn'
    BY DEF AnsweredInTurn, AnsweredBefore, Written, Verdicts
  <2>3. Verdicts' /\ Processes'
    BY DEF Verdicts, Processes, Exited
  <2>4. QED
    BY <2>1, <2>2, <2>3
<1>6. CASE HearOn
  <2> USE <1>6 DEF HearOn, Hearing
  <2>1. Positions' /\ Encoding' /\ Serving' /\ RepliesRead' /\ AnsweredBefore'
    BY DEF Positions, Encoding, Serving, RepliesRead, AnsweredBefore, AnsweredInTurn, Verdicts, Written
  <2>2. AnsweredInTurn'
    BY InTurnHeard DEF Rejected, Requests, Part
  <2>3. Verdicts' /\ Processes'
    BY DEF Verdicts, Processes, Exited
  <2>4. QED
    BY <2>1, <2>2, <2>3
<1>7. CASE HearMisdirected \/ HearCall
  <2> USE <1>7 DEF HearMisdirected, HearCall, Hearing, Sending
  <2>1. ~Written(read + 1)
    BY ChunkTypes DEF RepliesRead, Written
  <2>2. Positions' /\ RepliesRead'
    BY DEF Positions, RepliesRead
  <2>7. AnsweredBefore'
    <3>1. \A k \in 1 .. read : out[k] = "hostCall" => Written(k)
      BY DEF AnsweredInTurn
    <3>2. read' - 1 = read /\ UNCHANGED <<inp, out>>
      OBVIOUS
    <3>3. QED
      BY <3>1, <3>2 DEF AnsweredBefore, Written
  <2>3. Encoding' /\ Serving'
    BY <2>1 DEF Encoding, Serving, Written
  <2>4. AnsweredInTurn'
    BY DEF AnsweredInTurn, Verdicts
  <2>5. Verdicts' /\ Processes'
    BY DEF Verdicts, Processes, Exited
  <2>6. QED
    BY <2>2, <2>7, <2>3, <2>4, <2>5
<1>8. CASE HearAnswer
  <2> USE <1>8 DEF HearAnswer, Hearing, CloseWith
  <2>1. Positions' /\ Encoding' /\ Serving' /\ RepliesRead' /\ AnsweredBefore'
    BY DEF Positions, Encoding, Serving, RepliesRead, AnsweredBefore, AnsweredInTurn, Verdicts, Written
  <2>2. AnsweredInTurn'
    BY InTurnHeard DEF Rejected, Requests, Part
  <2>3. Verdicts' /\ Processes'
    BY DEF Verdicts, Processes, Exited
  <2>4. QED
    BY <2>1, <2>2, <2>3
<1>9. CASE HearRejected
  <2> USE <1>9 DEF HearRejected, Hearing, CloseWith
  <2>1. Positions' /\ Encoding' /\ Serving' /\ RepliesRead' /\ AnsweredBefore'
    BY DEF Positions, Encoding, Serving, RepliesRead, AnsweredBefore, AnsweredInTurn, Verdicts, Written
  <2>2. AnsweredInTurn'
    BY InTurnHeard DEF Rejected, Requests, Part
  <2>3. Verdicts' /\ Processes'
    BY DEF Verdicts, Processes, Exited
  <2>4. QED
    BY <2>1, <2>2, <2>3
<1>10. CASE HearGarbage
  <2> USE <1>10 DEF HearGarbage, Hearing, DecodeFails
  <2>1. Positions' /\ Encoding' /\ Serving' /\ RepliesRead' /\ AnsweredBefore'
    BY DEF Positions, Encoding, Serving, RepliesRead, AnsweredBefore, AnsweredInTurn, Verdicts, Written
  <2>2. AnsweredInTurn'
    BY InTurnHeard DEF Rejected, Requests, Part
  <2>3. Verdicts' /\ Processes'
    BY DEF Verdicts, Processes, Exited
  <2>4. QED
    BY <2>1, <2>2, <2>3
<1>11. CASE HearEOF
  <2> USE <1>11 DEF HearEOF, DecodeFails, Exited
  <2>1. Positions' /\ Encoding' /\ Serving' /\ RepliesRead' /\ AnsweredBefore'
    BY DEF Positions, Encoding, Serving, RepliesRead, AnsweredBefore, AnsweredInTurn, Verdicts, Written
  <2>2. AnsweredInTurn'
    BY InTurnKept
  <2>3. Verdicts' /\ Processes'
    BY DEF Verdicts, Processes, Exited
  <2>4. QED
    BY <2>1, <2>2, <2>3
<1>12. CASE HearTooMuch
  <2> USE <1>12 DEF HearTooMuch
  <2>1. Positions' /\ Encoding' /\ Serving' /\ RepliesRead' /\ AnsweredBefore'
    BY DEF Positions, Encoding, Serving, RepliesRead, AnsweredBefore, AnsweredInTurn, Verdicts, Written
  <2>2. AnsweredInTurn'
    BY InTurnKept
  <2>3. Verdicts' /\ Processes'
    BY DEF Verdicts, Processes, Exited
  <2>4. QED
    BY <2>1, <2>2, <2>3
<1>13. CASE HostKill
  <2> USE <1>13 DEF HostKill, Kill, EndsAs
  <2>1. Positions' /\ Encoding' /\ Serving' /\ RepliesRead' /\ AnsweredBefore'
    BY DEF Positions, Encoding, Serving, RepliesRead, AnsweredBefore, AnsweredInTurn, Verdicts, Written
  <2>2. AnsweredInTurn'
    BY InTurnKept
  <2>3. Verdicts' /\ Processes'
    BY DEF Verdicts, Processes, Exited
  <2>4. QED
    BY <2>1, <2>2, <2>3
<1>14. CASE HostReap \/ HostWait
  <2> USE <1>14 DEF HostReap, HostWait, Exited
  <2>1. Positions' /\ Encoding' /\ Serving' /\ RepliesRead' /\ AnsweredBefore'
    BY DEF Positions, Encoding, Serving, RepliesRead, AnsweredBefore, AnsweredInTurn, Verdicts, Written
  <2>2. AnsweredInTurn'
    BY DEF AnsweredInTurn, AnsweredBefore, Written, Verdicts
  <2>3. Verdicts' /\ Processes'
    BY DEF Verdicts, Processes, Exited
  <2>4. QED
    BY <2>1, <2>2, <2>3
<1>15. CASE Expire
  <2> USE <1>15 DEF Expire, hostVars, plugVars
  <2>1. Positions' /\ Encoding' /\ Serving' /\ RepliesRead' /\ AnsweredBefore'
    BY DEF Positions, Encoding, Serving, RepliesRead, AnsweredBefore, AnsweredInTurn, Verdicts, Written
  <2>2. AnsweredInTurn'
    BY InTurnKept
  <2>3. Verdicts' /\ Processes'
    BY DEF Verdicts, Processes, Exited
  <2>4. QED
    BY <2>1, <2>2, <2>3
<1>16. CASE Cancel
  <2> USE <1>16 DEF Cancel, Kill, EndsAs, hostVars, plugVars
  <2>1. Positions' /\ Encoding' /\ Serving' /\ RepliesRead' /\ AnsweredBefore'
    BY DEF Positions, Encoding, Serving, RepliesRead, AnsweredBefore, AnsweredInTurn, Verdicts, Written
  <2>2. AnsweredInTurn'
    BY InTurnKept
  <2>3. Verdicts' /\ Processes'
    BY DEF Verdicts, Processes, Exited
  <2>4. QED
    BY <2>1, <2>2, <2>3
<1>17. CASE PluginWrite
  <2>1. PICK c \in PluginChunk : out' = Append(out, c)
    BY <1>17 DEF PluginWrite
  <2>2. UNCHANGED <<host, outbox, inp, read, result, taken, proc, ends>>
    BY <1>17 DEF PluginWrite, hostVars
  <2>3. Len(out') = Len(out) + 1 /\ \A k \in 1 .. read : out'[k] = out[k]
    BY <2>1, AppendKeeps DEF Positions
  <2>4. read > 0 => out'[read] = out[read]
    BY <2>3, read \in Nat, PluginInvocationAssumption DEF PluginInvocationAssumption
  <2>5. \A k : Written(k)' <=> Written(k)
    BY <2>2 DEF Written
  <2>6. Positions' /\ Encoding' /\ Serving'
    BY <2>2, <2>3, <2>4, <2>5 DEF Positions, Encoding, Serving
  <2>6a. RepliesRead' /\ AnsweredBefore'
    BY <2>2, <2>3, <2>5 DEF RepliesRead, AnsweredBefore
  <2>7. AnsweredInTurn'
    BY <2>2, <2>3, <2>5 DEF AnsweredInTurn
  <2>8. Verdicts' /\ Processes'
    BY <2>2, <2>4 DEF Verdicts, Processes, Exited
  <2>9. QED
    BY <2>6, <2>6a, <2>7, <2>8
<1>18. CASE PluginRead
  <2> USE <1>18 DEF PluginRead, hostVars
  <2>1. Positions' /\ Encoding' /\ Serving' /\ RepliesRead' /\ AnsweredBefore'
    BY DEF Positions, Encoding, Serving, RepliesRead, AnsweredBefore, AnsweredInTurn, Verdicts, Written
  <2>2. AnsweredInTurn'
    BY InTurnKept
  <2>3. Verdicts' /\ Processes'
    BY DEF Verdicts, Processes, Exited
  <2>4. QED
    BY <2>1, <2>2, <2>3
<1>19. CASE PluginFloodsStderr \/ PluginCloses
  <2> USE <1>19 DEF PluginFloodsStderr, PluginCloses, hostVars, plugVars
  <2>1. Positions' /\ Encoding' /\ Serving' /\ RepliesRead' /\ AnsweredBefore'
    BY DEF Positions, Encoding, Serving, RepliesRead, AnsweredBefore, AnsweredInTurn, Verdicts, Written
  <2>2. AnsweredInTurn'
    BY InTurnKept
  <2>3. Verdicts' /\ Processes'
    BY DEF Verdicts, Processes, Exited
  <2>4. QED
    BY <2>1, <2>2, <2>3
<1>20. CASE PluginExit
  <2> USE <1>20 DEF PluginExit, EndsAs, hostVars, plugVars
  <2>1. Positions' /\ Encoding' /\ Serving' /\ RepliesRead' /\ AnsweredBefore'
    BY DEF Positions, Encoding, Serving, RepliesRead, AnsweredBefore, AnsweredInTurn, Verdicts, Written
  <2>2. AnsweredInTurn'
    BY InTurnKept
  <2>3. Verdicts' /\ Processes'
    BY DEF Verdicts, Processes, Exited
  <2>4. QED
    BY <2>1, <2>2, <2>3
<1>21. CASE UNCHANGED vars
  BY <1>21 DEF vars, Positions, Encoding, Serving, RepliesRead, AnsweredBefore, AnsweredInTurn,
               Verdicts, Processes, Exited, Written
<1>22. CASE Serve
  <2> USE <1>22 DEF Serve, Sending, Serving
  <2>1. Positions' /\ Encoding' /\ Serving' /\ RepliesRead' /\ AnsweredBefore'
    BY DEF Positions, Encoding, RepliesRead, AnsweredBefore, Verdicts, Written
  <2>2. AnsweredInTurn'
    BY DEF AnsweredInTurn, AnsweredBefore, Written, Verdicts
  <2>3. Verdicts' /\ Processes'
    BY DEF Verdicts, Processes, Exited
  <2>4. QED
    BY <2>1, <2>2, <2>3
<1>23. QED
  BY <1>2, <1>3, <1>4, <1>5, <1>6, <1>7, <1>8, <1>9, <1>10, <1>11, <1>12, <1>13, <1>14, <1>15, <1>16, <1>17, <1>18, <1>19, <1>20, <1>21, <1>22 DEF Next, HostNext, PluginNext

THEOREM InductiveInvariant == SafetySpec => []IInv
BY InitIInv, IInvStep, PTL DEF SafetySpec

(* Every variable keeps its type, in every invocation of any plugin.        *)
THEOREM Typing == SafetySpec => []TypeOK
BY InductiveInvariant, PTL DEF IInv

(* The host answers every host call it reads once and in full before it     *)
(* reads on (AnsweredInTurn).                                               *)
THEOREM EveryCallAnswered == SafetySpec => []AnsweredInTurn
BY InductiveInvariant, PTL DEF IInv

-----------------------------------------------------------------------------
(* Every invocation, with any plugin, implements RemoteCall.  A read of a   *)
(* chunk is Hear, the start and the end of the call are Begin or Refuse     *)
(* and Return, the process's own end and both kills are Die, and whatever   *)
(* happens on stdin is invisible.                                           *)
THEOREM Implementation == SafetySpec => ImplementsRemoteCall
<1>1. Init => RC!Init
  BY DEF Init, RC!Init, Phase, Answer
<1>2. IInv /\ [Next]_vars => [RC!Next]_<<Phase, out, read, proc = "running", Answer>>
  <2> SUFFICES ASSUME IInv, [Next]_vars
               PROVE  RC!Next \/ UNCHANGED <<Phase, out, read, proc = "running", Answer>>
    OBVIOUS
  <2> USE DEF IInv, TypeOK, Phase, Answer, RC!Next
  <2>1. CASE StartFails
    BY <2>1 DEF StartFails, RC!Refuse
  <2>2. CASE Start
    BY <2>2 DEF Start, RC!Begin
  <2>3. CASE \/ HostWrite \/ HostWriteFails \/ Serve \/ HearTooMuch \/ HostReap
             \/ PluginRead \/ PluginFloodsStderr \/ PluginCloses
    BY <2>3 DEF HostWrite, HostWriteFails, Serve, HearTooMuch, HostReap, PluginRead,
                PluginFloodsStderr, PluginCloses, CloseWith, hostVars, plugVars
  <2>4. CASE HearOn \/ HearMisdirected \/ HearCall \/ HearAnswer \/ HearRejected \/ HearGarbage
    <3>1. ~RC!Finished
      BY <2>4 DEF HearOn, HearMisdirected, HearCall, HearAnswer, HearRejected, HearGarbage, Hearing,
                  RC!Finished, Verdicts
    <3>2. RC!Hear
      BY <2>4, <3>1 DEF HearOn, HearMisdirected, HearCall, HearAnswer, HearRejected, HearGarbage,
                        Hearing, CloseWith, DecodeFails, RC!Hear
    <3>3. QED
      BY <3>2
  <2>5. CASE HearEOF
    BY <2>5 DEF HearEOF, DecodeFails
  <2>6. CASE HostKill \/ Cancel
    BY <2>6 DEF HostKill, Cancel, Kill, EndsAs, hostVars, plugVars, RC!Die
  <2>7. CASE HostWait
    BY <2>7 DEF HostWait, Exited, Verdicts, Processes, Answers, Closing, RC!Return, RC!Finished
  <2>8. CASE Expire
    BY <2>8 DEF Expire, hostVars, plugVars
  <2>9. CASE PluginWrite
    BY <2>9 DEF PluginWrite, Processes, hostVars, RC!Say
  <2>10. CASE PluginExit
    BY <2>10 DEF PluginExit, EndsAs, hostVars, plugVars, RC!Die
  <2>11. CASE UNCHANGED vars
    BY <2>11 DEF vars
  <2>12. QED
    BY <2>1, <2>2, <2>3, <2>4, <2>5, <2>6, <2>7, <2>8, <2>9, <2>10, <2>11
       DEF Next, HostNext, PluginNext
<1>3. QED
  BY <1>1, <1>2, InductiveInvariant, PTL
     DEF SafetySpec, ImplementsRemoteCall, RC!Spec, RC!rcvars

=============================================================================
