-------------------------- MODULE BundlePoolProofs --------------------------
(***************************************************************************)
(* Proofs about BundlePool, for any number of entries and workers.         *)
(***************************************************************************)
EXTENDS BundlePool, TLAPS

(* What wg.Wait waits for. *)
Gone == \A w \in Workers : pc[w] = "quit"

Handing(w, i) == pc[w] = "build" /\ job[w] = i

(* The flags follow one another: an error is recorded only when the pool's   *)
(* context is done, which needs the caller.                                 *)
Flags == (done => caller) /\ (err => done)

(* The sender stops early only with an error, and past the pool nobody runs. *)
Stages ==
  /\ sender = "sending" => next <= Entries
  /\ sender # "sending" => next = Entries + 1 \/ err
  /\ sender \in {"intent", "failed", "returned"} => Gone
  /\ sender \in {"intent", "returned"} => ~err
  /\ sender = "failed" => err

(* An entry that was handed out is built or being built. *)
Covered ==
  \A i \in Slots : i < next => out[i] # "none" \/ \E w \in Workers : Handing(w, i)

(* ... by one worker, into a slot nobody has written. *)
Claimed ==
  /\ \A i \in Slots : i >= next => out[i] = "none"
  /\ \A w \in Workers : pc[w] = "build" => job[w] < next /\ out[job[w]] = "none"
  /\ \A v, w \in Workers : pc[v] = "build" /\ pc[w] = "build" /\ job[v] = job[w] => v = w

(* A bundle that was cut short has been noticed, or its worker will notice. *)
Noticed ==
  \A i \in Slots : out[i] = "cut" =>
    err \/ (done /\ \E w \in Workers : pc[w] = "check" /\ job[w] = i)

IInv == TypeOK /\ Flags /\ Stages /\ Covered /\ Claimed /\ Noticed

-----------------------------------------------------------------------------
(* There are no more workers than entries. *)
LEMMA WorkersWork ==
  /\ workerCount \in Nat
  /\ Entries # 0 => 1 \in Slots
  /\ Entries = 0 => Workers = {}
  BY BundlePoolAssumption DEF workerCount, Workers, Slots

(* The invariant holds at the start. *)
LEMMA InitIInv == Init => IInv
<1> SUFFICES ASSUME Init PROVE IInv
  OBVIOUS
<1> USE DEF Init
<1>1. TypeOK
  <2>1. /\ next \in 1 .. Entries + 1
        /\ intent \in Seq(Bundle)
    BY BundlePoolAssumption
  <2>2. job \in [Workers -> Slots]
    BY WorkersWork
  <2> QED
    BY <2>1, <2>2 DEF TypeOK
<1>2. Stages
  BY BundlePoolAssumption, WorkersWork DEF Stages, Gone
<1> QED
  BY <1>1, <1>2 DEF IInv, Flags, Covered, Claimed, Noticed, Handing, Slots

(* Every step keeps the types. *)
LEMMA TypeStep == TypeOK /\ Stages /\ [Next]_vars => TypeOK'
<1> SUFFICES ASSUME TypeOK, Stages, [Next]_vars PROVE TypeOK'
  OBVIOUS
<1> USE BundlePoolAssumption DEF TypeOK
<1>1. ASSUME NEW w \in Workers, Handoff(w) PROVE TypeOK'
  <2>1. next \in Slots /\ next' \in 1 .. Entries + 1
    BY <1>1 DEF Handoff, Stages, Slots
  <2> QED
    BY <1>1, <2>1 DEF Handoff, Goto
<1>2. ASSUME NEW w \in Workers, Build(w) PROVE TypeOK'
  BY <1>2 DEF Build, Goto, Fetched, Bundle
<1>3. ASSUME NEW w \in Workers, Stop(w) \/ Drained(w) \/ Check(w) PROVE TypeOK'
  BY <1>3 DEF Stop, Drained, Check, Goto
<1>4. CASE Intent
  <2>1. PICK b \in Bundle : intent' = Append(intent, b)
    BY <1>4 DEF Intent, Fetched, Bundle
  <2>2. intent' \in Seq(Bundle)
    BY <2>1
  <2> QED
    BY <1>4, <2>2 DEF Intent
<1>5. CASE Cancel \/ Propagate \/ SenderStops \/ Close \/ Wait \/ Return
  BY <1>5 DEF Cancel, Propagate, SenderStops, Close, Wait, Return
<1>6. CASE UNCHANGED vars
  BY <1>6 DEF vars
<1> QED
  BY <1>1, <1>2, <1>3, <1>4, <1>5, <1>6 DEF Next, Sender, Worker

(* Every step keeps the invariant. *)
LEMMA IInvStep == IInv /\ [Next]_vars => IInv'
<1> SUFFICES ASSUME IInv, [Next]_vars PROVE IInv'
  OBVIOUS
<1>1. TypeOK'
  BY TypeStep DEF IInv
<1> USE BundlePoolAssumption, <1>1
<1>2. ASSUME NEW w \in Workers, Handoff(w) PROVE IInv'
  <2> USE <1>2 DEF IInv, Handoff, Goto, TypeOK
  <2>1. next \in Slots /\ out[next] = "none"
    BY DEF Stages, Slots, Claimed
  <2>2. Flags' /\ Stages'
    BY DEF Flags, Stages, Gone
  <2>3. \A i \in Slots : i < next' => i < next \/ i = next
    BY DEF Slots
  <2>4. pc'[w] = "build" /\ job'[w] = next
    OBVIOUS
  <2>5. ASSUME NEW v \in Workers, pc[v] = "build" PROVE pc'[v] = "build" /\ job'[v] = job[v]
    BY <2>5
  <2>6. Covered'
    BY <2>3, <2>4, <2>5 DEF Covered, Handing
  <2>7. Claimed'
    BY <2>1 DEF Claimed, Slots
  <2>8. ASSUME NEW v \in Workers, pc[v] = "check" PROVE pc'[v] = "check" /\ job'[v] = job[v]
    BY <2>8
  <2>9. Noticed'
    BY <2>8 DEF Noticed
  <2> QED
    BY <2>2, <2>6, <2>7, <2>9
<1>3. ASSUME NEW w \in Workers, Build(w) PROVE IInv'
  <2> USE <1>3 DEF IInv, Build, Goto, TypeOK
  <2>1. PICK b \in Fetched(done) : out' = [out EXCEPT ![job[w]] = b]
    OBVIOUS
  <2>2. b \in Bundle /\ b # "none" /\ (b = "cut" => done)
    BY <2>1 DEF Fetched, Bundle
  <2>3. Flags' /\ Stages'
    BY DEF Flags, Stages, Gone
  <2>4. Covered'
    BY <2>1, <2>2 DEF Covered, Handing
  <2>5. Claimed'
    <3>1. job[w] \in Slots /\ job[w] < next
      BY DEF Claimed
    <3>2. ASSUME NEW v \in Workers, pc'[v] = "build"
          PROVE  pc[v] = "build" /\ job[v] # job[w]
      BY <3>2 DEF Claimed
    <3>3. \A i \in Slots : i >= next' => out'[i] = "none"
      BY <2>1, <3>1 DEF Claimed, Slots
    <3>4. \A v \in Workers : pc'[v] = "build" => job'[v] < next' /\ out'[job'[v]] = "none"
      BY <2>1, <3>2 DEF Claimed
    <3>5. \A u, v \in Workers :
            pc'[u] = "build" /\ pc'[v] = "build" /\ job'[u] = job'[v] => u = v
      BY <3>2 DEF Claimed
    <3> QED
      BY <3>3, <3>4, <3>5 DEF Claimed
  <2>6. Noticed'
    BY <2>1, <2>2 DEF Noticed
  <2> QED
    BY <2>3, <2>4, <2>5, <2>6
<1>4. ASSUME NEW w \in Workers, Stop(w) PROVE IInv'
  BY <1>4 DEF IInv, Stop, Goto, TypeOK, Flags, Stages, Gone, Covered, Handing, Claimed, Noticed
<1>5. ASSUME NEW w \in Workers, Drained(w) PROVE IInv'
  BY <1>5 DEF IInv, Drained, Goto, TypeOK, Flags, Stages, Gone, Covered, Handing, Claimed, Noticed
<1>6. ASSUME NEW w \in Workers, Check(w) PROVE IInv'
  BY <1>6 DEF IInv, Check, Goto, TypeOK, Flags, Stages, Gone, Covered, Handing, Claimed, Noticed
<1>7. CASE Cancel \/ Propagate
  BY <1>7 DEF IInv, Cancel, Propagate, Flags, Stages, Gone, Covered, Handing, Claimed, Noticed
<1>8. CASE SenderStops \/ Close
  BY <1>8 DEF IInv, SenderStops, Close, Flags, Stages, Gone, Covered, Handing, Claimed, Noticed
<1>9. CASE Wait
  BY <1>9 DEF IInv, Wait, Flags, Stages, Gone, Covered, Handing, Claimed, Noticed
<1>10. CASE Intent \/ Return
  BY <1>10 DEF IInv, Intent, Return, Flags, Stages, Gone, Covered, Handing, Claimed, Noticed
<1>11. CASE UNCHANGED vars
  BY <1>11 DEF IInv, vars, Flags, Stages, Gone, Covered, Handing, Claimed, Noticed
<1> QED
  BY <1>2, <1>3, <1>4, <1>5, <1>6, <1>7, <1>8, <1>9, <1>10, <1>11 DEF Next, Sender, Worker

(* The inductive invariant holds in every state of the pool.               *)
THEOREM InductiveInvariant == Spec => []IInv
  BY InitIInv, IInvStep, PTL DEF Spec

(* Bundles's variables keep their types, whatever the number of entries.   *)
THEOREM Typing == Spec => []TypeOK
<1>1. IInv => TypeOK
  BY DEF IInv
<1> QED
  BY <1>1, InductiveInvariant, PTL

(* A call of Bundles that gets past the pool has a bundle for every entry    *)
(* and none that a cancellation cut short; only a cancellation fails it.     *)
THEOREM BuiltOrCancelled == Spec => []AllOrCancelled
<1>1. IInv => AllOrCancelled
  <2> SUFFICES ASSUME IInv PROVE AllOrCancelled
    OBVIOUS
  <2> USE DEF IInv
  <2>1. sender = "failed" => caller
    BY DEF Stages, Flags
  <2>2. ASSUME sender \in {"intent", "returned"}, NEW i \in Slots
        PROVE  out[i] \in {"whole", "stub"}
    <3>1. ~err /\ Gone /\ i < next
      BY <2>2, BundlePoolAssumption DEF Stages, Slots, TypeOK
    <3>2. out[i] # "none"
      BY <3>1 DEF Covered, Handing, Gone
    <3>3. out[i] # "cut"
      BY <3>1 DEF Noticed, Gone
    <3> QED
      BY <3>2, <3>3 DEF TypeOK, Bundle
  <2> QED
    BY <2>1, <2>2 DEF AllOrCancelled
<1> QED
  BY <1>1, InductiveInvariant, PTL

(* Each slot is written once, by one worker, and none once the caller may    *)
(* read the slice.                                                           *)
THEOREM WrittenOnce == Spec => SlotsSettle
<1>1. IInv /\ [Next]_vars =>
        [ /\ \A i \in Slots : out[i] # "none" => out'[i] = out[i]
          /\ sender \in {"intent", "failed", "returned"} => UNCHANGED out ]_vars
  <2> SUFFICES ASSUME IInv, Next
               PROVE  /\ \A i \in Slots : out[i] # "none" => out'[i] = out[i]
                      /\ sender \in {"intent", "failed", "returned"} => UNCHANGED out
    OBVIOUS
  <2> USE DEF IInv
  <2>1. ASSUME NEW w \in Workers, Build(w)
        PROVE  /\ \A i \in Slots : out[i] # "none" => out'[i] = out[i]
               /\ sender \notin {"intent", "failed", "returned"}
    BY <2>1 DEF Build, Claimed, Stages, Gone, TypeOK
  <2>2. ASSUME ~ \E w \in Workers : Build(w) PROVE UNCHANGED out
    BY <2>2 DEF Next, Sender, Worker, Cancel, Propagate, Handoff, SenderStops, Close, Wait,
                Intent, Return, Stop, Drained, Check
  <2> QED
    BY <2>1, <2>2
<1> QED
  BY <1>1, InductiveInvariant, PTL DEF Spec, SlotsSettle

(* The guards of the steps of the pool's goroutines. *)
PoolCanMove ==
  \/ sender \in {"closing", "intent"}
  \/ sender = "sending" /\ (done \/ \E w \in Workers : pc[w] = "select")
  \/ sender = "waiting" /\ Gone
  \/ \E w \in Workers :
       \/ pc[w] \in {"build", "check"}
       \/ pc[w] = "select" /\ (done \/ sender \notin {"sending", "closing"})

(* Nobody is left blocked on the channel or the wait group, for any number   *)
(* of entries and workers: until the call returns somebody can go on.  A     *)
(* worker leaves a channel that is open only when the pool's context is      *)
(* done, and that is what the sender looks at when nobody takes its entry.   *)
THEOREM NeverStuck == Spec => [](sender \in {"failed", "returned"} \/ PoolCanMove)
<1> DEFINE Leaves == \A w \in Workers : pc[w] = "quit" => done \/ sender \notin {"sending", "closing"}
<1>1. Init => Leaves
  BY DEF Init
<1>2. IInv /\ Leaves /\ [Next]_vars => Leaves'
  <2> SUFFICES ASSUME IInv, Leaves, [Next]_vars PROVE Leaves'
    OBVIOUS
  <2> USE DEF IInv, TypeOK, Goto
  <2>1. ASSUME NEW w \in Workers, Handoff(w) PROVE Leaves'
    BY <2>1 DEF Handoff
  <2>2. ASSUME NEW w \in Workers, Worker(w) PROVE Leaves'
    BY <2>2 DEF Worker, Stop, Drained, Build, Check
  <2>3. CASE Cancel \/ Propagate \/ SenderStops \/ Close \/ Wait \/ Intent \/ Return
    BY <2>3 DEF Cancel, Propagate, SenderStops, Close, Wait, Intent, Return
  <2>4. CASE UNCHANGED vars
    BY <2>4 DEF vars
  <2> QED
    BY <2>1, <2>2, <2>3, <2>4 DEF Next, Sender
<1>3. IInv /\ Leaves => sender \in {"failed", "returned"} \/ PoolCanMove
  <2> SUFFICES ASSUME IInv, Leaves, sender \notin {"failed", "returned"}, ~PoolCanMove PROVE FALSE
    OBVIOUS
  <2>1. sender \in {"sending", "waiting"}
    BY DEF IInv, TypeOK, PoolCanMove
  <2>2. CASE sender = "sending"
    <3>1. 1 \in Workers
      BY <2>2, BundlePoolAssumption DEF IInv, Stages, TypeOK, Workers, workerCount
    <3> QED
      BY <2>2, <3>1 DEF IInv, TypeOK, PoolCanMove
  <2>3. CASE sender = "waiting"
    BY <2>3 DEF IInv, TypeOK, PoolCanMove, Gone
  <2> QED
    BY <2>1, <2>2, <2>3
<1> QED
  BY <1>1, <1>2, <1>3, InductiveInvariant, PTL DEF Spec

=============================================================================
