----------------------------- MODULE BundlePool -----------------------------
(***************************************************************************)
(* fluxplaneplugin.Bundles: a pool of goroutines builds one bundle per     *)
(* marketplace entry, a sender hands them the entries over an unbuffered   *)
(* channel, and the trailing intent bundle is built when they are gone.    *)
(*                                                                         *)
(* The pool runs under a context derived from the caller's; bundles are    *)
(* told apart by how the manifest fetch behind them ended: "whole", "stub" *)
(* for a plugin that has no manifest to give, fails, or runs out of its    *)
(* own time, "cut" for a fetch that the end of the pool's or the caller's  *)
(* context cut short, which also leaves a stub.                            *)
(***************************************************************************)
EXTENDS Naturals, Sequences

CONSTANTS
  Entries,     (* how many plugins the marketplace has *)
  MaxWorkers   (* maxConcurrentBundleBuilds *)

ASSUME BundlePoolAssumption == Entries \in Nat /\ MaxWorkers \in Nat \ {0}

VARIABLES
  caller,   (* whether the caller has cancelled its context *)
  done,     (* whether the pool's context is done *)
  sender,   (* where Bundles itself stands *)
  next,     (* the entry it offers next *)
  pc,       (* where each worker stands *)
  job,      (* the entry it last took *)
  out,      (* the bundle of each entry *)
  err,      (* whether firstErr is set *)
  intent    (* the outcomes of buildIntentIndex's fetches so far *)

vars == <<caller, done, sender, next, pc, job, out, err, intent>>

Slots == 1 .. Entries
workerCount == IF Entries > MaxWorkers THEN MaxWorkers ELSE Entries
Workers == 1 .. workerCount
Bundle == {"whole", "stub", "cut"}

(* How a manifest fetch can end under a context that is done or not. *)
Fetched(over) == IF over THEN Bundle ELSE {"whole", "stub"}

Init ==
  /\ caller = FALSE /\ done = FALSE /\ err = FALSE
  /\ sender = IF Entries = 0 THEN "intent" ELSE "sending"
  /\ next = 1
  /\ pc = [w \in Workers |-> "select"]
  /\ job = [w \in Workers |-> 1]
  /\ out = [i \in Slots |-> "none"]
  /\ intent = <<>>

Goto(w, where) == pc' = [pc EXCEPT ![w] = where]

Cancel ==
  /\ ~caller
  /\ caller' = TRUE
  /\ UNCHANGED <<done, sender, next, pc, job, out, err, intent>>

(* The caller's cancellation reaches the derived context a moment later.   *)
Propagate ==
  /\ caller /\ ~done
  /\ done' = TRUE
  /\ UNCHANGED <<caller, sender, next, pc, job, out, err, intent>>

(* Fault: entries are counted from one too far. *)
Handoff_OffByOne(w) ==
  /\ sender = "sending" /\ pc[w] = "select"
  /\ job' = [job EXCEPT ![w] = next + 1]
  /\ Goto(w, "build")
  /\ next' = next + 1
  /\ sender' = IF next = Entries THEN "closing" ELSE sender
  /\ UNCHANGED <<caller, done, out, err, intent>>

(* jobs <- entry meets <-jobs. *)
Handoff(w) ==
  /\ sender = "sending" /\ pc[w] = "select"
  /\ job' = [job EXCEPT ![w] = next]
  /\ Goto(w, "build")
  /\ next' = next + 1
  /\ sender' = IF next = Entries THEN "closing" ELSE sender
  /\ UNCHANGED <<caller, done, out, err, intent>>

SenderStops ==
  /\ sender = "sending" /\ done
  /\ err' = TRUE
  /\ sender' = "closing"
  /\ UNCHANGED <<caller, done, next, pc, job, out, intent>>

Close ==
  /\ sender = "closing"
  /\ sender' = "waiting"
  /\ UNCHANGED <<caller, done, next, pc, job, out, err, intent>>

(* Fault: the group counts a worker only once it runs. *)
Wait_TooEarly ==
  /\ sender = "waiting"
  /\ \A w \in Workers : pc[w] \in {"quit", "select", "build"}
  /\ sender' = IF err THEN "failed" ELSE "intent"
  /\ UNCHANGED <<caller, done, next, pc, job, out, err, intent>>

(* wg.Wait, and the test of firstErr behind it.                            *)
Wait ==
  /\ sender = "waiting"
  /\ \A w \in Workers : pc[w] = "quit"
  /\ sender' = IF err THEN "failed" ELSE "intent"
  /\ UNCHANGED <<caller, done, next, pc, job, out, err, intent>>

(* buildIntentIndex fetches under the caller's context and skips what it    *)
(* cannot fetch: a stub as well as what was cut.                            *)
Intent ==
  /\ sender = "intent"
  /\ Len(intent) < Entries
  /\ \E b \in Fetched(caller) : intent' = Append(intent, b)
  /\ UNCHANGED <<caller, done, sender, next, pc, job, out, err>>

Return ==
  /\ sender = "intent"
  /\ Len(intent) = Entries
  /\ sender' = "returned"
  /\ UNCHANGED <<caller, done, next, pc, job, out, err, intent>>

(* <-ctx.Done() *)
Stop(w) ==
  /\ pc[w] = "select" /\ done
  /\ err' = TRUE
  /\ Goto(w, "quit")
  /\ UNCHANGED <<caller, done, sender, next, job, out, intent>>

(* The channel is closed. *)
Drained(w) ==
  /\ pc[w] = "select" /\ sender \notin {"sending", "closing"}
  /\ Goto(w, "quit")
  /\ UNCHANGED <<caller, done, sender, next, job, out, err, intent>>

(* out[job.index] = bundleFor(ctx, engine, job.name) *)
Build(w) ==
  /\ pc[w] = "build"
  /\ \E b \in Fetched(done) : out' = [out EXCEPT ![job[w]] = b]
  /\ Goto(w, "check")
  /\ UNCHANGED <<caller, done, sender, next, job, err, intent>>

(* Fault: the context is not looked at again after a build. *)
Check_Unchecked(w) ==
  /\ pc[w] = "check"
  /\ Goto(w, "select")
  /\ UNCHANGED <<caller, done, sender, next, job, out, err, intent>>

(* Fault: a worker gives up on a bundle it could not build, and tells nobody. *)
Check_Quits(w) ==
  /\ pc[w] = "check"
  /\ IF done THEN err' = TRUE ELSE UNCHANGED err
  /\ Goto(w, IF done \/ out[job[w]] # "whole" THEN "quit" ELSE "select")
  /\ UNCHANGED <<caller, done, sender, next, job, out, intent>>

(* ctx.Err() after the build. *)
Check(w) ==
  /\ pc[w] = "check"
  /\ IF done
     THEN err' = TRUE /\ Goto(w, "quit")
     ELSE Goto(w, "select") /\ UNCHANGED err
  /\ UNCHANGED <<caller, done, sender, next, job, out, intent>>

Sender ==
  \/ \E w \in Workers : Handoff(w)
  \/ SenderStops \/ Close \/ Wait \/ Intent \/ Return

Worker(w) == Stop(w) \/ Drained(w) \/ Build(w) \/ Check(w)

Next == Cancel \/ Propagate \/ Sender \/ \E w \in Workers : Worker(w)

(* Goroutines are scheduled, the caller need never cancel, and each fetch    *)
(* ends.  The last is an assumption: a plugin that answers or dies ends it,  *)
(* but a descendant that keeps its pipes may hold it, and with it the call,  *)
(* past any timeout (PluginInvocation).                                      *)
Spec == Init /\ [][Next]_vars /\ WF_vars(Sender) /\ \A w \in Workers : WF_vars(Worker(w))

-----------------------------------------------------------------------------
TypeOK ==
  /\ caller \in BOOLEAN /\ done \in BOOLEAN /\ err \in BOOLEAN
  /\ sender \in {"sending", "closing", "waiting", "intent", "failed", "returned"}
  /\ next \in 1 .. Entries + 1
  /\ pc \in [Workers -> {"select", "build", "check", "quit"}]
  /\ job \in [Workers -> Slots]
  /\ out \in [Slots -> {"none"} \cup Bundle]
  /\ intent \in Seq(Bundle)

(* Past the pool, every entry has its bundle and no bundle is one that a     *)
(* cancellation cut short; only a cancellation makes the call fail.          *)
(* (bundle.go: Bundles, the test of ctx.Err after each build.)               *)
AllOrCancelled ==
  /\ sender \in {"intent", "returned"} => \A i \in Slots : out[i] \in {"whole", "stub"}
  /\ sender = "failed" => caller

(* Each slot of the shared slice is written once, and none after wg.Wait     *)
(* has let the caller read it.                                               *)
SlotsSettle ==
  [][ /\ \A i \in Slots : out[i] # "none" => out'[i] = out[i]
      /\ sender \in {"intent", "failed", "returned"} => UNCHANGED out ]_vars

(* Nobody is left blocked on the channel: the call returns, whether it is    *)
(* cancelled or not and whoever notices first, as long as the fetches end.   *)
Returns == <>(sender \in {"failed", "returned"})

(* The intent bundle of a call that succeeds leaves no plugin out because    *)
(* of a cancellation, whatever else leaves one out: it "carries one reaction *)
(* rule per activation-set name across all dex plugins"                      *)
(* (fluxplaneplugin/bundle.go:35-36).                                        *)
IntentWhole ==
  sender = "returned" => \A i \in 1 .. Len(intent) : intent[i] # "cut"

=============================================================================
