------------------------------- MODULE Fanout -------------------------------
(***************************************************************************)
(* Runner.runWebsearch and Runner.runVision: one goroutine per job, a      *)
(* channel as semaphore, a slot per job, a wait group.  A job is a query   *)
(* at a provider, or all images at a provider.                             *)
(*                                                                         *)
(* Starting the goroutines does not block, and one that was not started    *)
(* cannot be told from one that has not run: they all start at once.       *)
(* What a provider answered is told apart as far as the report does: it is *)
(* full, empty or failed, and may carry errors of the provider's own.      *)
(***************************************************************************)
EXTENDS HostOperation, Naturals, FiniteSets, Sequences

CONSTANTS
  MaxJobs,  (* bound: queries times providers *)
  Limit     (* websearchFanoutConcurrency, visionFanoutConcurrency *)

ASSUME FanoutAssumption ==
  /\ MaxJobs \in Nat
  /\ Limit \in Nat \ {0}

VARIABLES
  fan,      (* where the calling goroutine stands *)
  jobs,     (* how many jobs it made *)
  pc,       (* where the goroutine of each job stands *)
  got,      (* what runProviderWebsearch returned to it *)
  sem,      (* how many tokens are in the semaphore's channel *)
  slots,    (* results, one slot per job *)
  reported, (* how many slots the loop after wg.Wait has been through *)
  output    (* what the fan-out returns, filled in by that loop *)

fanVars == <<fan, jobs, pc, got, sem, slots, reported, output>>

Job == 1 .. MaxJobs
Made == 1 .. jobs

NoAnswer == [kind |-> "none", reported |-> FALSE]
Answers == [kind : {"full", "empty", "failed"}, reported : BOOLEAN]
(* refused: the errors of the selection, which stand before all others.     *)
Pending == [done |-> FALSE, refused |-> FALSE, results |-> <<>>, errors |-> <<>>]

FanInit ==
  /\ fan = IF call = "search" THEN "selecting" ELSE "idle"
  /\ jobs = 0
  /\ pc = [j \in Job |-> "absent"]
  /\ got = [j \in Job |-> NoAnswer]
  /\ sem = 0
  /\ slots = [j \in Job |-> NoAnswer]
  /\ reported = 0
  /\ output = Pending

(* Until it returns, the caller has seen nothing of the output. *)
Summary == INSTANCE Gather WITH
  asked <- {j \in Job : pc[j] \notin {"absent", "queued"}},
  answers <- got, returned <- IF output.done THEN output ELSE Pending

(* No query, no image or no provider: there is nothing to ask, and an error *)
(* says so.                                                                  *)
NothingToAsk ==
  /\ fan = "selecting"
  /\ fan' = "done"
  /\ output' = [output EXCEPT !.done = TRUE, !.refused = TRUE]
  /\ UNCHANGED <<jobs, pc, got, sem, slots, reported>>

(* The product of queries and selected providers, and a goroutine for each; *)
(* a provider asked for by a name that is not there has left an error.      *)
StartJobs ==
  /\ fan = "selecting"
  /\ \E n \in Job :
       /\ jobs' = n
       /\ pc' = [j \in Job |-> IF j <= n THEN "queued" ELSE "absent"]
  /\ fan' = "waiting"
  /\ \E unknown \in BOOLEAN : output' = [output EXCEPT !.refused = unknown]
  /\ UNCHANGED <<got, sem, slots, reported>>

(* Fault: a goroutine does not take a token. *)
Acquire_Unlimited(j) ==
  /\ pc[j] = "queued"
  /\ pc' = [pc EXCEPT ![j] = "calling"]
  /\ UNCHANGED <<fan, jobs, got, sem, slots, reported, output>>

(* sem <- struct{}{}: waits for a token, whatever became of the context.    *)
Acquire(j) ==
  /\ pc[j] = "queued"
  /\ sem < Limit
  /\ sem' = sem + 1
  /\ pc' = [pc EXCEPT ![j] = "calling"]
  /\ UNCHANGED <<fan, jobs, got, slots, reported, output>>

(* InvokeInstance returns: an answer, or an error as it does at once when   *)
(* the context is over.                                                     *)
ProviderAnswers(j) ==
  /\ pc[j] = "calling"
  /\ \E answer \in Answers :
       /\ ctx = "over" => answer = [kind |-> "failed", reported |-> FALSE]
       /\ got' = [got EXCEPT ![j] = answer]
  /\ pc' = [pc EXCEPT ![j] = "answered"]
  /\ UNCHANGED <<fan, jobs, sem, slots, reported, output>>

(* Fault: a job that failed keeps its token. *)
Release_Leaks(j) ==
  /\ pc[j] = "answered"
  /\ sem' = IF got[j].kind = "failed" THEN sem ELSE sem - 1
  /\ pc' = [pc EXCEPT ![j] = "released"]
  /\ UNCHANGED <<fan, jobs, got, slots, reported, output>>

(* <-sem *)
Release(j) ==
  /\ pc[j] = "answered"
  /\ sem' = sem - 1
  /\ pc' = [pc EXCEPT ![j] = "released"]
  /\ UNCHANGED <<fan, jobs, got, slots, reported, output>>

(* Fault: results are kept in the order they arrive. *)
Store_Appends(j) ==
  /\ pc[j] = "released"
  /\ LET free == {k \in Made : slots[k] = NoAnswer}
         next == CHOOSE k \in free : \A i \in free : k <= i
     IN slots' = [slots EXCEPT ![next] = got[j]]
  /\ pc' = [pc EXCEPT ![j] = "done"]
  /\ UNCHANGED <<fan, jobs, got, sem, reported, output>>

(* results[current.index] = ...; wg.Done()                                  *)
Store(j) ==
  /\ pc[j] = "released"
  /\ slots' = [slots EXCEPT ![j] = got[j]]
  /\ pc' = [pc EXCEPT ![j] = "done"]
  /\ UNCHANGED <<fan, jobs, got, sem, reported, output>>

AppendIf(s, condition, element) == IF condition THEN Append(s, element) ELSE s

AllDone == fan = "waiting" /\ \A j \in Made : pc[j] = "done"

(* Fault: a failed job whose provider sent no errors is passed over. *)
ReportSlot_Silent ==
  /\ AllDone
  /\ reported < jobs
  /\ reported' = reported + 1
  /\ LET job == reported + 1
         slot == slots[job]
         sent == AppendIf(output.errors, slot.reported, [job |-> job, by |-> "provider"])
     IN output' = [output EXCEPT
                     !.results = AppendIf(@, slot.kind = "full", job),
                     !.errors = AppendIf(sent, slot.kind = "empty", [job |-> job, by |-> "host"])]
  /\ UNCHANGED <<fan, jobs, pc, got, sem, slots>>

(* wg.Wait(), and one turn of the loop over the slots: the errors the       *)
(* provider sent, then one of the fan-out's own or the result.              *)
ReportSlot ==
  /\ AllDone
  /\ reported < jobs
  /\ reported' = reported + 1
  /\ LET job == reported + 1
         slot == slots[job]
         silent == slot.kind = "failed" /\ ~slot.reported
         sent == AppendIf(output.errors, slot.reported, [job |-> job, by |-> "provider"])
     IN output' = [output EXCEPT
                     !.results = AppendIf(@, slot.kind = "full", job),
                     !.errors = AppendIf(sent, silent \/ slot.kind = "empty",
                                         [job |-> job, by |-> "host"])]
  /\ UNCHANGED <<fan, jobs, pc, got, sem, slots>>

(* return output *)
ReturnOutput ==
  /\ AllDone
  /\ reported = jobs
  /\ fan' = "done"
  /\ output' = [output EXCEPT !.done = TRUE]
  /\ UNCHANGED <<jobs, pc, got, sem, slots, reported>>

RunJob(j) == Acquire(j) \/ ProviderAnswers(j) \/ Release(j) \/ Store(j)

FanNext == NothingToAsk \/ StartJobs \/ (\E j \in Job : RunJob(j)) \/ ReportSlot \/ ReturnOutput

(* Goroutines are scheduled, and every invocation ends: it has a deadline.  *)
FanFairness ==
  /\ WF_fanVars(NothingToAsk \/ StartJobs)
  /\ \A j \in Job : WF_fanVars(RunJob(j))
  /\ WF_fanVars(ReportSlot \/ ReturnOutput)

-----------------------------------------------------------------------------
FanTypeOK ==
  /\ fan \in {"idle", "selecting", "waiting", "done"}
  /\ jobs \in 0 .. MaxJobs
  /\ pc \in [Job -> {"absent", "queued", "calling", "answered", "released", "done"}]
  /\ got \in [Job -> Answers \cup {NoAnswer}]
  /\ sem \in 0 .. Limit
  /\ slots \in [Job -> Answers \cup {NoAnswer}]
  /\ reported \in 0 .. jobs
  /\ output \in [done : BOOLEAN, refused : BOOLEAN, results : Seq(Job),
                 errors : Seq([job : Job, by : {"provider", "host"}])]

(* No job is lost in the report: each one that was asked is among the       *)
(* results or has an error, the results come in the order of the jobs, and  *)
(* so do the errors; and where nothing was asked, an error says why.        *)
(* (runtime/websearch_builtin.go and vision_builtin.go: the loop after      *)
(* wg.Wait.)                                                                *)
EveryJobReported ==
  output.done =>
    /\ jobs = 0 => output.refused
    /\ \A j \in Made :
         \/ \E i \in DOMAIN output.results : output.results[i] = j
         \/ \E i \in DOMAIN output.errors : output.errors[i].job = j
    /\ \A i, k \in DOMAIN output.results : i < k => output.results[i] < output.results[k]
    /\ \A i, k \in DOMAIN output.errors : i < k => output.errors[i].job <= output.errors[k].job

(* Whatever the interleaving, a fan-out asks each provider once, never more *)
(* than the limit at a time, and reports just what they answered.           *)
ImplementsGather == Summary!Spec

(* A fan-out ends, also when its context is over and although no goroutine  *)
(* looks at it while it waits for a token.                                  *)
FanoutReturns == call = "search" => <>(fan = "done")

=============================================================================
