------------------------------- MODULE Gather -------------------------------
(***************************************************************************)
(* What a fan-out over providers promises: every job's provider is asked   *)
(* exactly once, no more than Limit of them at a time; the call returns    *)
(* when the last one has answered, and returns what each of them answered, *)
(* in the order of the jobs.  A call without jobs returns an error.        *)
(***************************************************************************)
EXTENDS Naturals, FiniteSets, Sequences

CONSTANTS
  MaxJobs,  (* the most jobs a call may have *)
  Limit     (* the most providers asked at a time *)

VARIABLES
  jobs,     (* how many jobs the call has, once it knows *)
  asked,    (* the jobs whose provider was asked *)
  answers,  (* what came back for each job *)
  returned  (* what the call returned *)

gvars == <<jobs, asked, answers, returned>>

NoAnswer == [kind |-> "none", reported |-> FALSE]
Answers == [kind : {"full", "empty", "failed"}, reported : BOOLEAN]
Pending == [done |-> FALSE, refused |-> FALSE, results |-> <<>>, errors |-> <<>>]

Answered == {j \in asked : answers[j] # NoAnswer}

(* A provider's answer has errors of two sources: those it sent, and one of *)
(* the fan-out's own for an answer that is empty or a failure without any.  *)
HasError(answer, by) ==
  IF by = "provider"
  THEN answer.reported
  ELSE answer.kind = "empty" \/ (answer.kind = "failed" /\ ~answer.reported)

Precedes(e, f) == e.job < f.job \/ (e.job = f.job /\ e.by = "provider" /\ f.by = "host")

(* The first n jobs that found something, in order, and all the errors of   *)
(* the first n jobs, in order: nothing else, and nothing twice.             *)
ListsResults(s, a, n) ==
  /\ s \in Seq(1 .. n)
  /\ {s[i] : i \in DOMAIN s} = {j \in 1 .. n : a[j].kind = "full"}
  /\ \A i, k \in DOMAIN s : i < k => s[i] < s[k]

ListsErrors(s, a, n) ==
  /\ s \in Seq([job : 1 .. n, by : {"provider", "host"}])
  /\ {s[i] : i \in DOMAIN s} =
       {e \in [job : 1 .. n, by : {"provider", "host"}] : HasError(a[e.job], e.by)}
  /\ \A i, k \in DOMAIN s : i < k => Precedes(s[i], s[k])

Init ==
  /\ jobs = 0
  /\ asked = {}
  /\ answers = [j \in 1 .. MaxJobs |-> NoAnswer]
  /\ returned = Pending

Plan(n) ==
  /\ jobs = 0 /\ ~returned.done
  /\ jobs' = n
  /\ UNCHANGED <<asked, answers, returned>>

Ask(j) ==
  /\ j \in 1 .. jobs \ asked
  /\ Cardinality(asked \ Answered) < Limit
  /\ asked' = asked \cup {j}
  /\ UNCHANGED <<jobs, answers, returned>>

Answer(j, answer) ==
  /\ j \in asked \ Answered
  /\ answers' = [answers EXCEPT ![j] = answer]
  /\ UNCHANGED <<jobs, asked, returned>>

Return ==
  /\ ~returned.done
  /\ Answered = 1 .. jobs
  /\ returned'.done
  /\ jobs = 0 => returned'.refused
  /\ ListsResults(returned'.results, answers, jobs)
  /\ ListsErrors(returned'.errors, answers, jobs)
  /\ UNCHANGED <<jobs, asked, answers>>

Next ==
  \/ \E n \in 1 .. MaxJobs : Plan(n)
  \/ \E j \in 1 .. MaxJobs : Ask(j) \/ \E answer \in Answers : Answer(j, answer)
  \/ Return

Spec == Init /\ [][Next]_gvars

=============================================================================
