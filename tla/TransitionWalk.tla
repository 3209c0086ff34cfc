---------------------------- MODULE TransitionWalk ----------------------------
(***************************************************************************)
(* Service.TransitionRun of the Jira plugin: it moves an issue through the *)
(* workflow, one transition or a walk of them, by requests that may fail   *)
(* or lose their reply, while other people move the same issue.            *)
(*                                                                         *)
(* The workflow, the issue and those people are Jira's.  A transition has  *)
(* an id, the status it leads to, and what intermediateTransitionScore     *)
(* makes of its words.  To ask for one by its name is to ask by its id.    *)
(***************************************************************************)
EXTENDS Naturals, Sequences

CONSTANTS
  Transitions,   (* records of id, to and score *)
  Workflow,      (* the transitions that leave each status *)
  DefaultSteps,  (* 5 in boundedTransitionSteps *)
  MostSteps      (* and 20 *)

Statuses == DOMAIN Workflow
Ids == {t.id : t \in Transitions}
Requests == [id : Ids \cup {"none"}, target : Statuses \cup {"none"}, auto : BOOLEAN,
             max : 0 .. MostSteps + 1]

ASSUME TransitionWalkAssumption ==
  /\ Transitions \subseteq [id : STRING, to : Statuses, score : Nat]
  /\ Workflow \in [Statuses -> SUBSET Transitions]
  /\ DefaultSteps \in Nat \ {0} /\ MostSteps \in Nat
  /\ DefaultSteps <= MostSteps
  /\ "none" \notin Statuses \cup Ids

VARIABLES
  walk,     (* where TransitionRun stands *)
  asked,    (* its input *)
  issue,    (* the status the issue has in Jira *)
  read,     (* the status and the transitions it read last *)
  chosen,   (* the transition it asks Jira for *)
  steps,    (* how many it has made *)
  tried,    (* the ones it will not ask for again *)
  applied,  (* the ones it will report *)
  current,  (* and the status *)
  outcome,  (* what it returned *)
  done,     (* what Jira did on its behalf *)
  visited   (* the statuses the issue had since it began *)

walkVars == <<walk, asked, issue, read, chosen, steps, tried, applied, current, outcome,
  done, visited>>
jiraVars == <<issue, done, visited>>

NoTransition == [id |-> "none", to |-> "none", score |-> 0]

WalkInit ==
  /\ walk = "status"
  /\ asked \in {a \in Requests : a.id # "none" \/ a.target # "none"}
  /\ issue \in Statuses
  /\ read = [status |-> "none", options |-> {}]
  /\ chosen = NoTransition
  /\ steps = 0 /\ tried = {} /\ applied = <<>>
  /\ current = "none"
  /\ outcome = "none"
  /\ done = <<>> /\ visited = {issue}

Returns(how) == walk' = "ended" /\ outcome' = how

(* A request that fails, or whose reply is lost, ends the operation with an *)
(* error that says nothing of what was done before.                         *)
WalkFails ==
  /\ walk \in {"status", "options", "confirm", "post"}
  /\ Returns("error")
  /\ UNCHANGED <<asked, read, chosen, steps, tried, applied, current, jiraVars>>

(* ListTransitions makes two requests: one for the status ...               *)
ReadStatus ==
  /\ walk = "status"
  /\ read' = [read EXCEPT !.status = issue]
  /\ walk' = "options"
  /\ UNCHANGED <<asked, chosen, steps, tried, applied, current, outcome, jiraVars>>

(* Fault: there is no upper bound. *)
boundedTransitionSteps_Unbounded(value) == IF value = 0 THEN DefaultSteps ELSE value

boundedTransitionSteps(value) ==
  IF value = 0 THEN DefaultSteps ELSE IF value > MostSteps THEN MostSteps ELSE value

(* Fault: at its limit, a walk returns what it has. *)
Arrived_AtLimit(status) ==
  \/ asked.target = status
  \/ steps > 0 /\ ~asked.auto
  \/ steps = boundedTransitionSteps(asked.max)

(* The target is reached, or one transition was all that was asked.         *)
Arrived(status) == asked.target = status \/ (steps > 0 /\ ~asked.auto)

(* ... and one for the transitions, by when the status may be another.      *)
ReadOptions ==
  /\ walk = "options"
  /\ read' = [read EXCEPT !.options = Workflow[issue]]
  /\ current' = read.status
  /\ IF Arrived(read.status)
     THEN IF steps = 0 THEN walk' = "confirm" /\ UNCHANGED outcome ELSE Returns("ok")
     ELSE IF steps < boundedTransitionSteps(asked.max)
          THEN walk' = "choose" /\ UNCHANGED outcome
          ELSE Returns("error")
  /\ UNCHANGED <<asked, chosen, steps, tried, applied, jiraVars>>

(* Already there: the issue is read once more for the report.               *)
Confirm ==
  /\ walk = "confirm"
  /\ Returns("ok")
  /\ UNCHANGED <<asked, read, chosen, steps, tried, applied, current, jiraVars>>

(* bestIntermediateTransition; among equals, the first one that Jira lists. *)
Intermediate(options) ==
  {t \in options : t.to # read.status /\
     \A u \in options : u.to # read.status => t.score <= u.score}

(* selectTransition *)
Selected ==
  LET options == read.options \ tried
      direct == {t \in options : t.to = asked.target}
  IN CASE asked.id # "none" -> {t \in options : t.id = asked.id}
       [] asked.id = "none" /\ direct # {} -> direct
       [] asked.id = "none" /\ direct = {} ->
            IF steps > 0 \/ asked.auto THEN Intermediate(options) ELSE {}

Choose ==
  /\ walk = "choose"
  /\ IF Selected = {}
     THEN Returns("error") /\ UNCHANGED <<chosen, tried>>
     ELSE /\ chosen' \in Selected
          /\ tried' = tried \cup {chosen'}
          /\ walk' = "post" /\ UNCHANGED outcome
  /\ UNCHANGED <<asked, read, steps, applied, current, jiraVars>>

Move(t) ==
  /\ issue' = t.to
  /\ visited' = visited \cup {t.to}

(* Fault: a reply that is lost is taken for a refusal, and the walk goes on. *)
Post_GoesOn ==
  /\ walk = "post"
  /\ \E t \in Workflow[issue] :
       /\ t.id = chosen.id
       /\ Move(t)
       /\ done' = Append(done, t.id)
  /\ \/ walk' = "readback" /\ steps' = steps + 1 /\ applied' = Append(applied, chosen)
     \/ walk' = "status" /\ UNCHANGED <<steps, applied>>
  /\ UNCHANGED <<asked, read, chosen, tried, current, outcome>>

(* Jira makes the transition of that id that leaves the status the issue    *)
(* has now.  If its reply is lost, the operation fails.                     *)
Post ==
  /\ walk = "post"
  /\ \E t \in Workflow[issue] :
       /\ t.id = chosen.id
       /\ Move(t)
       /\ done' = Append(done, t.id)
  /\ \/ /\ walk' = "readback" /\ UNCHANGED outcome
        /\ steps' = steps + 1 /\ applied' = Append(applied, chosen)
     \/ Returns("error") /\ UNCHANGED <<steps, applied>>
  /\ UNCHANGED <<asked, read, chosen, tried, current>>

(* TransitionIssue reads the issue again, and does without if it cannot.    *)
ReadBack ==
  /\ walk = "readback"
  /\ current' \in {issue, current}
  /\ IF asked.target = "none" THEN Returns("ok") ELSE walk' = "status" /\ UNCHANGED outcome
  /\ UNCHANGED <<asked, read, chosen, steps, tried, applied, jiraVars>>

OthersMove ==
  /\ walk # "ended"
  /\ \E t \in Workflow[issue] : Move(t)
  /\ UNCHANGED <<walk, asked, read, chosen, steps, tried, applied, current, outcome, done>>

WalkNext ==
  \/ WalkFails \/ ReadStatus \/ ReadOptions \/ Confirm \/ Choose \/ Post \/ ReadBack
  \/ OthersMove

-----------------------------------------------------------------------------
WalkTypeOK ==
  /\ walk \in {"status", "options", "confirm", "choose", "post", "readback", "ended"}
  /\ asked \in Requests
  /\ issue \in Statuses
  /\ read \in [status : Statuses \cup {"none"}, options : SUBSET Transitions]
  /\ chosen \in Transitions \cup {NoTransition}
  /\ steps \in 0 .. MostSteps
  /\ tried \in SUBSET Transitions
  /\ applied \in Seq(Transitions)
  /\ current \in Statuses \cup {"none"}
  /\ outcome \in {"none", "ok", "error"}
  /\ done \in Seq(Ids)
  /\ visited \in SUBSET Statuses

(* A walk that says it went well has seen the issue in the status that was   *)
(* asked for, and the issue was there, whoever moved it.  ("repeatedly fetch *)
(* available transitions and take intermediate transitions until            *)
(* target_status is reached", plugins/jira/operations.go.)                  *)
ReachedWhenSaid ==
  outcome = "ok" /\ asked.auto /\ asked.target # "none" =>
    current = asked.target /\ asked.target \in visited

(* What Jira did on the operation's behalf is what a report of success      *)
(* lists, in its order; never more than the bound, even when the operation  *)
(* fails, and then all but the last was known to it.                        *)
AppliedReported ==
  /\ Len(done) <= boundedTransitionSteps(asked.max)
  /\ outcome = "ok" => done = [k \in DOMAIN applied |-> applied[k].id]
  /\ outcome = "error" => Len(applied) <= Len(done) /\ Len(done) <= Len(applied) + 1

=============================================================================
