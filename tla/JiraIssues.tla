------------------------------ MODULE JiraIssues ------------------------------
(***************************************************************************)
(* The operations of the Jira plugin that take several requests: moving an *)
(* issue, and writing one, a comment or an edit with images.               *)
(***************************************************************************)
EXTENDS TransitionWalk, IssueImages

VARIABLE operation  (* which one this behaviour follows *)

vars == <<walkVars, imageVars, operation>>

(* What the other one starts from does not matter. *)
Init ==
  /\ WalkInit /\ ImagesInit
  /\ \/ operation = "transition" /\ kind = "text" /\ images = 0
     \/ /\ operation = "write" /\ issue = CHOOSE s \in Statuses : TRUE
        /\ asked = [id |-> "none", target |-> issue, auto |-> FALSE, max |-> 0]

Next ==
  /\ \/ operation = "transition" /\ WalkNext /\ UNCHANGED imageVars
     \/ operation = "write" /\ ImagesNext /\ UNCHANGED walkVars
  /\ UNCHANGED operation

Spec == Init /\ [][Next]_vars

(* One type invariant for both. *)
TypeOK == operation \in {"transition", "write"} /\ WalkTypeOK /\ ImagesTypeOK

=============================================================================
