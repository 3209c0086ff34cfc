---------------------------- MODULE MCJiraIssues ----------------------------
(***************************************************************************)
(* JiraIssues on a workflow of four statuses: two ways from "todo" to      *)
(* "done", one of them long; a way back; a transition of the same id from  *)
(* several statuses, leading to different ones; and one with a poor score. *)
(***************************************************************************)
EXTENDS JiraIssues

T(id, to, score) == [id |-> id, to |-> to, score |-> score]

MCTransitions ==
  { T("start", "doing", 0), T("block", "blocked", 100), T("next", "doing", 0),
    T("next", "done", 50), T("back", "todo", 0), T("finish", "done", 50) }

MCWorkflow ==
  [ todo    |-> {T("start", "doing", 0), T("block", "blocked", 100)},
    doing   |-> {T("next", "done", 50), T("back", "todo", 0), T("block", "blocked", 100)},
    blocked |-> {T("next", "doing", 0), T("back", "todo", 0)},
    done    |-> {} ]

=============================================================================
