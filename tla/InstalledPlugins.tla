-------------------------- MODULE InstalledPlugins --------------------------
(***************************************************************************)
(* What the installed-plugin registry promises: a client asks for one      *)
(* operation at a time, and it changes the record of its plugin as that    *)
(* operation does and no other record, or nothing at all.  A crash or a    *)
(* failing disk may also lose the registry, and nothing is performed on a  *)
(* lost registry any more.                                                 *)
(***************************************************************************)
CONSTANTS Clients, Plugins

VARIABLES
  doing,      (* the operation each client has asked for *)
  contents,   (* the record of every plugin *)
  lost        (* whether the registry is beyond reading *)

ivars == <<doing, contents, lost>>

Resting == [kind |-> "none"]

Missing == [installed |-> FALSE, managed |-> FALSE, activated |-> FALSE]
Installed(managed, activated) ==
  [installed |-> TRUE, managed |-> managed, activated |-> activated]

Init ==
  /\ doing = [c \in Clients |-> Resting]
  /\ contents = [p \in Plugins |-> Missing]
  /\ lost = FALSE

Request(c) ==
  /\ doing[c] = Resting
  /\ \E k \in {"install", "upgrade", "mark", "activate", "deactivate", "uninstall"},
        p \in Plugins :
       doing' = [doing EXCEPT ![c] = [kind |-> k, plugin |-> p]]
  /\ UNCHANGED <<contents, lost>>

(* An upgrade leaves the plugin as active as it was; a mark, which storing   *)
(* credentials makes, forgets that the plugin was managed.                   *)
After(kind, old) ==
  CASE kind = "install" -> Installed(TRUE, TRUE)
    [] kind = "upgrade" -> Installed(TRUE, old.installed => old.activated)
    [] kind = "mark" -> Installed(FALSE, TRUE)
    [] kind = "activate" -> Installed(old.managed, TRUE)
    [] kind = "deactivate" -> Installed(old.managed, FALSE)
    [] kind = "uninstall" -> Missing

Perform(c) ==
  LET p == doing[c].plugin IN
  /\ doing[c] # Resting
  /\ ~lost
  /\ doing[c].kind = "deactivate" => contents[p].installed
  /\ contents' = [contents EXCEPT ![p] = After(doing[c].kind, contents[p])]
  /\ doing' = [doing EXCEPT ![c] = Resting]
  /\ UNCHANGED lost

GiveUp(c) ==
  /\ doing[c] # Resting
  /\ doing' = [doing EXCEPT ![c] = Resting]
  /\ lost' \in {lost, TRUE}
  /\ UNCHANGED contents

Next == \E c \in Clients : Request(c) \/ Perform(c) \/ GiveUp(c)

Spec == Init /\ [][Next]_ivars

=============================================================================
