--------------------------- MODULE PluginRegistry ---------------------------
(***************************************************************************)
(* The installed-plugin registry: plugins/installed.json, the binaries in  *)
(* plugins/bin, and the operations that change them (runtime/plugins.go,   *)
(* Runner.installPlugin and UpgradePlugin, AuthService.markInstalled).     *)
(*                                                                         *)
(* Nothing locks the file.  Every operation loads it, changes the records  *)
(* it read, and saves them with os.WriteFile, which truncates first and    *)
(* writes then.  Each actor is a goroutine sharing an Engine, or another   *)
(* dex process on the same directory.                                      *)
(*                                                                         *)
(* A record's path is set exactly when it is managed, and points into      *)
(* plugins/bin: one field stands for both.                                 *)
(***************************************************************************)
CONSTANTS
  Actors,
  Plugins,   (* the plugins of the marketplace *)
  Crashes    (* whether an actor may die, and the disk may fail *)

ASSUME PluginRegistryAssumption == Crashes \in BOOLEAN

VARIABLES
  file,    (* what installed.json is: "absent", "whole", "empty" or "torn" *)
  saved,   (* the records in it when it is whole *)
  bin,     (* the plugins with a binary in plugins/bin *)
  pc,      (* where each actor stands *)
  op,      (* the operation it performs *)
  keep,    (* the activation its install will record *)
  mem      (* the records it will save *)

vars == <<file, saved, bin, pc, op, keep, mem>>
actorVars == <<pc, op, keep, mem>>

Missing == [installed |-> FALSE, managed |-> FALSE, activated |-> FALSE]
Installed(managed, activated) ==
  [installed |-> TRUE, managed |-> managed, activated |-> activated]
Records == {Missing} \cup [installed : {TRUE}, managed : BOOLEAN, activated : BOOLEAN]
Nothing == [p \in Plugins |-> Missing]

Kinds == {"install", "upgrade", "mark", "activate", "deactivate", "uninstall"}

(* What op and keep hold between operations does not matter. *)
Init ==
  /\ file = "absent"
  /\ saved = Nothing
  /\ bin = {}
  /\ pc = [a \in Actors |-> "idle"]
  /\ op \in [Actors -> [kind : {"mark"}, plugin : Plugins]]
  /\ keep = [a \in Actors |-> TRUE]
  /\ mem = [a \in Actors |-> Nothing]

Goto(a, where) == pc' = [pc EXCEPT ![a] = where]

(* LoadInstalledPlugins: a missing file is an empty registry, and anything  *)
(* that does not parse is an error.                                         *)
Readable == file \in {"absent", "whole"}

(* Only an install and an upgrade do something before they load. *)
Begin(a) ==
  /\ pc[a] = "idle"
  /\ \E k \in Kinds, p \in Plugins :
       /\ op' = [op EXCEPT ![a] = [kind |-> k, plugin |-> p]]
       /\ Goto(a, CASE k = "install" -> "build" [] k = "upgrade" -> "flag" [] OTHER -> "load")
  /\ keep' = [keep EXCEPT ![a] = TRUE]
  /\ UNCHANGED <<file, saved, bin, mem>>

(* Fault: an upgrade is an install. *)
ReadFlag_Reset(a) ==
  /\ pc[a] = "flag"
  /\ Readable
  /\ Goto(a, "build")
  /\ UNCHANGED <<file, saved, bin, op, keep, mem>>

(* UpgradePlugin reads the activation flag it will write after the build.   *)
ReadFlag(a) ==
  /\ pc[a] = "flag"
  /\ Readable
  /\ keep' = [keep EXCEPT ![a] =
       saved[op[a].plugin].installed => saved[op[a].plugin].activated]
  /\ Goto(a, "build")
  /\ UNCHANGED <<file, saved, bin, op, mem>>

(* Fault: a failed build does not end the operation. *)
Build_Ignored(a) ==
  /\ pc[a] = "build"
  /\ bin' = bin \cup {op[a].plugin} \/ UNCHANGED bin
  /\ Goto(a, "load")
  /\ UNCHANGED <<file, saved, op, keep, mem>>

(* go install puts the binary in place, or fails and leaves it as it was.   *)
Build(a) ==
  /\ pc[a] = "build"
  /\ \/ bin' = bin \cup {op[a].plugin} /\ Goto(a, "load")
     \/ UNCHANGED bin /\ Goto(a, "idle")
  /\ UNCHANGED <<file, saved, op, keep, mem>>

(* Fault: activating a plugin nobody installed appends no record for it. *)
Revised_Unlisted(a, old) ==
  CASE op[a].kind \in {"install", "upgrade"} -> Installed(TRUE, keep[a])
    [] op[a].kind = "mark" -> Installed(FALSE, TRUE)
    [] op[a].kind = "activate" -> [old EXCEPT !.activated = TRUE]
    [] op[a].kind = "deactivate" -> [old EXCEPT !.activated = FALSE]
    [] op[a].kind = "uninstall" -> Missing

(* The record the operation leaves for its plugin, from the one it loaded.  *)
Revised(a, old) ==
  CASE op[a].kind \in {"install", "upgrade"} -> Installed(TRUE, keep[a])
    [] op[a].kind = "mark" -> Installed(FALSE, TRUE)
    [] op[a].kind = "activate" -> Installed(old.managed, TRUE)
    [] op[a].kind = "deactivate" -> Installed(old.managed, FALSE)
    [] op[a].kind = "uninstall" -> Missing

(* Fault: a registry that does not parse is taken for an empty one. *)
Load_Forgiving(a) ==
  LET p == op[a].plugin
      reg == IF Readable THEN saved ELSE Nothing
  IN
  /\ pc[a] = "load"
  /\ Goto(a, "open")
  /\ mem' = [mem EXCEPT ![a] = [reg EXCEPT ![p] = Revised(a, reg[p])]]
  /\ UNCHANGED <<file, saved, bin, op, keep>>

(* Deactivating what is not installed ends here; uninstalling what is       *)
(* managed removes the binary before anything is saved.                     *)
Load(a) ==
  LET p == op[a].plugin IN
  /\ pc[a] = "load"
  /\ Readable
  /\ IF op[a].kind = "deactivate" /\ ~saved[p].installed
     THEN Goto(a, "idle") /\ UNCHANGED mem
     ELSE /\ Goto(a, IF op[a].kind = "uninstall" /\ saved[p].managed THEN "remove" ELSE "open")
          /\ mem' = [mem EXCEPT ![a] = [saved EXCEPT ![p] = Revised(a, saved[p])]]
  /\ UNCHANGED <<file, saved, bin, op, keep>>

LoadFails(a) ==
  /\ pc[a] \in {"flag", "load"}
  /\ ~Readable
  /\ Goto(a, "idle")
  /\ UNCHANGED <<file, saved, bin, op, keep, mem>>

(* os.Remove; a binary that is not there is fine.                           *)
Remove(a) ==
  /\ pc[a] = "remove"
  /\ bin' = bin \ {op[a].plugin}
  /\ Goto(a, "open")
  /\ UNCHANGED <<file, saved, op, keep, mem>>

(* os.WriteFile opens the file and truncates it ...                         *)
Open(a) ==
  /\ pc[a] = "open"
  /\ file' = "empty"
  /\ Goto(a, "write")
  /\ UNCHANGED <<saved, bin, op, keep, mem>>

(* ... and writes from the start of it.  Over what another actor has        *)
(* written since, a shorter text leaves the end of the longer one behind.   *)
Write(a) ==
  /\ pc[a] = "write"
  /\ \/ file' = "whole" /\ saved' = mem[a]
     \/ file # "empty" /\ file' = "torn" /\ UNCHANGED saved
  /\ Goto(a, "idle")
  /\ mem' = [mem EXCEPT ![a] = Nothing]
  /\ UNCHANGED <<bin, op, keep>>

(* The disk refuses to remove, to open or to take the whole text.           *)
DiskFails(a) ==
  /\ Crashes
  /\ pc[a] \in {"remove", "open", "write"}
  /\ UNCHANGED file \/ (pc[a] = "write" /\ file' = "torn")
  /\ Goto(a, "idle")
  /\ mem' = [mem EXCEPT ![a] = Nothing]
  /\ UNCHANGED <<saved, bin, op, keep>>

Crash(a) ==
  /\ Crashes
  /\ pc[a] # "idle"
  /\ Goto(a, "idle")
  /\ mem' = [mem EXCEPT ![a] = Nothing]
  /\ UNCHANGED <<file, saved, bin, op, keep>>

Next ==
  \E a \in Actors :
    \/ Begin(a) \/ ReadFlag(a) \/ Build(a) \/ Load(a) \/ LoadFails(a)
    \/ Remove(a) \/ Open(a) \/ Write(a) \/ DiskFails(a) \/ Crash(a)

Spec == Init /\ [][Next]_vars

-----------------------------------------------------------------------------
TypeOK ==
  /\ file \in {"absent", "whole", "empty", "torn"}
  /\ saved \in [Plugins -> Records]
  /\ bin \subseteq Plugins
  /\ pc \in [Actors -> {"idle", "flag", "build", "load", "remove", "open", "write"}]
  /\ op \in [Actors -> [kind : Kinds, plugin : Plugins]]
  /\ keep \in [Actors -> BOOLEAN]
  /\ mem \in [Actors -> [Plugins -> Records]]

(* Nobody is left who read the file before it became unreadable. *)
Lost ==
  /\ ~Readable
  /\ \A a \in Actors : pc[a] \notin {"remove", "open", "write"}

(* A truncated or torn registry is never repaired: each operation, install  *)
(* and uninstall included, loads before it saves, and fails.                *)
(* (runtime/plugins.go: LoadInstalledPlugins and its callers.)              *)
NeverRepaired == [][Lost => Lost']_vars

(* A plugin is recorded as managed only with its binary in place, whatever  *)
(* was cut short before: the build comes before the save, and a plugin      *)
(* being uninstalled is not recorded again.                                 *)
RecordedWhenBuilt ==
  [][\A p \in Plugins : saved'[p].managed /\ ~saved[p].managed => p \in bin']_vars

Doing == [a \in Actors |-> IF pc[a] = "idle" THEN [kind |-> "none"] ELSE op[a]]

(* With one actor, operations are whole: each does to its own record what    *)
(* was asked for, an upgrade keeping the activation included, and one that   *)
(* dies or fails half-way changes nothing or loses everything.               *)
IP == INSTANCE InstalledPlugins WITH
  Clients <- Actors, doing <- Doing, contents <- saved, lost <- Lost

ImplementsInstalledPlugins == IP!Spec

=============================================================================
