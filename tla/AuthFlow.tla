------------------------------ MODULE AuthFlow ------------------------------
(***************************************************************************)
(* Connecting a plugin (AuthService.Save, Connect and AutoConnect in       *)
(* auth.go): the values the user, the prompter or the environment gave are *)
(* saved one by one, and when enough of them were given the plugin is      *)
(* marked installed.  That mark is an operation of the registry, so this   *)
(* module drives PluginRegistry; every other operation of it starts as     *)
(* before.                                                                 *)
(***************************************************************************)
EXTENDS PluginRegistry

CONSTANTS
  Fields,    (* what can be saved for a plugin, undeclared names included *)
  Required   (* the fields the manifest requires *)

ASSUME AuthFlowAssumption == Required \subseteq Fields

VARIABLES
  stored,   (* the fields of each plugin with a value in the secret store *)
  flow      (* each actor's connect: what it was given, what is left to save *)

authVars == <<vars, stored, flow>>

NoFlow == [at |-> "none"]

AuthInit ==
  /\ Init
  /\ stored = [p \in Plugins |-> {}]
  /\ flow = [a \in Actors |-> NoFlow]

(* The values are given before any is saved.                                *)
BeginConnect(a) ==
  /\ pc[a] = "idle" /\ flow[a].at = "none"
  /\ \E p \in Plugins, given \in SUBSET Fields :
       flow' = [flow EXCEPT ![a] =
         [at |-> "saving", plugin |-> p, given |-> given, todo |-> given]]
  /\ UNCHANGED <<vars, stored>>

(* saveValues goes through a Go map, so in any order.                       *)
SaveValue(a) ==
  /\ flow[a].at = "saving"
  /\ \E f \in flow[a].todo :
       /\ stored' = [stored EXCEPT ![flow[a].plugin] = @ \cup {f}]
       /\ flow' = [flow EXCEPT ![a].todo = @ \ {f}]
  /\ UNCHANGED vars

(* Fault: a value that could not be saved is skipped. *)
SaveFails_Skips(a) ==
  /\ flow[a].at = "saving" /\ Crashes
  /\ \E f \in flow[a].todo : flow' = [flow EXCEPT ![a].todo = @ \ {f}]
  /\ UNCHANGED <<vars, stored>>

(* The store may be left with the old value of the field or with none.      *)
SaveFails(a) ==
  /\ flow[a].at = "saving" /\ Crashes
  /\ \E f \in flow[a].todo :
       \/ UNCHANGED stored
       \/ stored' = [stored EXCEPT ![flow[a].plugin] = @ \ {f}]
  /\ flow' = [flow EXCEPT ![a] = NoFlow]
  /\ UNCHANGED vars

Saved(a) == flow[a].at = "saving" /\ flow[a].todo = {}

(* Something was saved, and nothing required is missing or that is allowed: *)
(* Connect can be told to be content with part of it, and looks only now.   *)
Enough(a, partial) == flow[a].given # {} /\ (Required \subseteq flow[a].given \/ partial)

NotEnough(a) ==
  /\ Saved(a) /\ ~Enough(a, FALSE)
  /\ flow' = [flow EXCEPT ![a] = NoFlow]
  /\ UNCHANGED <<vars, stored>>

MarkInstalled(a) ==
  /\ Saved(a)
  /\ Begin(a)
  /\ op'[a] = [kind |-> "mark", plugin |-> flow[a].plugin]
  /\ \E partial \in BOOLEAN :
       /\ Enough(a, partial)
       /\ flow' = [flow EXCEPT ![a] = [at |-> "marking", given |-> flow[a].given, partial |-> partial]]
  /\ UNCHANGED stored

BeginOther(a) ==
  /\ flow[a].at = "none"
  /\ Begin(a)
  /\ op'[a].kind # "mark"
  /\ UNCHANGED <<stored, flow>>

(* The registry's own steps; a connect ends with its mark.                  *)
Proceed(a) ==
  /\ \/ ReadFlag(a) \/ Build(a) \/ Load(a) \/ LoadFails(a)
     \/ Remove(a) \/ Open(a) \/ Write(a) \/ DiskFails(a) \/ Crash(a)
  /\ flow' = IF pc'[a] = "idle" THEN [flow EXCEPT ![a] = NoFlow] ELSE flow
  /\ UNCHANGED stored

CrashSaving(a) ==
  /\ Crashes
  /\ flow[a].at = "saving"
  /\ flow' = [flow EXCEPT ![a] = NoFlow]
  /\ UNCHANGED <<vars, stored>>

AuthNext ==
  \E a \in Actors :
    \/ BeginConnect(a) \/ SaveValue(a) \/ SaveFails(a) \/ NotEnough(a)
    \/ MarkInstalled(a) \/ BeginOther(a) \/ Proceed(a) \/ CrashSaving(a)

AuthSpec == AuthInit /\ [][AuthNext]_authVars

-----------------------------------------------------------------------------
(* A plugin is marked installed only when every value the connect was given *)
(* is in the store, the required ones among them unless a partial connect   *)
(* was asked for: neither a save that fails nor a death half-way leads to a *)
(* mark.  (auth.go: Save, Connect, AutoConnect and saveValues, for one      *)
(* actor; an interrupted connect leaves values stored and no mark.)         *)
ConnectedIsStored ==
  \A a \in Actors :
    pc[a] # "idle" /\ op[a].kind = "mark" =>
      LET values == stored[op[a].plugin] IN
      /\ flow[a].given # {} /\ flow[a].given \subseteq values
      /\ Required \subseteq values \/ flow[a].partial

=============================================================================
