----------------------------- MODULE PortForward -----------------------------
(***************************************************************************)
(* PortForwardStart and PortForwardStop of the host's Kubernetes provider. *)
(* Start runs a shell in a process group of its own; the shell runs        *)
(* kubectl, and a sleeper that kills kubectl after the duration.  The      *)
(* three outlive the call, and dex, on purpose: the forward is stopped by  *)
(* its id, which names a record of the group, or by the sleeper.           *)
(***************************************************************************)
EXTENDS HostOperation

VARIABLES
  start,     (* where PortForwardStart stands *)
  started,   (* what it returned *)
  sh,        (* the shell, the group's leader *)
  kubectl,   (* its child *)
  sleeper,   (* and the subshell that will kill the child *)
  record,    (* whether the record of the group is written *)
  stopped,   (* whether a PortForwardStop said that the forward is stopped *)
  stranger,  (* whether somebody else listens on the local port *)
  dex        (* whether the process that started it is alive *)

forwardVars == <<start, started, sh, kubectl, sleeper, record, stopped, stranger, dex>>
group == <<sh, kubectl, sleeper>>

KubectlRuns == kubectl \in {"starting", "serving"}

ForwardInit ==
  /\ start = IF call = "forward" THEN "begin" ELSE "idle"
  /\ started = "none"
  /\ sh = "none" /\ kubectl = "none" /\ sleeper = "none"
  /\ record = FALSE /\ stopped = FALSE
  /\ stranger = FALSE
  /\ dex = "alive"

(* cmd.Start, or its error.                                                 *)
StartShell ==
  /\ dex = "alive" /\ start = "begin"
  /\ \/ sh' = "fresh" /\ start' = "dialing" /\ UNCHANGED started
     \/ start' = "returned" /\ started' = "failed" /\ UNCHANGED sh
  /\ UNCHANGED <<kubectl, sleeper, record, stopped, stranger, dex>>

ShellRunsKubectl ==
  /\ sh = "fresh"
  /\ sh' = "forked" /\ kubectl' = "starting"
  /\ UNCHANGED <<start, started, sleeper, record, stopped, stranger, dex>>

ShellRunsSleeper ==
  /\ sh = "forked"
  /\ sh' = "waiting" /\ sleeper' = "asleep"
  /\ UNCHANGED <<start, started, kubectl, record, stopped, stranger, dex>>

(* wait $child *)
ShellEnds ==
  /\ sh = "waiting" /\ kubectl = "gone"
  /\ sh' = "dead"
  /\ UNCHANGED <<start, started, kubectl, sleeper, record, stopped, stranger, dex>>

(* kubectl binds the port if it is free, and may exit whenever it likes.    *)
KubectlServes ==
  /\ kubectl = "starting" /\ ~stranger
  /\ kubectl' = "serving"
  /\ UNCHANGED <<start, started, sh, sleeper, record, stopped, stranger, dex>>

KubectlExits ==
  /\ KubectlRuns
  /\ kubectl' = "gone"
  /\ UNCHANGED <<start, started, sh, sleeper, record, stopped, stranger, dex>>

(* Fault: the deadline is dex's, which may be gone by then. *)
SleeperWakes_InDex ==
  /\ sleeper = "asleep" /\ dex = "alive"
  /\ sleeper' = "dead"
  /\ kubectl' = "gone"
  /\ UNCHANGED <<start, started, sh, record, stopped, stranger, dex>>

(* sleep D; kill $child *)
SleeperWakes ==
  /\ sleeper = "asleep"
  /\ sleeper' = "dead"
  /\ kubectl' = "gone"
  /\ UNCHANGED <<start, started, sh, record, stopped, stranger, dex>>

(* exec.CommandContext kills the shell, and only the shell, when the call's *)
(* context ends.  Nobody waits for it: while dex lives it is a zombie, and  *)
(* processExited never sees it gone.                                        *)
ContextKillsShell ==
  /\ ctx = "over" /\ dex = "alive"
  /\ sh \in {"fresh", "forked", "waiting"}
  /\ sh' = "dead"
  /\ UNCHANGED <<start, started, kubectl, sleeper, record, stopped, stranger, dex>>

(* waitForPortForward: something listens on the port.                       *)
Reachable ==
  /\ dex = "alive" /\ start = "dialing"
  /\ kubectl = "serving" \/ stranger
  /\ start' = "recording"
  /\ UNCHANGED <<started, group, record, stopped, stranger, dex>>

(* Fault: the shell is killed, not its group. *)
KillGroup_Leader ==
  /\ sh' = IF sh = "none" THEN "none" ELSE "dead"
  /\ UNCHANGED <<kubectl, sleeper>>

(* syscall.Kill(-pid, SIGTERM); a group without processes is no error.      *)
KillGroup ==
  /\ sh' = IF sh = "none" THEN "none" ELSE "dead"
  /\ kubectl' = IF kubectl = "none" THEN "none" ELSE "gone"
  /\ sleeper' = IF sleeper = "none" THEN "none" ELSE "dead"

(* Nothing is reachable for five seconds, or the record cannot be written.  *)
StartFails ==
  /\ dex = "alive" /\ start \in {"dialing", "recording"}
  /\ KillGroup
  /\ start' = "returned" /\ started' = "failed"
  /\ UNCHANGED <<record, stopped, stranger, dex>>

WriteRecord ==
  /\ dex = "alive" /\ start = "recording"
  /\ record' = TRUE
  /\ start' = "returned" /\ started' = "ok"
  /\ UNCHANGED <<group, stopped, stranger, dex>>

(* PortForwardStop with the id that Start returned, in this dex or another: *)
(* the group comes from the record, which stays.                            *)
Stop ==
  /\ record /\ started = "ok"
  /\ KillGroup
  /\ stopped' = TRUE
  /\ UNCHANGED <<start, started, record, stranger, dex>>

StrangerChanges ==
  /\ stranger' = ~stranger
  /\ stranger' => kubectl # "serving"
  /\ UNCHANGED <<start, started, group, record, stopped, dex>>

DexEnds ==
  /\ dex = "alive"
  /\ dex' = "gone"
  /\ UNCHANGED <<start, started, group, record, stopped, stranger>>

Group ==
  \/ ShellRunsKubectl \/ ShellRunsSleeper \/ ShellEnds
  \/ KubectlServes \/ KubectlExits \/ SleeperWakes

ForwardNext ==
  /\ call = "forward"
  /\ \/ StartShell \/ Group \/ ContextKillsShell \/ Reachable
     \/ StartFails \/ WriteRecord \/ Stop \/ StrangerChanges \/ DexEnds

(* The shell is scheduled, and sleep ends.                                  *)
ForwardFairness ==
  /\ WF_forwardVars(ShellRunsKubectl \/ ShellRunsSleeper)
  /\ WF_forwardVars(SleeperWakes)

-----------------------------------------------------------------------------
ForwardTypeOK ==
  /\ start \in {"idle", "begin", "dialing", "recording", "returned"}
  /\ started \in {"none", "ok", "failed"}
  /\ sh \in {"none", "fresh", "forked", "waiting", "dead"}
  /\ kubectl \in {"none", "starting", "serving", "gone"}
  /\ sleeper \in {"none", "asleep", "dead"}
  /\ {record, stopped, stranger} \subseteq BOOLEAN
  /\ dex \in {"alive", "gone"}

(* A start that failed leaves nothing running, nor anything that would still *)
(* run kubectl; and once a stop says so, the forward is gone for good.       *)
(* (kuberneteshost/provider.go: kubectl is not dex's child but its           *)
(* grandchild, and dex may have killed the shell in between.)                *)
StoppedIsGone ==
  started = "failed" \/ stopped =>
    ~KubectlRuns /\ sh \in {"none", "dead"} /\ sleeper # "asleep"

(* "Port-forwards auto-expire after duration_seconds" (docs/endpoints.md),   *)
(* also when the call's context is over and when dex is gone.  The code has  *)
(* one case where they do not, left out here: the context ended before the   *)
(* shell had run the sleeper.                                                *)
Expires == KubectlRuns ~> (~KubectlRuns \/ (sh = "dead" /\ sleeper = "none"))

=============================================================================
