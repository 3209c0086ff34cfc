----------------------------- MODULE IndexStore -----------------------------
(***************************************************************************)
(* The index snapshots of one plugin instance, a file for each index, and  *)
(* the builds that save them: Runner.BuildIndex in several dex processes.  *)
(*                                                                         *)
(* A file is the sequence of its parts, each known by the build that wrote *)
(* it.  A snapshot has one part, or a second one when it has records.  The *)
(* records of a build are of the entity a call may ask for, or of others.  *)
(***************************************************************************)
EXTENDS Naturals, Sequences

CONSTANTS
  Index,    (* the indexes the plugin may build *)
  Builds    (* the builds that may happen *)

ASSUME IndexStoreAssumption == "absent" \notin Builds

VARIABLES
  files,   (* what each file holds *)
  build    (* where each build stands *)

storeVars == <<files, build>>

Absent == <<"absent">>
NoIndex == "none"
Idle == [at |-> "idle", indexes |-> {}, todo |-> {}, now |-> NoIndex, size |-> 1,
         named |-> FALSE, alone |-> FALSE]

StoreInit ==
  /\ files = [i \in Index |-> Absent]
  /\ build = [b \in Builds |-> Idle]

Running(b) == build[b].at \in {"saving", "writing"}

Snapshot(b) == [k \in 1 .. build[b].size |-> b]
Whole(content) == \E b \in Builds : content = Snapshot(b)

(* loadIndexSnapshots: one file that does not parse fails them all.         *)
Loadable == \A i \in Index : files[i] = Absent \/ Whole(files[i])

HasRecords == \E i \in Index : Len(files[i]) = 2

(* Fault: the entity is looked for in the first snapshot alone, and not     *)
(* found if another one comes before. *)
HasIndexedEntity_First ==
  \E i \in Index :
    /\ Len(files[i]) = 2 /\ build[files[i][2]].named
    /\ \A j \in Index : Len(files[j]) = 2 => i = j

(* HasIndexedEntity, for the entity a call asks for.                        *)
HasIndexedEntity == \E i \in Index : Len(files[i]) = 2 /\ build[files[i][2]].named

(* The operation <plugin>.index.build has answered with some indexes, and   *)
(* with or without records, of the entity or of others.                     *)
BeginBuild(b) ==
  /\ build[b].at = "idle"
  /\ \E indexes \in SUBSET Index \ {{}}, n \in 1 .. 2, named \in BOOLEAN :
       /\ named => n = 2
       /\ build' = [c \in Builds |->
            IF c = b THEN [at |-> "saving", indexes |-> indexes, todo |-> indexes, now |-> NoIndex,
                           size |-> n, named |-> named, alone |-> \A d \in Builds : ~Running(d)]
                     ELSE [build[c] EXCEPT !.alone = FALSE]]
  /\ UNCHANGED files

(* Fault: the file is not truncated. *)
OpenSnapshot_Keeps(b, i) ==
  /\ build[b].at = "saving" /\ i \in build[b].todo
  /\ files' = [files EXCEPT ![i] = IF @ = Absent THEN <<>> ELSE @]
  /\ build' = [build EXCEPT ![b].at = "writing", ![b].now = i]

(* os.WriteFile creates or truncates the file of the next index ...          *)
OpenSnapshot(b, i) ==
  /\ build[b].at = "saving" /\ i \in build[b].todo
  /\ files' = [files EXCEPT ![i] = <<>>]
  /\ build' = [build EXCEPT ![b].at = "writing", ![b].now = i]

(* ... and writes from its start, over what another build wrote since.      *)
Overwrite(old, new) == new \o SubSeq(old, Len(new) + 1, Len(old))

WriteSnapshot(b) ==
  /\ build[b].at = "writing"
  /\ files' = [files EXCEPT ![build[b].now] = Overwrite(@, Snapshot(b))]
  /\ build' = [build EXCEPT ![b].at = "saving", ![b].todo = @ \ {build[b].now}]

(* The plugin is marked active, or that fails with all snapshots stored.    *)
FinishBuild(b) ==
  /\ build[b].at = "saving" /\ build[b].todo = {}
  /\ \E how \in {"stored", "failed"} : build' = [build EXCEPT ![b].at = how]
  /\ UNCHANGED files

(* A crash, a full disk, an index without a name.                           *)
BuildStops(b) ==
  /\ Running(b)
  /\ build' = [build EXCEPT ![b].at = "failed"]
  /\ UNCHANGED files

BuildStep(b) ==
  \/ BeginBuild(b) \/ (\E i \in Index : OpenSnapshot(b, i)) \/ WriteSnapshot(b)
  \/ FinishBuild(b) \/ BuildStops(b)

-----------------------------------------------------------------------------
StoreTypeOK ==
  /\ files \in [Index -> {Absent} \cup Seq(Builds)]
  /\ build \in [Builds ->
       [at : {"idle", "saving", "writing", "stored", "failed"}, indexes : SUBSET Index,
        todo : SUBSET Index, now : Index \cup {NoIndex}, size : 1 .. 2, named : BOOLEAN,
        alone : BOOLEAN]]

(* What a build stored stands in its own files, whole, whatever earlier     *)
(* builds left in them, cut short or torn, unless another one has begun     *)
(* since or had not ended.  If these are all the files there are, the index *)
(* loads again; one torn file that this build had no part in still fails    *)
(* every load.  (runtime/index.go: SaveIndexRecordsWithMetadata, without a  *)
(* lock; loadIndexSnapshots.)                                               *)
LoneBuildStored ==
  \A b \in Builds : build[b].at = "stored" /\ build[b].alone =>
    /\ \A i \in build[b].indexes : files[i] = Snapshot(b)
    /\ {i \in Index : files[i] # Absent} \subseteq build[b].indexes => Loadable

=============================================================================
