---------------------------- MODULE IndexedSearch ----------------------------
(***************************************************************************)
(* A datasource call as far as the index goes: InvokeInstance answers it   *)
(* from the host's own index if it can, before it asks the plugin, and     *)
(* completes the plugin's records from the index afterwards.  Meanwhile    *)
(* other dex processes build.                                              *)
(*                                                                         *)
(* A search or a lookup names an index (its datasource), or else an        *)
(* entity, or neither; a get names an index or nothing.                    *)
(***************************************************************************)
EXTENDS IndexStore

ASSUME IndexedSearchAssumption == {"entity", "any"} \cap Index = {}

VARIABLES
  look,     (* where the call stands *)
  wanted,   (* the index it names, "entity", or "any" if it names neither *)
  answer,   (* what it returned *)
  steady    (* whether no build came near the files since it began *)

searchVars == <<look, wanted, answer, steady>>

Wanted == Index \cup {"entity", "any"}

SearchInit ==
  /\ StoreInit
  /\ look = "idle"
  /\ wanted \in Wanted
  /\ answer = "none"
  /\ steady = FALSE

Answers(how) == look' = "ended" /\ answer' = how

BeginSearch ==
  /\ look = "idle"
  /\ look' = "records"
  /\ steady' = \A b \in Builds : ~Running(b)
  /\ UNCHANGED <<wanted, answer, storeVars>>

(* hostIndexDatasource.Response loads the snapshots up to three times.      *)
LoadFails ==
  /\ look \in {"records", "handle", "index"}
  /\ ~Loadable
  /\ Answers("unreadable")
  /\ UNCHANGED <<wanted, steady, storeVars>>

LookForRecords ==
  /\ look = "records" /\ Loadable
  /\ look' = IF ~HasRecords THEN "plugin" ELSE IF wanted = "any" THEN "index" ELSE "handle"
  /\ UNCHANGED <<wanted, answer, steady, storeVars>>

(* shouldHandle, with a datasource: HasIndex.                               *)
LookForIndex ==
  /\ look = "handle" /\ Loadable
  /\ wanted \in Index
  /\ look' = IF files[wanted] = Absent THEN "plugin" ELSE "index"
  /\ UNCHANGED <<wanted, answer, steady, storeVars>>

(* shouldHandle, with an entity and no datasource.                          *)
LookForEntity ==
  /\ look = "handle" /\ Loadable
  /\ wanted = "entity"
  /\ look' = IF HasIndexedEntity THEN "index" ELSE "plugin"
  /\ UNCHANGED <<wanted, answer, steady, storeVars>>

SearchIndex ==
  /\ look = "index" /\ Loadable
  /\ Answers("index")
  /\ UNCHANGED <<wanted, steady, storeVars>>

(* The plugin is asked.  Its records may hold relations to complete, unless *)
(* it fails, or says none, or its manifest cannot be had.                   *)
AskPlugin ==
  /\ look = "plugin"
  /\ \/ Answers("plugin")
     \/ look' = "enrich" /\ UNCHANGED answer
  /\ UNCHANGED <<wanted, steady, storeVars>>

(* enrichDatasourceSearchResponse: an index that does not load fails the    *)
(* call that the plugin has answered.                                       *)
Enrich ==
  /\ look = "enrich"
  /\ Answers(IF Loadable THEN "plugin" ELSE "lost")
  /\ UNCHANGED <<wanted, steady, storeVars>>

OtherBuilds ==
  /\ \E b \in Builds : BuildStep(b)
  /\ steady' = FALSE
  /\ UNCHANGED <<look, wanted, answer>>

Search ==
  \/ BeginSearch \/ LoadFails \/ LookForRecords \/ LookForIndex \/ LookForEntity
  \/ SearchIndex \/ AskPlugin \/ Enrich

SearchNext == Search \/ OtherBuilds

-----------------------------------------------------------------------------
SearchTypeOK ==
  /\ StoreTypeOK
  /\ look \in {"idle", "records", "handle", "index", "plugin", "enrich", "ended"}
  /\ wanted \in Wanted
  /\ answer \in {"none", "index", "unreadable", "plugin", "lost"}
  /\ steady \in BOOLEAN

(* With no build near, three loads are as good as one: a call is answered   *)
(* from the index exactly when it can be read, has records, and has the     *)
(* index that is named or, if only an entity is, a record of that entity;   *)
(* it fails because of the index only before the plugin is asked, and no    *)
(* answer of the plugin is lost for it.                                     *)
(* ("Host-owned index lookup is used when an index exists", README.md;      *)
(* runtime/host_index_datasource.go, runtime/datasource_enrichment.go.)     *)
AnsweredFromIndex ==
  steady /\ look = "ended" =>
    /\ answer = "unreadable" <=> ~Loadable
    /\ answer = "index" <=>
         /\ Loadable
         /\ \E i \in Index : Len(files[i]) = 2
         /\ wanted \in Index => files[wanted] # Absent
         /\ wanted = "entity" =>
              \E i \in Index, b \in Builds : files[i] = <<b, b>> /\ build[b].named
    /\ answer # "lost"

=============================================================================
