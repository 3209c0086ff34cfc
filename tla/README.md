# TLA+ models of fluxplane-dex

`dex` runs integrations ("plugins") as separate processes on behalf of a CLI, an
embedding Go program, or a fluxplane host. This directory holds TLA+ models of
the parts of it where order, failure and concurrency matter, the TLC
configurations that check them, and TLAPS proofs. Line references are to
files under `src/`.

## The system

| part | state it keeps | operations | what is hard |
|---|---|---|---|
| Framed invocation (`runtime/runner.go`) | one child process (and its own, under `go run`), its pipes, a deadline | `InvokeInstance`, `invokeRequestV2`, host calls and events | two writers on two pipes, limits on stdout and stderr, a deadline that kills one process of several, half-written frames |
| Plugin SDK loop (`protocol/pluginmain.go`) | frame ids, encoder and decoder | `Serve`, `CallHost`, `EmitHostEvent` | pairing replies with calls |
| Installed-plugin registry (`runtime/plugins.go`, `plugins.go`, `auth.go`) | `plugins/installed.json`, `plugins/bin` | install, upgrade, mark, activate, deactivate, uninstall | read-modify-write without a lock, truncate-then-write, crashes |
| Contribution bundles (`fluxplaneplugin/bundle.go`, `intent.go`) | a slice shared by up to 8 goroutines | `Bundles`, `buildIntentBundle` | cancellation at any moment, an unbuffered channel |
| Adapter caches (`fluxplaneplugin/plugin.go`) | a manifest per adapter, one intent index | host hooks | a lock released over the fetch, `sync.Once` |
| Grants and host calls (`runtime/secret.go`, `runner.go`) | `grants/*.json`, stored secrets | `CreateGrant…`, `ResolveSecret`, `handleHostRequest` | scope from a manifest read anew each time, upgrades in between, expiry against timeouts |
| Endpoint registry (`runtime/endpoints.go`) | `registry.json` | save, health, remove | as the plugin registry |
| Index store and host datasource (`runtime/index.go`, `host_index_datasource.go`, `datasource_enrichment.go`) | one snapshot file per index | build, search, get, enrich | files written in place by several processes, torn files, an index that answers in a plugin's place |
| Provider fan-outs (`runtime/websearch_builtin.go`, `vision_builtin.go`) | result slots, a semaphore, a wait group | web search, vision | result order, tokens, cancellation |
| Auth flow (`auth.go`) | stored values | save, connect, auto-connect | partial failure before the mark in the registry |
| Plugin bindings (`core/pluginbinding`) | handler tables, a cache | dispatch, batch, datasources | batch results, handler selection |
| Docker and Kubernetes hosts (`internal/…`) | a pipe; process groups and their records | requests, archives, port-forwards | two goroutines on one pipe and one directory; processes that outlive their call |
| Concrete plugins (`plugins/…`) | none of their own; the service's | requests to a service | operations of several requests that fail half-way, lost replies, other users (Jira's walk through a workflow, texts with images) |
| CLI, defaults | none of their own | parsing, formatting | — |

A call enters at a service of the `Engine` (or the CLI), which asks the `Runner` to
invoke a plugin. The runner starts the plugin's binary, named by the registry,
writes one request frame, and answers the plugin's own requests (secrets, HTTP,
files, Docker, …) until the response frame arrives. `fluxplaneplugin` wraps every
plugin for a fluxplane host and fetches manifests through the same invocations.

## Modules

### Invocation: `RemoteCall`, `PluginInvocation`, `SdkPlugin`

`RemoteCall` is the promise: the plugin says frames, the host hears them in order,
the first closing frame is the last one heard, the call returns only when the
process that was started is gone and returns the plugin's answer only if that frame was it.

`PluginInvocation` is `invokeRequestV2` (`runner.go:493-607`). `host` is where the
function stands; `outbox` is the frame its encoder writes; `inp`/`taken` and
`out`/`read` are the two pipes, each a log of chunks and a read count; `proc` the
process that was started; `ends` the pipes (stderr's too) that some process still holds at the
other end; `stderrOver` the `limitedBuffer`'s overflow; `ctx` the context and whether
`exec.CommandContext` has killed; `result` what will be returned after `Wait`.
Frames are cut into chunks so that a writer can block, or die, within one.
Each `Hear…` action is a case of the loop; `HearTooMuch` is `limitedReadCloser`. A host call or an
event is taken by `HearCall` and done by `Serve`, in the loop's own goroutine (`runner.go:585`, `:597`): nothing
says that `Serve` ever happens.

`cmd.Wait` is two steps, because `cmd.Stderr` is a buffer and no `WaitDelay` is set: `HostReap`
waits for the process, `HostWait` for everyone who holds its stderr. A plugin in development or
from a local path runs under `go run` (`runner.go:1027-1043`, `:1488-1492`), and the kill reaches `go` alone. The
constant `Descendants` says whether the process may leave such others behind: when it ends, any
of the pipes may stay open. The plugin is external: it may write any chunk, read, overflow stderr, close a pipe
and exit at any time, and what it leaves behind may do the same.

`SdkPlugin` replaces that arbitrary process by `protocol.Serve` with a handler that
calls the host, emits events and answers (`pluginmain.go:39-127`). It EXTENDS
`PluginInvocation` and adds to its `PluginWrite`, `PluginRead` and `PluginExit` when `Serve` takes them, and with what. It
is one process, without descendants, and its request is one it accepts.

### Registry: `InstalledPlugins`, `PluginRegistry`

`InstalledPlugins` is the promise to a client: the operation it asked for, done to its own record, or nothing,
or the loss of everything. `PluginRegistry` is the code: each actor
(a goroutine or another process) goes through `ReadFlag` (upgrade only),
`Build` (`go install`), `Load`, `Remove` (uninstall only), `Open` (truncate) and
`Write`. `file` says whether installed.json is absent, whole, empty or torn; `saved`
is what it says when whole, `mem[a]` what actor `a` is about to save. A record's
path, version and times are left out: a path is set exactly when the record is
managed. "mark" is `AuthService.markInstalled`, reached by every connect flow.

### Bundles: `BundlePool`

`Bundles` and `buildIntentIndex`. `sender` is the calling goroutine, `pc`/`job` the
workers, `out` the shared slice, `err` is `firstErr`, `caller` and `done` the
caller's context and the one derived from it, `intent` the intent index's fetches. A
bundle is known by how its fetch ended: `whole`, `stub` (no manifest to be had) or
`cut` (the end of a context of the pool or the caller). A fetch that fails for reasons of its own, its own
timeout among them, is a stub: it leaves the intent bundle incomplete too, and nothing promises otherwise.

### Adapter caches: `AdapterCache`

`cachedManifest` and `cachedIntentIndex` of all adapters wrapped by `All`, with
callers running hooks at once while plugins are installed or upgraded. A manifest is the version
it was read from. `seen` is a history variable: what was installed when the
call began.

### Connecting: `AuthFlow`

`Save`, `Connect` and `AutoConnect` (`auth.go`). A connect is given values (the prompter or
the environment is done by then), saves them one by one in any order (`SaveValue`; the code
ranges over a map), and marks the plugin installed when enough were given. `stored` is what the secret store
has, `flow[a]` where an actor's connect stands. A save that fails ends the connect and may leave
the field's old value or none. The option to be content with part of the required
fields is looked at only in that decision. The mark is an operation of `PluginRegistry`, which the module EXTENDS and
drives; every other operation of the registry goes on around it.

### The host's own operations: `HostOperation`, `Gather`, `Fanout`, `ArchiveCopy`, `PortForward`, `ProviderCalls`

Three operations the host carries out under the context of an invocation
(`HostOperation`: it is live until its deadline, a cancellation or the return). `ProviderCalls`
composes them; a behaviour follows one.

`Gather` is what a fan-out promises: each job's provider asked once, at most `Limit` at a
time, the answers returned in the order of the jobs, behind the errors of the selection (`refused`). `Fanout` is the code of
`runWebsearch` and `runVision`: a goroutine per job (`pc`), a channel as semaphore (`sem`), a slot per job
(`slots`), a wait group, and behind it a loop that adds one slot at a time to the `output` (`reported` of
them so far). It refines `Gather`, which says without a loop which results and errors the report lists, and in which order.

`ArchiveCopy` is `ContainerCopyFrom` (`dockerhost/client.go`): `fwd` is the goroutine that reads
Docker's archive and forwards the entries it accepts through an `io.Pipe`, `untar` the
extractor at the other end. The pipe has no buffer, so a write is over when
its reader took it; the forwarder then looks at the destination for the next entry while the
extractor still creates the last one. `disk` and `before` are what the destination holds, now and at the beginning.
The tree has two levels, so that an entry may lie below a name that another entry makes a link, a
directory or a file; `leads` says where a link of the first level leads. `Refused` is every check of the
forwarder (`client.go:1570-1608`, `:1637-1685`), made on the `disk` of that moment. Hard links, fifos and devices are the kind `other`:
as in the `default` branch (`:1613-1616`), they are forwarded like directories, their destination not looked at, and not listed. That an
entry's path or target leaves the destination is an attribute of the entry, since the code finds it by the text alone.
The archive library is external (`Fits`, `Placed`): it replaces what is in an entry's place, follows links on the way, and may give up at any entry.

`PortForward` is the Kubernetes provider's: a shell (`sh`) that forks `kubectl` and a
`sleeper`, in a process group whose id is kept in a `record`. The context kills the
shell alone. Starting succeeds when something answers on the local port, which may be a `stranger`.

### Before and around a plugin: `IndexStore`, `IndexedSearch`, `HostCalls`, `InstanceCalls`

`InstanceCalls` follows one of two parts of `InvokeInstance`; they share no state.

`IndexStore` is `BuildIndex` of several dex processes. A file is a sequence of parts,
each known by the build that wrote it, so that a torn file, or a short snapshot with the tail of a longer one
behind it, is seen. A build's records are of the entity that the call may ask for, or of others (`named`).
`IndexedSearch` is the datasource call: the host looks whether the
index has records, then, as `shouldHandle` does, whether it has the index that is named (`LookForIndex`) or, if only an entity
is, a record of it (`LookForEntity`); it answers from the index, or asks the plugin and then
completes its answer from the index. Each look loads every file.

`HostCalls` is the grant: its scope is read from the manifest for the operations called
or the datasources named, and the plugin's requests are checked against it; for `endpoints.discover` it is the
Kubernetes provider, whatever the manifest says. Each look at the
manifest runs the plugin once more, so `installed` may change between the look for the grant
and the version that runs (`running`). `clock` counts towards `Timeout` and `TTL`;
`served` and `refused` are histories.

### Jira: `TransitionWalk`, `IssueImages`, `JiraIssues`

`JiraIssues` follows one of two operations of the plugin; Jira is external and may
refuse, or act and lose its reply.

`TransitionWalk` is `TransitionRun`: read the status, read the transitions, choose,
post, and again until the target is reached, nothing is left to try or the limit of steps is hit.
Other users move the issue between any two requests, so an id may by then lead elsewhere.
`done` is what Jira did on the operation's behalf, `applied` what it will report.

`IssueImages` is `IssueCreate`, `CommentAdd`, `CommentEdit` and `IssueEdit` with images
held by the host. A new issue is created first, its images uploaded and its description written again;
the other texts are written after the uploads. `created` says what the operation knows of the new issue: a reply without a
key is a success that uploads nothing and warns of nothing (`client.go:113-119`, `operations.go:377-395`).

## Runs

| run | shows | bounds |
|---|---|---|
| `any_plugin` | types; host calls answered in turn, in full and once; implements `RemoteCall`; with a deadline it returns, but for a host call or sink that never does and a descendant that keeps a pipe | pipe of 1 chunk, stdout limit 2, frames up to 2 chunks, descendants |
| `sdk_plugin` | each host call gets its own reply; an answer is not lost; never a deadlock between host and plugin | pipe of 1, limit 5, frames up to 2, 3 host calls or events |
| `registry_crash` | one actor: whole operations or loss; no managed record without a binary; no mark before the values are stored | 2 plugins with 2 fields, one of them required; crashes and disk errors at every step |
| `registry_shared` | an unreadable registry is never readable again | 2 actors, 1 plugin, crashes |
| `registry_race` | **violation**: two goroutines lose a record | 2 actors, 2 plugins, no crashes |
| `bundle_pool` | all bundles or an error; slots written once and before they are read; returns | 4 entries, 2 workers |
| `bundle_intent` | **violation**: an incomplete intent bundle in a successful call | 2 entries, 2 workers |
| `adapter_cache` | failures not remembered; one index | 2 callers, 2 plugins, 2 versions |
| `adapter_index` | **violation**: a plugin installed late never enters the index | 1 caller, 1 plugin |
| `provider_calls` | a fan-out reports what was answered, refines `Gather`, returns; a copy lists its files and links, keeps what was there (two exceptions), ends (one); a port-forward that failed or was stopped is gone, any other expires (one exception) | 3 jobs, limit 2; archives of up to 2 entries, with 2 names and one below each |
| `instance_calls` | a lone build's own files are whole; the index answers exactly when it can; a plugin is served what its manifest declares, no more and, without an upgrade, no less | 2 indexes, 2 builds; 2 operations, 3 manifests; timeout 1, grant 2 |
| `jira_issues` | a walk to a target that says it arrived did, and says what was done; a created issue is never an error; a comment or an edit shows up whole | 4 statuses, 6 transitions, 2 steps by default and 3 at most; 2 images |

Why the bounds are enough: a pipe of one chunk against frames of two makes every
write block, in both directions, and be interrupted within a frame. The stdout
limit of 2 allows a request, part of a frame or an event before the answer, and is reached by each; longer
conversations are `sdk_plugin`'s, whose limit is 5.
`sdk_plugin` needs two calls so that one could take the other's reply, and a third frame so that
a limit falls in the middle. Two actors suffice for a lost update or a torn
file, since each step of the registry reads or writes the file once. Four entries for two workers
make each worker come back for a second job and the sender wait. Two callers meet in
each cache, two versions make an upgrade. Three jobs for two tokens make one
wait and take over a token. The race of the copy is between one entry and the next: two entries of any
kind and place let the forwarder check the second before the first is there, a name come twice, and a link be
followed by an entry below it; a second name is where it leads. Two builds overlap, in either order, with snapshots of one part and of
two; a third file state, torn, needs no third build. Two operations are the least whose scopes differ; the
manifests have overlapping needs, a provider in place of the network, and no need at all. Timeout
1 and grant 2 put the deadline just before the expiry. In the workflow one id leads to different
statuses, two ways lead to the same target, and a walk may spend its steps before it arrives. Two images let the first succeed and the second fail. `CHECK_DEADLOCK FALSE` is set where the
modelled call really ends.

Fairness: `any_plugin` assumes the host goroutine runs when it can, and that timers
fire and kill (`WF` of `HostNext`, `Expire`, `Cancel`); nothing of the plugin, and nothing of `Serve`. That is
what `Runner.Timeout` with `exec.CommandContext` gives. `sdk_plugin` instead assumes that the host
and the handler keep running, as a handler that terminates does, and that host calls return (`WF` of `Serve`); no deadline is assumed.
`bundle_pool` assumes goroutines are scheduled and each fetch ends. That is more than the timeout of an
invocation gives, by what `Returns` of `any_plugin` excepts: it holds for installed plugins that leave no process behind, and
for any whose own processes end. The caller need never cancel. `provider_calls` assumes that
goroutines are scheduled, that a provider's invocation ends (its own deadline), that the context
ends (the deadline, or the return of `InvokeInstance` itself), and that a shell that was not killed goes
on, its sleep included. Nothing is assumed of Docker's daemon, of kubectl or of strangers. The extractor is
assumed to run. `instance_calls` and `jira_issues` check safety only.

### Disagreements with the documentation

* `registry_race`: `dex.go:38-40` calls the Engine safe to share across goroutines.
  Two connects at once each load installed.json, and the second save drops the
  first one's record.
* `bundle_intent`: `bundle.go:35-36` promises reaction rules "across all dex plugins".
  The pool guards its own bundles against cancellation by looking at the context
  after each build, but the intent bundle behind it is built under the caller's context
  and skips what it cannot fetch, without an error.
* `adapter_index`: `CHANGELOG.md:73` says the cached manifests and intent index keep
  "install failures retryable". The manifests do (`FailuresRetried`); the index,
  built under `sync.Once`, does not.

One more, which no run reports as a violation: `docs/endpoints.md:89-90` says that port-forwards auto-expire. When the
context kills the shell after it has forked kubectl and before it has forked the sleeper, nothing is left to end
kubectl. `Expires` leaves this case out; without its last disjunct TLC finds it.

### What the properties leave out, and why

Each of these is a precondition or an exception in a property, with a comment there. Unless the text
says otherwise nothing promises the opposite.

* With a deadline, `Returns` of `any_plugin` excepts two things it does not reach: a host call or an
  `EventSink` that does not return, which the loop runs itself, and a process left behind by the
  one that was killed that keeps stdout, stderr or stdin open (`go run`'s child).
* If the extractor gives up before the archive ends, the forwarder stays blocked on a pipe nobody
  reads, and the copy waits for it (`CopyEnds` excepts it): a deadlock of the code.
* `KeepsExisting`, without `overwrite`, is about regular files, links and directories of the archive. A hard link, fifo or
  device is forwarded without a look at its place and replaces what is there. An entry
  below a name may be checked before the extractor has made that name a link, and then lands where the link leads. A name that comes twice in
  an archive is refused or replaces its first entry, depending on how far the extractor is.
* `CopiesReported` says that the list has the files and the links, and not that the kinds outside it are absent; it says of an entry that the destination holds it only if no later
  one shares its name or directory and no link of the archive leads it away.
* When the context ends after the shell has forked kubectl and before it has forked the sleeper, the
  forward never expires, against `docs/endpoints.md:89-90`; it can still be stopped (`Expires` excepts it). A successful start may be a stranger's listener.
* Two overlapping builds may both report success and leave a file no call can load
  (`LoneBuildStored` asks for a build with no other near it). A torn file of an index that
  is no longer built, or that a build of selected indexes leaves alone, stays, and fails every load: a lone build then still has
  its own files whole, and no more is said. When such a file appears while a plugin answers, its answer is
  lost (`AnsweredFromIndex` asks for a steady store).
* An embedding program that sets a timeout of five minutes or more, or none, lets a grant expire within its
  call (`HostCalls` assumes `Timeout < TTL`, as the CLI and the Engine's default have it). An upgrade
  between the grant and the process may get a plugin refused what its new manifest declares.
* `ReachedWhenSaid` is about walks with a target and `auto_transition`. Without a target one transition is made,
  and if the readback that follows it fails the status returned is the one before. A walk that fails reports an error
  without the transitions it made, the last of which may have led elsewhere than its name said.
* A lost reply to a creation is an error although the issue exists. A reply
  without a key is a success without any of the images, and an upload Jira takes without giving a link is not shown:
  of neither is there a warning. A comment that fails may leave attachments.

## Proofs

All theorems hold for every value of the constants, under the modules' ASSUMEs,
which say that sizes are natural numbers (positive for the pipe, the limits, the
frame length, the number of workers and the default steps), that switches are Booleans and that the
model's own markers are not among the constants' elements; `HostCalls` also assumes that the
timeout is shorter than the grant's life, and `TransitionWalk` that the default number of steps is at most the
greatest.

* `PluginInvocationProofs`: `TypeOK`, `AnsweredInTurn`, and the refinement of
  `RemoteCall`. The invariant adds to the types: what the encoder holds
  corresponds to the frame last read, a reply in the pipe is for a frame that was
  read, every host call before the current one has its reply, a result comes from
  the last frame heard, and the started process exists only while the call is between start and
  the end of its wait. `AnsweredInTurn` alone is not inductive: nothing in it says which reply a
  half-written frame belongs to.
* `SdkPluginProofs`: an SDK plugin's call is a `RemoteCall` (`SdkCallIsRemote`; the steps are built from those of the
  arbitrary plugin, so the previous invariant carries over), `CallsMatch` and
  `AnswerDelivered`. The invariant follows
  the one call in progress: while it waits, everything unread in stdin is parts of
  its own reply, and its request is the only one unanswered. `NeverStuck`, which TLC checks as the absence of
  deadlocks, needs in addition what each side owes the other (`Owed`): the root request that the plugin waits for is
  in the pipe or being written, the reply that the handler waits for was asked for and not taken yet, and a host that waits with
  an error waits for a process that has ended.
* `PluginRegistryProofs`: `NeverRepaired` for any number of actors; `RecordedWhenBuilt` and the
  refinement of `InstalledPlugins`, which two actors violate (`registry_race`), under the weakest lock we found to
  be enough. `LockedImplements` assumes that no two actors have read what they will save from
  (`OneReads`: from the load, and for an upgrade from the reading of the flag, to the save), and then takes any
  number of actors, crashes and disk failures. The invariant says of each
  actor that has read (`Knows`) that its memory is the file with one record revised, that an upgrade's flag is still the plugin's, and that the
  file is whole or absent until it truncates it. `LockedRecordsBuilt` needs the lock from an install's build on
  (`OneReadsOrBuilt`): otherwise an uninstall removes the binary between build and load, and TLC shows it. The code
  has no such lock; one actor satisfies both hypotheses, which gives `OneActorImplements` and
  `OneActorRecordsBuilt`. Every step of `AuthFlow` is one of the registry's or
  leaves it alone, so these theorems hold while plugins are connected.
  `ConnectsStored` is `ConnectedIsStored` for any number of actors; its invariant says that each value
  given is stored or still to be saved. Its hypothesis (`NobodyElsesLoss`) is that a failing save of
  one of two actors that connect the same plugin leaves the fields their values; TLC finds the violation
  without it, and a single actor always satisfies it (`OneActorConnects`).
* `BundlePoolProofs`: `AllOrCancelled` and `SlotsSettle` for any number of entries and
  workers. The invariant: an entry handed out is built or being built by exactly one worker,
  a bundle that was cut short has set the error or its worker stands before the check
  that will, and the sender stops early only with the error set. `NeverStuck` rests on one
  more fact, that a worker leaves an open channel only after the pool's context is done.
* `AdapterCacheProofs`: `FailuresRetried` and `OneIndex` for any number of callers and
  plugins. The invariant: versions only grow, so nobody knows of one newer than what is
  installed; a hook between fetch and store holds a manifest that was installed; and
  one goroutine builds the index while `once` is running. `IndexComplete` bounds the violation of `adapter_index`: as
  long as no plugin is installed for the first time and no fetch of the builder is cut short, the index has all that was
  installed when a hook began. With either hypothesis dropped TLC finds the violation.
* `ProviderCallsProofs`: the refinement of `Gather` and `EveryJobReported` for any number of jobs and any limit,
  `CopiesReported` and `KeepsExisting` for archives of any length, any names and anything below them, and `StoppedIsGone`. The invariant
  counts: the tokens in the semaphore are the jobs between acquire and release, a slot holds what its own job got, the output
  lists the results and errors of the slots the loop has been through (`FanReports`), the list
  of the forwarder and the work of the extractor differ by the entry under way, both are at the same
  place of the archive (`CopyMeets`), what was there is there unless one of the two exceptions came to it (`CopySpares`), and
  the shell, kubectl and the sleeper come into being in that order. From it follow the safety halves of the
  liveness properties: a fan-out that has not returned can go on (`FanoutNeverStuck`), and so can a copy
  unless the extractor gave up (`CopyNeverStuck`); a kubectl that runs has a sleeper or a shell about to
  make one, unless the context killed the shell in between (`RunningIsWatched`).
* `InstanceCallsProofs`: `LoneBuildStored`, `AnsweredFromIndex`, `ServedAsDeclared` and `DeclaredIsServed`
  for any indexes, builds, operations and manifests. The invariant says what a build that is still
  alone has done to each file, and that a grant's scope is what one of the versions installed since the call began declares.
* `JiraIssuesProofs`: `ReachedWhenSaid`, `AppliedReported`, `CreatedIsSaid` and `TextWhole` for
  any workflow, any other users and any number of images. The invariant relates what will be
  reported to what Jira did (they differ by at most the request under way), and a text
  to the links that were replaced.

Every safety property of a passing run is stated by a theorem. Only model-checked: `Returns` (of `any_plugin` and of
`bundle_pool`), `SdkReturns`, `FanoutReturns`, `CopyEnds` and `Expires`, because liveness under fairness is beyond the
prover, as `ENABLED` is. The theorems on deadlocks therefore state the guards of the steps, spelled out in the proof module
(`HostCanMove`, `SdkCanMove`, `PoolCanMove`, `FanCanMove`, `CopyCanMove`) rather than that the steps are enabled; TLC
found the two the same on the runs' bounds, in a comparison that is not one of the runs. The report of a fan-out is a
loop over slots, and `Gather` says what it lists without recursion, so that no induction over sequences is needed: the loop's
invariant is one.

## Not modelled

* Protocol probing and the unframed V1 call; invalid JSON in the caller's own parameters
  (the root request is always encodable); requests `Serve` rejects, and unframed ones; several goroutines in one handler calling the
  host at once, which no plugin here does.
* The endpoint registry: the same load, change and rewrite as the plugin registry, whose lost
  update `registry_race` shows. Resolving endpoint references into a request (`runner.go:137-301`) reads it and
  changes nothing.
* What the host does for a request it grants: one call of an external service each. Blobs are
  checked against the grant (`runner.go:701`, `:714`, `:727`) as secrets, HTTP and providers are, and are not a request of their own in
  the model; the index requests of a plugin are not checked against it.
* `core/pluginbinding`: dispatch, batches and the selection of datasource handlers are sequential and
  keep no state; the SDK's handler in `SdkPlugin` stands for them.
* The other operations of the concrete plugins. They were read for what is modelled of Jira, and
  make essentially one request each; where a Slack read tries a second token, it
  does so only after a refusal, and a write does not. None starts a goroutine.
* The command line, the tables of the marketplace and the translation between data models in `fluxplaneplugin`.

`PROJECT.json` gives the reason for each component.

## Plan

1. The probe and V1 in front of `PluginInvocation`, with `RemoteCall` as their promise too: each call looks at the
   manifest and probes anew, and a probe that the deadline cuts short sends a framed plugin down the V1 path.
2. `EndpointRegistry` with its rules for merging: what a save keeps of a record's health and of its source.
3. `SdkPlugin` with concurrent host calls in one handler, if a plugin comes to do so.
4. A rename in place of the truncating write in `PluginRegistry` and `IndexStore`, as the change
   that would make `NeverRepaired` and the "lone" in `LoneBuildStored` unnecessary.
