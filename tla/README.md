# TLA+ models of openotters

`ottersd` is the daemon of openotters. It supervises agents (subprocesses made
from OCI images), runs *asynchronous jobs* (executions of an agent's BINs that
outlive the request that asked for them), keeps its state in SQLite, and serves
ConnectRPC over a unix socket and optionally TCP. `src/app` is its dashboard, a
single-page client of the same RPCs. These modules model the places where
goroutines, requests, crashes and the database meet in the daemon, and where
cached answers, drafts, late replies and other clients meet in the dashboard.
TLC checks them on small instances; TLAPS proves the main safety properties for
all values of the constants.

Paths below are relative to the repository root: `internal/...` and `app/...`
here are `src/internal/...` and `src/app/...` in `PROJECT.json`.

## 1. The system

### The daemon

| Component | State | Operations | Hard part | Correct when |
|---|---|---|---|---|
| **Async-job dispatcher** `internal/asyncjobs/{pool,store}.go`, `asyncjobs_handlers.go` | table `async_jobs` (on disk); semaphore, `cancels` map, one goroutine per job (in memory) | `SubmitAsyncJob`, `CancelAsyncJob`, `Boot`, `Shutdown`, `dispatch`/`runOne`, `Mark*`, `DeleteByAgent` | one row is written by a submit handler, a goroutine, the boot pass, a removal and the next process; a crash may fall between any two statements | each job is launched at most once, ends in one terminal status and keeps it; nothing stays pending or running with nobody behind it; cancels reach the BIN; slots are bounded and not leaked |
| **Live output** `asyncjobs/stream.go`, `store.go` | sink buffer, flush goroutine, `stdout`/`stderr` columns | `Write`, ticker flush, `Close`, `AppendStdout`, `MarkDone`'s guarded overwrite | flush in flight while `Close` flushes the tail; appends that fail; captured text shorter than what was streamed | column ordered, complete, never shrinking, visible before the end |
| **Watch** `asyncjobs_handlers.go` | last snapshot sent | poll, compare, send, close | terminal change between polls, row deleted, disconnect | ends, and on the final row |
| **Agent supervision pool** `internal/pool.go` | `agents` map, `retryCancel`, `done`, semaphore, supervisor and probe goroutines | `Add`, `Start`, `Stop`, `Remove`, `runLoop` with backoff, readiness probe, shutdown | fields of `pooledAgent` are read and written by requests and supervisors at different times | one supervisor per agent, slots are accounted for, shutdown drains |
| **RPC recorder** `internal/observability/*.go`, `StreamRPCCalls` | ring, subscriber registry, channels | `Push`, `Subscribe`, cancel, tail | sends happen outside the mutex | ring order, each call at most once and none lost silently, no panic |
| **Links and capabilities** `internal/daemon_links.go`, `state_links.go` | `agent_links`, capability sets, tokens that claim them | `SetAgentLinks`, `SetAgentCapabilities`, refresh | a set replaced statement by statement, or stored without a token that claims it | what is shown comes to be what the daemon answers |
| **Notes and messages** `internal/state_agentstate.go` | notes, `agent_messages` with branches | save, pin, delete; append, branches, replace, list | the agent writes them while the operator reads and edits | nothing of one under another's name; a reload shows the conversation |
| **Images, registry** `internal/images.go`, `registry*.go` | tags, `images` rows | build, pull, remove with its cascade | three steps per removal, while tags move | no row without its tag |
| **Providers** `internal/providers*.go` | `providers.yaml`, expanded copy checked by mtime | list, create, update, delete, edits by hand | one file, many writers; secrets expanded from the environment | a change of one provider touches no other; the copy follows the file |
| **Daemon lifecycle** `internal/daemon.go`, `cmd/ottersd/commands/serve.go` | `d.agents`, persisted agent rows | `CreateAgent`, `Restore`, `Start`, `Stop`, `Remove`, `Serve` | order of boot and shutdown, unlocked map | see 2 and 6 |
| **State store, auth, chat proxy, CLI, TUI, generated API, Agentfiles** | per request, or none | | sequential, rendering or generated code | see 6 |

How they interact. `Serve` runs `Daemon.Run`, `Daemon.Restore` (which hands every
agent that is not persisted as stopped to `Pool.Add`, i.e. starts a goroutine),
`asyncjobs.Pool.Boot`, and only then opens the listeners. A handler that submits
a job resolves the agent in the supervision pool, inserts the row and starts
`runOne`; `runOne` looks the agent up again and runs the BIN in it, with two
sinks writing into the row; watchers and pages poll the row. `Daemon.Remove`
takes the agent out of the pool, deletes its jobs, and deletes its row, on which
`async_jobs` has a cascading foreign key. A signal cancels the pools' root
context and starts `asyncjobs.Pool.Shutdown`. Every request passes the
recorder's middleware. An agent's runtime appends its turns to the message log
through the daemon, also when the page that asked for a reply is gone.

### The dashboard

One React Query client (`app/components/providers/query-provider.tsx`) caches
every answer under its method and arguments, repeats each query on screen every
5 s (1 or 2 s on pages of jobs) and shares the cache between routes. A component
keeps drafts of its own beside the cached answers. Mutations are single calls whose
answers come when they come, also after the component is gone.

| Component | State of its own | Hard part | Correct when |
|---|---|---|---|
| **Chat page** `app/app/agents/[agent]/chat/[session]/view.tsx` | messages with branches, stream, `hydratedRef` | hydration against a first turn, streams into branches, stop, reload, compaction | what streams in is what is read; a reload shows the same; only the user drops turns |
| **Composer** `components/ai-elements/prompt-input.tsx` | files, blob URLs, submissions being converted (the text is the chat page's) | typing, attaching, submitting and leaving during a conversion or a reply | a draft goes only with a prompt; each attached file has one live URL, and no other is left |
| **Highlighter** `components/ai-elements/code-block.tsx` | token cache, subscribers, loader | shared by all blocks, asynchronous | every block shows its own text, and is answered |
| **Grant panels** `components/{links,capabilities}/*.tsx` | draft of a set | a refetch resets the draft; others grant meanwhile | only what was toggled is pending |
| **Notes panel** `components/notes/notes-panel.tsx` | selection, editor, confirmation | the agent writes notes; late answers | no note gets another's body |
| **Agent page** `app/app/agents/[agent]/view.tsx` | tab, pending mutations | answers of different times and failed ones side by side; sessions and removals elsewhere | counts agree; the sessions there are get listed; a removed agent's page is left |
| **Dialogs** `components/{agents,jobs}/*-dialog.tsx`, pull button | form, open flag | defaults refetched under the form, close and re-open, late answers | what starts is what was shown; a success clears the form |
| **Wizard** `app/app/agents/new/page.tsx` | five steps, Agentfile, two calls | build and create are not one step | the review is whole; what starts was submitted |
| **Images, BINs** `app/app/images`, `components/artifact-detail-view.tsx`, `lib/image-tags.ts` | selection, confirmation | one removal per tag | cards add up; no ghosts |
| **Providers** `components/provider-form.tsx`, `app/app/providers` | form snapshot | whole-entry writes | others stand alone |
| **Job page, overview** `app/app/jobs`, `components/jobs`, `components/resource-stats.tsx` | filter, expansion | stops polling by itself | it stops on the truth; short lists are the newest |
| **RPC monitor** `components/rpc/rpc-monitor.tsx` | filters, subscription, buffer, pause | a subscription per filter | the table shows what is asked for, all of it |

The hazards, one by one with the line where they bite and the properties that
guard them, are in `PROJECT.json`.

## 2. Modules

| Module | Models | Kind |
|---|---|---|
| `JobLifecycle` | what the row of a job promises to whoever polls it | abstract specification |
| `AsyncJobs` | dispatcher, table, boot, shutdown, removal, crash | detailed; implements `JobLifecycle` |
| `JobOutput` | sink, column and final write of one running job | detailed |
| `JobWatch` | `WatchAsyncJob` over `JobOutput` (EXTENDS it) | composition |
| `JobPage` | the page of the job over both (EXTENDS `JobWatch`) | composition |
| `AgentPool` | supervisors, attempts, backoff, probe, Start/Stop/Remove, shutdown | detailed |
| `Recorder` | ring, registry, channels, `StreamRPCCalls` | detailed |
| `RpcMonitor` | the RPC page over `Recorder` (EXTENDS it) | composition |
| `Transcript` | the chat's stream reducer, persisted rows, grouping and drawing | operators |
| `ChatPage` | the chat page and the session's log (EXTENDS `Transcript`) | composition |
| `PromptInput`, `CodeBlock` | the composer; the highlighter and its blocks | detailed |
| `GrantPanels`, `NotesPanel`, `AgentPage` | tabs of the agent page with the daemon's part | detailed |
| `RunDialogs`, `NewAgent` | dialogs; wizard, with build and create | detailed |
| `ImagePages`, `ProviderPages` | pages with registry and table; with file and registry | detailed |
| `Overview` | dashboard, job list, strip, sidebar status | detailed |
| `Dashboard` | all of these in one behaviour, by route | composition |
| `AsyncJobsProofs`, `AgentPoolProofs`, `JobPageProofs` (and `Overview`), `RecorderProofs` (and `RpcMonitor`), `ChatPageProofs`, `PagesProofs` (grants, wizard, notes, code, composer, providers, images, dialogs, page of an agent), `DashboardProofs` | the theorems | TLAPS |
| `SequenceLemmas` | facts on sequences, folds and counting that the proofs share | TLAPS |
| `MCAsyncJobs`, `MCAgentPool`, `MCChatPage`, `MCDashboard`, `MCRpcMonitor` | model values and symmetry | TLC instances |

Operators whose comment begins with *Mutant* are wrong versions of the
definition beside them (a dropped guard, a missing release, a swapped order).
They are not part of any specification; substituting one for its original must
break the property that `PROJECT.json` pairs it with, which shows that the
property says something about the code.

### AsyncJobs

Atomicity: an action is one access to state that others can see, that is one SQL
statement (SQLite serialises them), one `sync.Map` or channel operation, one
lookup. Local computation is merged into the neighbouring access.

| Variable | Code | | Action | Code |
|---|---|---|---|---|
| `row` | `async_jobs.status` (`"none"` before, `"deleted"` after) | | `ValidateSubmit`, `InsertRow`, `Dispatch` | `SubmitAsyncJob`, `Store.Insert`, `Pool.Submit` |
| `removal`, `stopped` | progress of `Daemon.Remove`; persisted status | | `Acquire`, `Release` | `dispatch`'s send on `sem`, deferred receive |
| `phase`, `boots`, `replay`, `todo` | where `Serve`, `Boot` and `Shutdown` are | | `Fetch`, `Lookup`, `Refuse` | `runOne`'s `Get`, `agents.Get`, early `MarkError` |
| `restoring`, `live` | agents between `Pool.Add` and the map; keys of the map | | `RegisterCancel`, `MarkRunning`, `Launch` | `cancels.Store`, `MarkRunning`, `agent.Exec` |
| `pc` | the place in `SubmitAsyncJob` or `runOne` | | `ExecReturn`, `Finish`, `Unregister` | `Exec` returns, final `Mark*`, deferred `cancels.Delete` |
| `sem`, `cancels`, `cancelled` | `Pool.sem`, `Pool.cancels`, done `jobCtx`s | | `Cancel`, `Signal`, `ShutdownVisit`, `RangeDone`, `Exit` | `Pool.Cancel`, `Pool.Shutdown`, end of `Serve` |
| `result` | what `Exec` returned | | `Restore`, `RegisterAgent`, `MarkOrphaned`, `ListPending`, `Redispatch`, `Listen` | boot |
| `launches` | history: BIN starts per job | | `StopAgent`, `StartAgent`, `RemoveFromPool`, `DeleteByAgent`, `RemoveAgentRow`, `Crash` | requests about agents; death of the process |

`Halt` (crash or exit) loses everything in memory and keeps `row`, `stopped` and
completed removals. Assumptions: SQL statements succeed (`JobOutput` has failing
ones); an agent has at most one `Remove` at a time; `Exec` returns
`context.Canceled` only if its context is cancelled, and may return success or
another error even then. Refusals that change nothing (an undeclared tool, an
agent without a runtime) are the action not taken.

`JobLifecycle` is a small state machine over `status` and `launched`: insert,
claim, fail, finish, launch once, orphan all the running, delete. `AsyncJobs`
implements it with `status <- row` and `launched <- {j : launches[j] > 0}`.

### JobOutput, JobWatch and JobPage

The n-th byte the BIN writes is the number n, so a text shows what was lost,
repeated or reordered in it. `Tick`/`Flush` are the two halves of `flushOnce` on the ticker (swap
under the mutex, append outside), `CloseFlush`/`CloseTail` the same in `Close`,
`Finish` the terminal `Mark*` with its length guard (`FinalText`). An append may
fail (its chunk is dropped, as the code does), the row may be deleted and the
daemon may crash at any point. The captured text the executor returns is any
prefix of what was written. One stream is modelled; the other one has a sink and
a column of its own. `JobWatch` adds the handler: first read, poll, comparison,
send, terminal close, not found, disconnect. `JobPage` adds the page that repeats
`GetAsyncJob` until the answer is terminal, its Cancel button, and the logs drawn
in the chat's tool row (`LiveJobLogs`) and on the page (`LogStream`).

### AgentPool

Supervisors are numbered in the order they are spawned; `retry[a]` and `done[a]`
name the supervisor whose cancel function and channel `pooledAgent` holds (0 is
nil). `Add`, `NewSlot`, `Created`, `Register` are `runNew`; `Install` is
`runExisting`; `Acquire`, `Returned`, `Backoff` are `runLoop`; the `Probe*`
actions are `readinessProbe` and `probeOnce`; `StartCancel`, `StartSpawn`,
`StartTimeout`, `StopLookup`, `RemoveDelete`, `CancelRetry`, `Signal`, `Signalled`,
`RemoveReturn` are the calls, split where they release the mutex, or read
`retryCancel` outside it. The executor's agent (`Run`, `Start`, `Stop`, `Probe`,
status tracker) is a library: `Serve`, `AttemptEnds`, `Signal` and `SetStatus`
model it from how `pool.go` and `pool_test.go` use it.
Two merges: reading `retryCancel` and calling it (a cancel is final), and giving
the slot back and reading the status after an attempt.

### Recorder and RpcMonitor

`Push` and `Subscribe` are the critical sections; `Deliver`, `ReplayOne` are the
single sends that follow outside the mutex; a snapshot is served in any order, as Go
iterates a map. `SendOnClosed` is the runtime's panic. Calls are numbered in the
order in which `Push` takes the mutex; of their fields the status is told apart.
`RpcMonitor` is the effect that opens one subscription per filter (`ChangeFilter`
aborts the former one and empties the table), the loop that reads it (`TakeCall`),
pause, clear, the row selected and its sheet. A subscription that was given up is
still served until its handler notices.

### Transcript and ChatPage

A word of text is the number of the event that brought it, and what it looks
like: plain, or a call or a result leaked into the text as markup. `Reduce` is
the stream reducer (`pushTextDelta`, `pushToolCall`, `attachToolResult`), `Keep`
what the runtime persists of the same events, `FromRow` and
`ApplyCompactionMarkers` the way back, `Drawn` and `CompactToolRow` what is read.
`NothingHidden` compares, event by event, what a reply is made of with what can be read of
it once leaked markup has become rows and rows have become cards.
In `ChatPage`, `messages`, `status`, `hydrated` and `stream` are the page's state;
`cache` is the query's, `log` the daemon's `agent_messages`; `orphan` is a turn of
the runtime that no page reads any more. `diverged` is history: the page and the
log have been told different things (an edit, a regenerate of an older reply, a
stopped stream, a compaction), and no equality is claimed from then on until a
reload. `Leave` keeps the query cache, `Reload` does not. `Compact` is the runtime's
(external): it keeps the last turn, a prompt with its reply, between its summary and its
notice. That turn matters: were the summary the last assistant row, a regeneration would be
stored as a branch of the summary, and read back as one.

### The pages of the dashboard

Each component is a module with the part of the daemon it talks to: a pair of
variables for what is kept and what was last fetched, `Fetch…`/`Refetch…` for an
answer to the query, one action per handler, and a set of calls under way whose
answers come in any order, or never. `…Elsewhere`, `…Moves`, `AgentWrites`,
`EditFile`, `ImageStored` are what other clients, the agent or a user with an editor do.
`RunDialogs` has one variable set for three dialogs of one shape (`dlgKind`).
`ImagePages` splits a removal into the daemon's three steps (inspect, registry
with its cascade over the digest, table); `ProviderPages` has the file, the
expanded copy and its freshness; `NewAgent` the wizard's state, the Agentfile it
becomes, and the two calls; `PromptInput` the composer as the chat page uses it: the files are
the form's and the text is the page's, which `sendPrompt` empties. `GrantPanels` keeps the set of a
panel (`grantKept`) apart from what the token claims (`grantClaims`): the links panel is answered the
rows, the capabilities panel the claims. `CodeBlock` has the token cache, the subscribers and the promise.

`Dashboard` puts the components into one behaviour: `route` says which one is on
screen. Every variable of the others is unchanged, which makes the run's
state space the sum and not the product of the components'. Its fairness is
stated once for all of them.

## 3. What the runs show

Passing runs:

| Run | Instance | Properties |
|---|---|---|
| `jobs_safety` | 3 jobs of one agent (symmetric), 2 slots, 2 boots, replay limit 3, foreign keys | `TypeOK`, `ExecBound`, `AtMostOnce`, `RunningIsOwned`, `PendingIsOwned`, `CancelCoherent`, `JobsHaveAgent`, `TerminalIsFinal`, `ImplementsLifecycle` |
| `jobs_live` | 2 jobs, 1 slot, 1 boot, fair | `CancelIsHonoured`, `PendingResolves` |
| `pool_serial` | 1 agent with its probe, 1 client, 4 calls, 3 supervisors | `OneSupervisor`, `Cancellable` |
| `pool_live` | 2 agents, 1 slot, 1 client, 1 call, 3 supervisors, fair | `TypeOK`, `SlotsAccounted`, `ShutdownDrains`, `CancelEnds` |
| `chat` | 2 prompts, replies of 3 events, 2 of nine other things the user or the runtime does | `TypeOK`, `StreamIsShown`, `ReloadKeepsConversation`, `OnlyTheUserDropsTurns` |
| `rpc_monitor` | 2 producers, 3 calls, ring 2, channels 1, 2 subscriptions, table of 2 | `MonitorTypeOK`, `RecorderExact`, `MonitorShowsIt` |
| `webui` | eleven routes, bounds below, fair | `WebTypeOK` and the fifteen below |

What `webui` checks, by component:

| Property | Component | Says |
|---|---|---|
| `OutputIntact` | `JobOutput` | the column is in order, and whole at the end unless an append failed |
| `OutputGrows` | `JobOutput` | what was visible stays visible |
| `VisibleSoon` | `JobOutput` | output reaches the row before the BIN ends |
| `ObserversSeeTheEnd` | `JobWatch`, `JobPage` | who stops looking by itself has seen the row as it stays |
| `ObserversLearnTheEnd` | `JobWatch`, `JobPage`, `CodeBlock` | everyone who waits is answered: sink, watcher, page, block |
| `OnlyToggledChanges` | `GrantPanels` | pending rows are those toggled since the last reset |
| `PagesCatchUp` | `GrantPanels`, `AgentPage` | a panel comes to show what the daemon answers (links kept, capabilities claimed), the page the sessions there are; a removed agent's page is left |
| `NothingForeign` | `NotesPanel`, `CodeBlock` | no note gets another's body, no block another key's tokens |
| `DialogsKeepFaith` | `RunDialogs`, `NewAgent` | what starts has the environment that was shown, and is what was submitted; what a success answered is not in the form again, and a closed dialog holds a form only where the operator left it |
| `ReviewIsWhole` | `NewAgent` | no invalid or omitted answer at the review |
| `CountsAddUp` | `AgentPage`, `ImagePages`, `Overview` | the same things are counted alike everywhere; an error or an answer that has not come is not told as "none" in the tab of the sessions; no row is listed that the filter does not ask for |
| `NoGhosts` | `ImagePages` | every row of the listing is of a tag of the registry, with the same digest, but for the removal at work and for tags moved under one |
| `PromptHolds` | `PromptInput` | the live blob URLs are those of the files attached |
| `DraftGoesWithAPrompt` | `PromptInput` | a draft leaves the textarea only when a prompt is sent: itself, one of the transcript, or one submitted with files before it was typed |
| `ProvidersStandAlone` | `ProviderPages` | a change of one provider touches no other entry; the registry follows the file |

Runs that find the code at odds with what the repository says of it (one finding each):

| Run | Statement | What happens |
|---|---|---|
| `jobs_replay` | `serve.go:176`: Boot runs after Restore "so any boot-time delivery has the agents back online" | Restore only starts goroutines; a redispatched job may look its agent up first and is failed for good |
| `pool_twostarts` | `pool.go:299`: Start cancels any prior supervisor, waits for it, then spawns a fresh one | two overlapping Starts wait for the same one, and spawn one each |
| `recorder_panic` | `recorder.go:58`: "safe for concurrent access" | `Push` sends on a channel that a leaving subscriber has closed after the snapshot was taken: panic in a request goroutine |
| `chat_resume` | `redirect.tsx:10`: the URL "makes the back button and bookmarks resume the same thread" | the page asks with limit 0, which is the *oldest* 50 rows: a longer thread is resumed without its latest turns |
| `provider_literal` | `provider-form.tsx:53`: literal `"${VAR}"` markers are references that the daemon expands at load time | the form starts from the expanded key and saves it over the reference |

### Other disagreements of code and comments

No run is spent on these; they take one step to see, or follow from the constants.

Jobs and pool:
* With more pending rows than Boot's limit (1000) the rest stay pending with nobody to run or cancel
  them until the next boot (`ReplayLimit` smaller than the number of jobs breaks
  `PendingIsOwned`; the theorem assumes it is not).
* "Shutdown cancels every in-flight job" (`asyncjobs/pool.go:150`): a job that registers after
  `Range` has passed runs on uncancelled and holds the drain to its deadline.
* The explicit `DeleteByAgent` ("belt-and-braces", `daemon.go:1937`) does not
  replace the foreign key: a submit that overlaps the removal inserts after it
  (`ForeignKeys = FALSE` breaks `JobsHaveAgent`).
* `Daemon.Get` returns true for a stopped agent, against its comment; jobs run on it.
* After a failed append the final write's guard compares lengths, so a captured
  text that ends earlier than the column's last byte may replace it
  (`asyncjobs/pool.go:263-266` says it never regresses).
* "A stop is honoured immediately" (`pool.go:66`): a Stop, or a Remove, between Start's return and
  `runExisting`'s installation of `retryCancel` cancels nothing.
* The probe "exits when the status changes" (`pool.go:828`), but sets ready after having checked: an
  agent that ended in between reads ready. A cancelled probe reports a readiness timeout (`855`).
* A live call may enter a subscriber's channel before the replayed ones
  (`recorder.go:121`), a full channel drops the newest call and not the oldest
  (`recorder.go:15`), and a handler that panics is not recorded (`recorder.go:9`).
* `SetAgentLinks` is "applied atomically" (`daemon_links.go:264`), statement by statement. After an error
  "the caller can retry" (307), but a retry that finds the rows as it wants them issues no token (333-335).
* `SetAgentCapabilities` stores the set and then issues the token (247-260). If that fails, the panel, which
  shows the token's claims and "keeps in sync with the server" (`capabilities-panel.tsx:70-72`), shows the
  former set, and saving again is a no-op (243). `GrantPanels` has these errors (`GrantSaveBreaks`), and
  `PagesCatchUp` compares with what the daemon answers, not with what it keeps.
* `state.go:280` and `images.go:51` speak of `RefreshImages`, which no longer exists.

Dashboard:
* Retry after an error "replaces the failed branch in place" (`view.tsx:1027`) and then appends another.
* `LiveJobLogs` is rendered after the tool's completion too, against its comment (`view.tsx:1955`).
* The job form is "reset when the dialog closes" (`run-job-dialog.tsx:54`), but not by Cancel (279-285), which
  also works while the submission is under way: until its answer, and after a failure, the submitted form
  may be met again.
* The dialog of an image leads to the page of the agent that its name field says when the answer comes
  (`run-from-image-dialog.tsx:149`), which is not the one that was started if the field was edited.
* A rehydrated transcript is said to be without tool rows, "clean alternating turns" (`view.tsx:749-751`); the
  log has the parts of every reply, and hydration draws them (381-452, 788). Nor need the turns
  alternate: a reply that was stopped early leaves its prompt alone. `ReloadKeepsConversation` states what the code does.
* The page hydrates once (`view.tsx:758-772`), from the first answer there is, which may be an older one of the
  cache; later ones are not looked at, although the URL is to "resume the same thread" (`redirect.tsx:10`).
* The composer means not to lose text "in the async window" of a conversion (`prompt-input.tsx:856-857`). On the
  chat page the textarea is controlled: `form.reset()` leaves the text there, so Enter twice during a
  conversion sends it twice, and `setInput("")` (`view.tsx:905`), which runs after the conversion, takes
  what was typed meanwhile. `PromptInput` has both; `DraftGoesWithAPrompt` admits the latter.
* Files that are dropped or pasted are attached, converted, and neither drawn nor sent
  (`handleSubmit`, `view.tsx:989`, takes the text only).
* "Empty string = no filter" (`jobs/page.tsx:18`): the page opens so, but "All statuses", picked again, is sent
  as `_all` (58-63), a status no job has, and lists nothing. `HomeAddsUp` says so.
* The summary of an agent says "No sessions yet" also before an answer and after a failure (`view.tsx` of the
  agent page, 349-357 and 954-955); the tab of the sessions does not.
* The links panel says that a link that is granted is "in claim" (`links-panel.tsx:34-38`) and shows the rows of the table.
* The RPC filters are "debounced" (`rpc-monitor.tsx:98`) nowhere; *Any* is sent as a status no call has.
* The strip is "collapsed to the single newest job" (`session-jobs-strip.tsx:21`) and shows three (56).
* `notes-panel.tsx:67` invalidates keys whose first element is an object; in this client it is a string,
  so notes are refreshed by the interval only.
* The dashboard counts agents with status `running` (`resource-stats.tsx:47`), which no agent has.
* Edit and Retry truncate the page, and the log keeps the turns; Regenerate of an older reply adds the
  branch to the *last* one in the log (`daemon.proto:591`).

## 4. Bounds and fairness

### Bounds, and why they are enough

* `Job`: three jobs on two slots are the smallest instance where one waits while
  two run; two on one slot in the liveness run, where symmetry may not be used.
  Jobs of different agents share only the semaphore. The theorems have no bound.
* `MaxBoots` = 2: one process leaves rows behind, the next one orphans or replays
  them; a third boot starts from the same kinds of rows.
* `MaxBytes` = 2, `MaxFailures` = 1: one byte in the row or a chunk and one behind
  it, and a gap before later text; the theorems about the output have no bound.
* `MaxSup`, `MaxCalls` (pool): one client needs two Starts to replace a supervisor twice,
  and a Stop or Remove around them; two clients and one call each suffice for the races.
  `Probed` limits the probe to where a run is about it, or can afford it.
* `Cap` = 2, `ChanSize` = 1 with three calls: the ring shifts and the channel overflows;
  two subscriptions let the page give one up while it is served. `BufferSize` = 2 cuts the table.
* `MaxPrompts` = 2, `MaxEvents` = 3, `MaxOps` = 2: a turn before and after the one
  acted upon; a text, a call and its result in one reply; two operations of the
  nine, in any order (regenerate then switch, stop then reload, ...). `Limit` = 50
  is the daemon's, never reached; the `chat_resume` run scales it to 2.
* `StripSize` = `RecentSize` = 1 scale the three chips and the ten rows down, for three jobs.
* Two grants, notes, providers, names, files, blocks and texts, tags and digests: every
  property relates at most two of a kind (one and another). `Max…Ops` bounds what the user
  and others do; with two to four of them an edit can meet a change elsewhere, a late answer
  and a return to the page. The `webui` run has about 470,000 states and takes three minutes on two cores.

`CHECK_DEADLOCK FALSE`: every model really stops, when boots, bytes, calls or
operations are used up and nobody asks for anything more.

### Fairness

* `AsyncJobs`: weak fairness of the boot and shutdown sequences, of goroutines
  that can run, and of the return of an `Exec` whose context is cancelled (the
  executor kills the process). Strong fairness of `Acquire`: a channel
  serves blocked senders in order, so a goroutine is not passed over for ever when slots keep
  coming free. Nothing makes a BIN end, a request come, a signal arrive or the process crash.
  `PendingResolves` therefore says: unless a BIN runs for ever.
* `AgentPool`: weak fairness of each supervisor's own steps (an attempt's end
  only when it was cancelled or signalled), and strong fairness of its leaving:
  a `select` with several ready cases picks at random, so a supervisor whose
  context is done does not take the other case for ever.
* `Dashboard`: weak fairness of the refetch of what is on screen
  (the lists of sessions among them, which may fail any number of times within the bound and is asked for
  again; `refetchInterval`, 5 s by default and 1 s on a job's page; the client repeats while the
  window is visible, so the promise is about a visible window); of the sink's ticker and of
  `Close`, and of the watcher's ticker, goroutines that can always run; and of the highlighter's promise,
  which settles one way or the other. No mutation need be answered, no user need act,
  no BIN need write or end.

## 5. What is proved

All theorems hold for every value of the constants that the named assumptions
(`…Assumption`) allow; TLC evaluates these in the runs.

| Theorem | States |
|---|---|
| `AsyncJobsProofs`: `Invariance`, `TypeCorrect` | `Spec => []Inv`, `[]TypeOK` |
| `ExecBoundHolds`, `AtMostOnceHolds`, `RunningIsOwnedHolds`, `CancelCoherentHolds` | the invariants of these names |
| `TerminalIsFinalHolds` | `TerminalIsFinal`, an action property |
| `JobsHaveAgentHolds` | `[]JobsHaveAgent`, if `ForeignKeys` |
| `PendingIsOwnedHolds` | `[]PendingIsOwned`, if `ReplayLimit >= Cardinality(Job)` |
| `LifecycleRefinement` | `Spec => Lifecycle!LifeSpec`: the refinement |
| `AgentPoolProofs`: `TypeCorrect`, `SlotsAccountedHolds` | `[]TypeOK`, `[]SlotsAccounted` |
| `OneSupervisorHolds`, `CancellableHolds` | the invariants of these names, if `SingleClient` |
| `JobPageProofs`: `OutputIntactHolds`, `ObserversSeeTheEndHolds` | the invariants of these names |
| `OutputGrowsHolds` | `OutputGrows`, an action property |
| `HomeAddsUpHolds`, `ShortListsHold` | the overview's parts of `CountsAddUp` |
| `JobPageTypeHolds`, `HomeTypeHolds` | the job's and the overview's parts of `WebTypeOK` |
| `RecorderProofs`: `RecorderExactHolds` | `MonitorSpec => []RecorderExact` |
| `MonitorTypeHolds`, `MonitorShowsItHolds` | `[]MonitorTypeOK`, `[]MonitorShowsIt` |
| `ChatPageProofs`: `ChatTypeHolds`, `ReloadingKeepsTheConversation` | `[]TypeOK`, `[]ReloadKeepsConversation` |
| `RepliesStayInTheirBranch`, `NothingIsHidden`; `StreamIsShownHolds` | `[]StreamStaysInItsBranch`, `[]NothingHidden`; both, `[]StreamIsShown` |
| `TurnsAreKept` | `OnlyTheUserDropsTurns`, an action property |
| `PagesProofs`: `GrantTypeHolds`, `OnlyToggledChangesHolds` | `[]GrantTypeOK`, `[]OnlyToggledChanges` |
| `ReviewIsWholeHolds`, `StartsWhatWasSubmittedHolds` | `[]ReviewIsWhole`; the wizard's part of `DialogsKeepFaith` |
| `AgentGetsWhatWasShownHolds`, `OnlyLeavingKeepsFormHolds` | the dialogs' two parts of `DialogsKeepFaith` |
| `NoForeignBodyHolds`, `OwnCodeHolds` | the two parts of `NothingForeign` |
| `PromptHoldsAlways`; `DraftGoesWithAPromptHolds` | `[]PromptHolds`; `DraftGoesWithAPrompt`, an action property |
| `OthersKeep`, `RegistryFollows` | the two parts of `ProvidersStandAlone` (an action property, an invariant) |
| `NoGhostsHolds` | `[]NoGhosts` |
| `CardsAddUpHolds`, `AgentPageAddsUpHolds` | the images' and the agent page's parts of `CountsAddUp` |
| `ProvTypeHolds`, and one `…TypeHolds` per page | the pages' parts of `WebTypeOK` |
| `DashboardProofs`: `WebRunsItsComponents` | a behaviour of the dashboard is one of each component |
| `NothingForeignHolds`, `ProvidersStandAloneHolds`, `DialogsKeepFaithHolds`, `CountsAddUpHolds`, `WebTypeHolds` | the properties of these names, of the dashboard |
| `WebKeepsWhatItsComponentsPromise` | the components' other theorems hold of the dashboard |

Assumptions that are not about bounds: there is at least one digest (`MaxDigest >= 1`: some
image is stored at first); the dashboard's short list has at least one row
(`HomeAssumption`; the code has ten); the empty text is no key of an environment
variable (`DialogAssumption`: the form takes an empty key for a row that is not filled in)
and no key of a note (`NoteAssumption`: the form does not submit one); the sessions of an agent are
finitely many (`AgentAssumption`: the badge counts them); and the routes of a
run are routes of the web UI (`WebAssumption`).

**`AsyncJobs`.** None of the properties is inductive: `ExecBound` counts places
while the code counts sends and receives, and `AtMostOnce` counts launches over
processes that know nothing of each other. The strengthening is
`Inv == TypeOK /\ SlotInv /\ JobInv`.
`SlotInv` says that `sem` is the number of goroutines in a place that holds a
slot, and within the capacity; `Acquire` and `Release` move one job in or out of
that set, which two lemmas about cardinality turn into plus and minus one, and
`Halt` empties both. `JobInv` ties each row to its goroutine: a job that has not
been claimed has no launch, a running row belongs to a claimed goroutine or to a
phase before the orphan pass, and a launch is spent once the row has left
`pending`. With it a step of `MarkRunning` finds a row that was never launched,
which gives `AtMostOnce` and the abstract `Launch`. `TerminalIsFinal` and the
refinement are proved from `Inv` step by step. `CancelCoherent` (through
`CancelInv`), `JobsHaveAgent` (inductive relative to `Inv`) and `PendingIsOwned`
(through `ReplayInv`: a pending row is on Boot's list or in somebody's hands, or
Boot has not listed yet) come in a second layer on top of `Inv`.

**`AgentPool`.** `SlotsAccounted` is inductive together with `TypeOK` and `SpawnInv`,
which says that
the next number belongs to no supervisor yet and that every supervisor and every
call names an agent that was given to `Add`. `SingleClient` says that there is one
client, that is, that calls do not overlap (additions, attempts, probes and the
shutdown still do). It is necessary: `pool_twostarts` shows two overlapping
Starts that leave two supervisors. Under it `OneInv` says that `done[a]` is the
channel of the only supervisor of `a` that is not over, from its registration on;
`WaitInv`, that a Start that waits, waits for that channel; `RetryInv`, that the
cancel function in the map is that of the supervisor that runs. Without `WaitInv`
a Start could spawn while the supervisor it should have waited for still ran.

**`JobPage`.** A byte on its way is in one of four places: the row, the chunk of the
ticker's flush, the chunk of `Close`, the buffer. `InTurn` says that these, in this
order, are in order; `NoGap`, that without a failed append and before a crash they
concatenate to what was written; `Control` says which of them may be filled while
the flusher, `Close` and `runOne` are where they are (`Close` takes the
buffer only when the flusher is done, which is what makes the order hold); `Captured`,
that the result's text is a prefix of what was written. `OutputIntact` follows, and
`OutputGrows` from the length guard of the final write. For the observers, `RowIsFinal`
says that a row with a terminal status changes only by deletion; `WatchInv` and
`PageInv`, that a snapshot taken then is that row, and that an earlier one is a prefix of it.

**`Recorder`.** `Flight` says that every call has one producer, and `Places` that
nobody sends to a subscription before it is one. `Stream(s)` says, for each
subscription, that the calls received, queued and still to replay have no
repetition among them (`Once`), are calls that were made (`Known`), and are not in a
producer's hands as well (`Apart`); and that each call from the first one on is in
one of these places, was dropped on a full channel, or went down with a panicking
`Push` (`Accounted`). `Once` needs `Apart` (a delivery appends what was not there), and
`Apart` needs that a snapshot is taken and the call recorded under one mutex.
With `RingIsRecent` (the ring is the tail of 1..n) a new subscription's replay
meets neither. The panic of `recorder_panic` is in the specification, so the
theorem is about the code as it is.

**`RpcMonitor`.** `MonitorInv` adds to the recorder's invariant that its queues are
bounded (`RecBounds`) and what the page knows. A subscription that was not opened is not
served (`Fresh`); the rows have descending ids, so no call has two (`Rows`); a call still on
the wire is not in the table, and without a subscription nothing is on the wire (`Wire`);
the filter admits what is in the table or on the wire (`Asked`); what the page took it
had received, and what it had received and asked for it took (`Served`); the sheet shows the
row that is selected (`Sheet`). `Wire` carries the weight: that a call taken is new in the table
holds because the recorder's `Once` makes it new in the stream.

**`ChatPage`.** Three layers. `ChatInv` says that messages are numbered apart and each
shows one of its branches (`Turns`), and that the reply being read is built where it is
shown (`Lands`): every operation that could move it away stops the stream first, or is
not offered while one is read. `OnlyTheUserDropsTurns` follows step by step.
`ReloadInv` compares the page with the log *while* the reply comes in: the page is what
`FromLog` would make of the log with as much of the reply as has arrived
(`InStep`), unless the two have been told different things; an orphaned turn means they
have (`OrphanDiverges`). It needs that only the compactor's rows look like its markers
(`Marks`), and that a result finds the same row on both sides although the page looks by
name from the end and the log has the call's id (`KeptAsShown`: calls without a result
and running rows pair up, one for one). `NothingHidden` is about the drawing alone: each
word rescued from the text, and each part grouped, appends exactly its own event to what can
be read so far.

**The pages.** `OnlyToggledChanges` needs `DraftIsToggled`: the draft differs from
what was last *seen* exactly in what was toggled; it holds because a refetch resets both.
`ReviewIsWhole` needs that an earlier step's answers are not touched from later ones
(`StepsAnswered`). `StartsWhatWasSubmitted` needs `CallsKnow`: a submission under
way carries its own file and, after the build, its own tag. `NoForeignBody`
needs that the daemon's bodies, the cached ones, the editor and the save under way
are each of the note they are filed under (`BodiesOwned`); `OwnCode`, that every
cached token list, and every one handed to a block, is of its key (`CodeInv`).
The composer's `PromptInv` needs little beside the two sets being equal: that what is attached was numbered
before, so that the step that attaches adds the same numbers to both. That a draft goes only with a
prompt is by steps: every action that empties the textarea while the page is open appends to
what was sent (`SentGrows`). For the providers,
calls under way are numbered apart (`CallsApart`), so an answer changes the entry of its own
call. For the images, what a removal was told of its tag (name and digest, in its first
step) still holds in its later steps, unless somebody moved a tag meanwhile (`ToldTrue`);
without it the cascade over a digest could delete rows of tags that stay.
For the dialogs, the declared variables stay on top of the form, one row per key
(`RowsInOrder`), and what is asked of the daemon is what a form said (`Asked`); the
overrides of a request, which a fold makes from the rows, give each key what its last
overriding row says.

`ProvTypeOK` says that nothing blank gets into the file and no reference to the environment
among the keys in use. It needs that every call under way carries an entry that may be
written (`CarriesEntries`): the answer may come when the form has long been left.

**What adds up.** A listed image is on one card because its digest is its own: `Versions` makes
one entry per digest of a name, and `VersionsAreExact` says that its tags are exactly those of
that name and digest. On the page of an agent every status of the daemon has one segment of
the bar (`PageKnows`: no other status is ever answered), the segments are disjoint, and
`CountedTogether` adds their counts. The lists of the overview are *sorted*; the model gives
each row a rank, the number of those that come before it, and lists by rank. Coming before
is a total order, so the ranks are all different (`RanksAreDistinct`), and, the rows being
finitely many, every rank up to their number is taken: `LatestFirst` is an order of all rows,
each once, that never goes back to a later one (`LatestComeFirst`). So a short list leaves
out the oldest (`FirstRowsAreTheNewest`), and as a job is listed once, by the number that
identifies it, what is shown and what is left out count up to the whole (`AsManyAsRows`).
`HomeInv` is what this rests on: the time of a job stays below its number (a submission is in the
second of the one before or in the next: only the order of times is of interest), the answer
that is cached has each job once, latest first, and the answer for a status only jobs of it.

`WebTypeOK` and `CountsAddUp` speak of the component that is drawn; they follow from the components'
theorems, as `route` stays in `Routes`.

`WebRunsItsComponents` is by steps: a step of `WebNext` is a step of one component
and leaves the variables of the others unchanged.

**Induction.** The model's loops are folds (`FoldLeft`, `FlattenSeq`, `Cardinality`),
whose recursion the provers do not unfold, and the library's induction theorems cannot be
instantiated. `SequenceLemmas` obtains induction from a fact that can be cited: strict
inclusion is well-founded on the finite subsets of a set. From it follow the least number of
a set, induction on numbers (`Counting`) and on the subsets of `1..n` (`SubsetInduction`),
and from these the *run* of a fold (`IsRun`, `RunExists`, `RunBySteps`): its intermediate
results, the last one being its value. A property of a fold is then an invariant of its run,
proved one step at a time, as for a behaviour. The rescue of leaked markup, the grouping of
rows, the conversion of the log and the overrides of a form are proved about in this way.

Every invariant and action property that a run checks is stated by one of these theorems.
Only model-checked: liveness, which is out of the prover's reach (`CancelIsHonoured`,
`PendingResolves`, `ShutdownDrains`, `CancelEnds`, `VisibleSoon`,
`ObserversLearnTheEnd`, `PagesCatchUp`), and the runs that show a violation.

## 6. Not modelled, and why

* *Token rotation* (`daemon_links.go:551-625`): who holds which JTI after a
  crash or two refreshes at once. The panels see only the kept sets and the claims of the last token, which are modelled.
* *The daemon's own map and statuses*: `d.agents` is written without a lock,
  two creates may pass the name check together, statuses are persisted by
  overlapping calls in any order, `Serve` may return before the drain is over.
  `AsyncJobs`, `AgentPage` and `NewAgent` have the calls as single steps.
* *The notes' cap* (`state_agentstate.go:327`: count, then insert) and the *backoff
  schedule* (`pool.go:779`: a shift): one comparison and one expression.
* Of the composer: the provider around it, limits of number, type and size, screenshots, the file
  picker, and sources, none of which a page of the repository uses; and the composition of an input method, during
  which Enter does nothing.
* In the chat: scrolling, keyboard shortcuts, the seconds counted on a running row. A code
  block is mounted anew for a new text rather than given another one (the chat's
  rows never change their code). No two calls of one tool are under way at once,
  as `attachToolResult`'s comment (`view.tsx:614`) assumes.
* Edits of `providers.yaml` within one tick of the file system's clock, which
  the mtime check cannot tell apart.
* Authentication (sequential checks over cryptographic calls), the terminal UI and the CLI
  (one event loop, one request per command, over the same RPCs), generated
  code, migrations, blob transfer and the embedded OCI server (a library), the
  component library under `components/ui`, Agentfiles and BINs.
