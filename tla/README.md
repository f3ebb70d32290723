# Audit Workstation in TLA+

Audit Workstation is a FastAPI server with a browser client in plain JavaScript. Auditors write
*acts* in it: trees of points with tables, texts and violations; and they ask questions of language
models and external agents. Three things in it are hard to get right and hard to test: the **editing
of acts**, where browser tabs, local drafts, an expiring edit lock and a versioned store have to
agree; the **structure of an act**, where dozens of menu, mouse and clipboard operations keep a web of
rules that the server checks only as a whole, when it refuses to save; and the **calls to language
models and agents**, which pass through tables and streams that belong to somebody else. This
directory holds models of them, the TLC runs that check the models, and TLAPS proofs.

## The system and its parts

| Part | Where | State | Operations | What makes it correct |
|---|---|---|---|---|
| Act content | `app/domains/acts` (services, repositories) | `acts.content_version`, the content rows | GET and PUT of `/content` | no save removes edits its author had not seen |
| Saved versions | `audit_log_service.py`, `act_content_version.py` | `act_content_versions` | a version per manual or periodic save, restore | a restore loses nothing that was stored |
| Edit lock | `act_lock_backends.py`, `access_guard.py` | one Redis key per act, with a TTL | acquire, extend, release; the guard | one holder; the lease always ends |
| Opening an act | `acts-menu.js`, `api.js`, `draft-restore.js` | the page, a chain of awaits | load, lock, draft dialogs, default structure | no draft disappears without an answer about it |
| Drafts and saving | `storage-manager.js`, `navigation-manager.js` | localStorage, indicator, epoch, base version | edit, snapshot, periodic and manual PUT | the indicator tells the truth |
| Lock keeper | `lock-manager.js`, `inactivity-watchdog.js`, `header-exit.js` | timers, dialogs, flags of a session | extend, inactivity dialog, exit, switch, beacon | the lock lasts as long as the session, and no longer |
| Structure of an act | `state-tree.js`, `state-content.js`, `undo-delete.js`, `tree-drag-drop.js`, `node-clipboard.js` | the tree, the undo stack, the clipboard | add, delete, move, copy, paste, undo | risks, summaries, banks, depth and limits stay as the server wants them |
| Table grid | `table-cells-operations.js`, `grid-merges.js`, `table-merge-core.js` | a dense grid with merges | insert, delete, merge, separate, type | no text lost or doubled; the server accepts it |
| Agent channel | `agent_channel.py`, `agent_channel_poller.py` | bus table (another system's), chat messages, subscriptions | submit, poll, time out, abandon, reconcile | every question ends, once, and truthfully |
| Call of a model | `llm_call.py`, `llm_routing.py`, `circuit_breaker.py`, `llm_health_probe.py` | the breaker, the worker's heartbeat | plan, try, fall back, probe | a failing primary costs no answer and is taken back |
| Redis bridge | `redis_bridge_adapter.py`, `retry.py`, `scripts/llm_redis_worker.ipynb` | a stream with a consumer group, responses | post, poll, retry; read, claim, answer, acknowledge | a request is answered once, and always settled |

The rest - the agent loop, batchers, pool, authentication, CRUD, views - is listed in `PROJECT.json`
with the reason it is not modelled.

How the parts interact: a tab loads the act (two GETs), takes the Redis lock by an HTTP request, shows
a draft it finds in localStorage, and from then on writes snapshots to localStorage and PUTs the whole
content with the version it believes to be the base. The server checks the lock, then, in a
transaction, the version, and the limits of tables and nodes. The lock keeper of the page extends the
lock while the user is there, asks when he seems not to be, and ends the session. The chat server
puts a question for an agent into the bus table and a draft message into its own; the agent answers in
the bus table; the poller copies the answer into the draft. A question for a language model walks a
plan of routes, each of which may lead through a Redis stream to a worker on another machine.

The hard behaviours: answers that come late or never, requests that commit after their page is gone,
two readers of one localStorage, a guard and a transaction that are separate awaits, callbacks of one
session that fire in the next, a tree that changes while a dialog is open or an image is copied, a
visit that is repeated after any of its awaits failed, a second process beside the first, a breaker
whose parameters change between setting and use, a worker that dies between delivery and
acknowledgement. `PROJECT.json` lists the hazards at their lines with the properties that cover them.

## Modules

| Module | Models | Used by |
|---|---|---|
| `LeaseLock` | the three Lua scripts of the edit lock, as operators on its holder | `ActEditing`, `LockKeeper` |
| `ActEditing` | editing sessions of one act: tabs, localStorage, requests, server | `MCActEditing`, `ActEditing_proofs` |
| `LockKeeper` | one page that keeps edit locks: timers, dialogs, calls, leases | `MCLockKeeper`, `LockKeeper_proofs` |
| `TableMerges` | abstract: the merged rectangles of a table | `TableGrid`, `TableGrid_proofs` |
| `TableGrid` | the dense grid and the cell menu; implements `TableMerges` | `MCTableGrid`, `TableGrid_proofs` |
| `TableLimits` | the constants both share | both |
| `ActTree` | the tree of an act and everything that changes it | `MCActTree`, `ActTreeShape_proofs`, `ActTree_proofs` |
| `AgentChannel` | questions to the external agent: bus table, drafts, pollers, agent | `MCAgentChannel`, `AgentChannel_proofs` |
| `CircuitBreaker` | the breaker as a value and its operations | `LlmCall` |
| `LlmCall` | questions, their plans of routes, the probe, the health endpoint | `MCLlmCall`, `LlmCall_proofs` |
| `RedisBridge` | the client with its retries, the stream and its group, the workers | `MCRedisBridge`, `RedisBridge_proofs` |
| `MC...` | model values, presets and symmetry of an instance | the `.cfg` files |
| `..._proofs` | the theorems about a module | - |

### ActEditing

One act; what the act contains is the set of edits in it. Each edit is made once and never taken back,
so a content that lost an element has lost work. `Skeleton` is the default section structure; an act
without a tree is the empty set, and opening it makes the page save the skeleton on its own.

| State | Code |
|---|---|
| `owner` | the Redis key of the lock (`LeaseLock`); `Expire` is its TTL, which may end at any moment |
| `version`, `content`, `archive` | `acts.content_version`, the content rows, `act_content_versions` |
| `reqs` | PUTs and restores: `sent`, `guarded` (the lock guard has passed), `copied` (the pre-snapshot of a restore), then `stored`, `conflict` or `lockLost`; `live` while a page waits for the answer |
| `snapshot`, `backup` | the two localStorage keys, one pair per browser: tabs of a browser share them |
| `phase` | the chain of awaits from opening to editing, the two dialogs, and the exit |
| `work`, `base`, `state`, `epoch`, `halt` | what the tab shows, its base version, the indicator, the change counter, why saving is stopped |
| `waived` | not in the code: stored edits the user agreed to overwrite when restoring a draft over a newer version |

`Opening` is `_autoLoadAct` and `_applyActContent`: `FetchMeta` and `FetchContent` are two actions
because the server reads the version and the rows in two queries outside a transaction; the lock is
taken after the content, as in the code. `Working` is editing, snapshots and the sends; `Handling` is
what happens to a request on the server (guard, copy, commit or reject) and when its answer comes
(`OnStored`, `OnConflict`, `OnLockLost`, `OnNoAnswer`); `Leaving` is the exit with its own save, the
redirect, the closed tab, and the browser that dies. `Lossy` lets an answer be lost, late or timed out
at the client, while the request goes on at the server. When an exit comes is free here; `LockKeeper`
says when the code makes it come.

Abstractions: trees, tables and texts are the set of edits; a body the server refuses with 422 is a
save that fails; the portal dialog's unlock by the same user is one of the things `Expire` stands for;
edits typed in the 500 ms between the load and the start of tracking are not modelled. `restore_version`
runs in READ COMMITTED with a plain SELECT for its pre-snapshot, and is modelled so.

### LockKeeper

One page, a constructor (which saves and leaves when its session ends, and may switch to another act)
or the list of acts (whose dialogs begin and end sessions while the page stays). A session is one run
of `LockManager.init`; the static fields of the class outlive it, and so do its dialogs, extension
calls and a forgotten interval (`strays`), which is where the interleavings come from.

| State | Code |
|---|---|
| `actId`, `exiting`, `manual`, `failures`, `unload` | static fields of `LockManager`; whether the beforeunload handler is attached |
| `timer`, `strays`, `extendDue`, `idleCheck`, `idleDue`, `listening` | the intervals of the extension and the idle check, and whether their callback is due |
| `idle`, `sinceExtension` | `getIdleMs` and the time since the last extension, counted in idle checks |
| `dialogs`, `shown` | inactivity dialogs with their countdowns; the one on the screen |
| `calls` | requests under way, with the session that made them |
| `lease`, `ttl` | the server's keys and the rest of their TTL |
| `away`, `stayed`, `again`, `disturbed`, `unclean` | history: the user has left for good; he kept a page whose beacon was sent; an exit ran in a session already unlocked by hand, or a session was unlocked by hand in the middle of a switch; a callback or an answer was late or lost; a way out met the beginning of a session, or a call was lost |

A `Tick` is one idle check: every interval becomes due once, and with `Late` it may pass before a due
callback has run or an answer is read, as in a throttled tab. Switching is modelled after back and
forward (`_handleHistoryNavigation`); the menu's switch differs by a second attempt to lock the old
act after a refusal, which is left out.

### TableGrid

The grid as the editor stores it: each position a cell, a merge its top left cell with spans and a
mark on every cell it absorbed, plus the texts kept for a separation (`mergeSnapshot`). An operation
is an item of the cell menu, with the guards of `context-menu-cells.js` and of the operation itself:
inserting and deleting rows and columns, merging, separating, typing, saving and opening again.
`validate_grid_dimensions` and `validate_structure` are the server's. Rows and columns share their
definitions through an axis; a text is the sequence of pieces typed into it, so joining texts cannot
invent one. Column widths are left out: the server repairs their number. `TableMerges` is the
range-list of `grid-merges.js` as a specification of its own - rows, columns and rectangles - and
`MergesSpec` says that `TableGrid` implements it under `rects <- MergeRects`.

### ActTree

`tree` is `AppState.treeData`: `kids`, `kind`, the banks (`tb`), the level a point's number says it has
(`level`, as stale as the numbers the code matches are), and the summaries of section 5 (`summary` for
points of the first level, `main` for the section). `Sections` are
section 5 and the Process Mining point, which exist always. An action is what a menu item, a drop, a
shortcut or a paste does to the tree, cascades of the summary tables and the renumbering included;
operators take the tree and return it changed, step by step as the code does. Two operations wait and
then change what they had read: a confirmed move (`dialog`) and a paste with images (`pasting`). The
second interleaves with everything, the first with the shortcuts that work under a modal dialog.
`undo` is the stack of deletions. There are four kinds of risk tables, and a point may have one table of
each (`OwnKind`); the levels they may be on, the summaries and the order of children go by "any kind"
(`IsRisk`, `OwnRisk`). Moves by Alt and an arrow are drops whose target is a neighbour or the parent
(`ByArrows`); they go through the same checks as the mouse but for one, which does not lift a branch with
risks from outside section 5. Users cannot delete a summary table: it is made with `deletable: false`
(`state-content.js:264`, `:419`), which `deleteNode` refuses (`state-tree.js:248-253`), so summaries come
and go only with the cascades. Copied points keep the number they had when they were copied until the
renumbering reaches them (`Grafted`). Left out: text blocks, a third type of content with the same
limits; invoices of leaves; the rollback of a failed cascade; labels; custom quality tables.

### AgentChannel

| State | Code |
|---|---|
| `question`, `answer`, `rows` | the question's status in the bus table, its newest answer row, the number of rows written |
| `message`, `shown` | the draft's status; the answer rows whose reasoning block the message holds |
| `notes` | notifications sent to the author |
| `entry` | the poller's `_subscriptions`: phase, time since the last sign of life, remembered length, queue position and baseline, errors, reversions |
| `visit`, `round`, `rested` | the visit of the running tick and the await it is at, the questions still to visit, whether the poller has slept |
| `others` | questions of other authors in front of these |
| `hush`, `verdicts` | history: time since the reasoning last grew, how the agent has ended the question |

`poll_once` and `mark_timeout` are split at their awaits: `ReadQuestion`, `ReadAnswer`, `CountAhead` or
`Show` or `Finalize` or `Fail`, `Notify`, `Close`; what `_tick` does between two awaits with what was
read is `Judge`, whose parts are named after the signs of life (`Forward`, `Reverts`, `Grew`,
`Rewritten`, `Moved`). Any await on a table in `Faulty` may fail instead (`Err`): the error is counted,
and at `MaxErrors` the subscription is dropped and its draft ended by `Timeout` from step `abandon`.
`finalize`, `mark_failed` and `upsert_block` lock the row, so each is one step. `Stop` loses a
process's memory between any two awaits; `Start` reconciles.

The agent is external. It is modelled from what the comments of `agent_channel.py` and the poller say
of it: it claims a question, inserts an answer row, appends reasoning, ends the row and perhaps its
question, closes a question without a row, gives a question back with status `pending` or `error` and
deletes its row, and the owner may delete both. Nothing obliges it to do any of this.

`updated_at` is not a number in the model: an entry's `base` says whether the answer row has been
touched since the baseline was taken. Time passes (`Pass`) only while no visit is under way and after
every poller has ticked: the unit is longer than a tick, as the limits (half an hour by default) are
much longer than the poll interval (2 to 10 s).

### LlmCall and CircuitBreaker

`CircuitBreaker` is the breaker as a value: every method of the class runs under one asyncio lock and
awaits nothing inside it, so it is an operator from breaker to breaker. `LlmCall` calls it from three
sides. A question (`Ask`, `Plan`, then `Succeed`, `Fail` or `Refuse` for each route) configures the
breaker, awaits the worker's heartbeat, plans its routes and walks them; between `Ask` and `Plan`, and
during an attempt, anything may happen. The probe (`ProbeTick`, `ProbePing`, `ProbeReport`) is
`LLMHealthProbe._run`. `HealthCheck` is the health endpoint of the chat. A breaker that closes, opens
or changes parameters in between is the point of the module. `settings` are constants of a process:
is there a fallback, a probe, somebody who polls the endpoint.

| State | Code |
|---|---|
| `breaker` | `circuit_breaker._instance`; `waited` is the time since `_opened_at` |
| `beat`, `up` | the heartbeat in Redis (targets, and which of them are sick); the models that answer |
| `call` | per question: where it is, the rest of its plan |
| `probe` | where the probe's loop is |
| `hurt`, `covered` in `call` | history: the route being tried failed to answer at some time of the attempt; the fallback was in the plan and could answer ever since |

Both routes lead through the bridge. With an HTTP route the heartbeat is not read and `Ask` and `Plan`
are one step, which is a special case; a route whose client cannot be built is left out. An attempt is
`_completions_create` with all its retries, which `RedisBridge` looks into.

### RedisBridge

| State | Code |
|---|---|
| `requests` | the stream of requests and what the consumer group knows of each entry: queued, pending, acknowledged or gone; its age, how long it has been pending, the terminal answer; `served` (history) counts the workers that set out to answer it |
| `group` | whether the consumer group exists |
| `client` | a call of `_Completions.create` inside `retry_on_transient`: phase, attempt, the entry it polls for |
| `worker` | `consumer_loop` and `process_entry` of a notebook: the entry in hand, the rest of the claimed batch, tries, time spent in a call |
| `troubles` | bounds crashes, interrupts, failing loops and restarts of Redis |

Redis executes a command at a time, so an action is what one side does up to its next command. A
connection may break before a command, or after Redis has carried it out: `PostUnheard`, `ReadUnheard`,
`ReplyFails`, `ClaimUnheard` (the entries are this worker's, which does not know of them until it claims
again) and `AckFails`, whose XACK may have been done or not. `Claim` is XAUTOCLAIM: entries idle for `ClaimMinIdle`, of any worker, the claimer's own
included. `Interrupt` is Kernel -> Interrupt, where the `finally` still acknowledges; `Crash` is not
so kind; `RedisLost` forgets group, stream and answers. The key `worker:alive` is shared by all workers,
deleted by any and left behind by a crash, so the client may find it or not, whatever runs.
Left out: the trimming of the stream at 1000 entries, the TTL of responses (a crash between XADD and
EXPIRE leaves one for ever), targets a worker does not serve, the worker's rate limit per target.

## Runs

| Run | Instance | Properties |
|---|---|---|
| `one_tab` | one tab, up to 3 page loads, 2 edits, lost and late answers, exits, closed tabs | `SavedIsStored`, `LocalOnlyHasDraft`, `DraftSurvives`, `NothingLostOnLeaving` |
| `two_users` | two users with a browser each, two page loads, crashes | `VersionsAgree`, `NoLostUpdate` |
| `new_act` | an act without a tree, manual and invoice saves, restores, crashes, up to 3 page loads | `TypeOK`, `DraftSurvives` |
| `blind_overwrite` | a new act, one tab: expected to violate `SavedIsStored` | `SavedIsStored` |
| `lock_watch` | one session of a constructor page; lost and late answers, late callbacks, a crash | `TypeOK`, `LeaseCovers`, `AwayEnds` |
| `lock_switch` | two acts, two sessions, another user, both kinds of page | `SomeoneWatches`, `NothingLeft` |
| `table_menu` | a regular table of 2x2 and a protected one of 3x2, up to eight cells | `TypeOK`, `Tiled`, `Savable`, `NoTextTwice`, `NoTextLost`, `SnapshotsStayFit`, `MergesSpec` |
| `tree` | four nodes, risk tables and violations, three levels, banks, a paste from another act | `TypeOK`, `LevelsFollow`, `NoNodeLost`, `DepthKept`, `TbKept`, `BlocksKept`, `RisksStayPlaced`, `SummariesFollow` |
| `one_process` | one poller, one question, two answer rows, a failing bus, a restart, fairness | `PatientTimeout`, `AnswerNotThrownAway`, `EveryQuestionEnds` |
| `two_processes` | two pollers, a failing bus that also refuses `failed`, a restart | `TypeOK`, `NotifiedTruthfully`, `StreamingIsWatched` |
| `llm_call` | two questions, four settings, four heartbeats, fairness | `FallbackTakesOver`, `NoLiveProbeUnpolled`, `Recovers` |
| `redis_bridge` | one call of two attempts, two workers, one trouble, fairness | `PaidOnce`, `OneAtATime`, `RequestsSettle` |

What they show.

*Editing.* `NoLostUpdate`: a save with a version never removes a stored edit its author had not seen.
`SavedIsStored`, `LocalOnlyHasDraft`: the white and the yellow indicator are true. `DraftSurvives`: a
draft leaves localStorage only when it is stored, answered or still open. `NothingLostOnLeaving`: an
exit, a redirect or a closed tab keeps unsaved work.

*Lock keeper.* `SomeoneWatches`: while a session is live and nobody has begun to end it, its extension
runs and somebody will notice an idle user - the check, a dialog that counts down, or the answer to
"Continue". `LeaseCovers`: with callbacks and answers in time, and no way out that met the beginning of
a session, the lease outlasts the session, with the tightest settings that allow it. `NothingLeft`: a
page that is gone holds no act. `AwayEnds`: a user who leaves the keyboard for good leaves the act,
whatever is lost on the way.

*Table.* `Tiled`: spans and marks describe the same merges. `Savable`: no sequence of menu operations
builds a table the server refuses. `NoTextTwice`, `NoTextLost`: separation brings back no copy, and text
goes only by typing over it or with its deleted line. `SnapshotsStayFit`: only insertions spoil the kept
texts. `MergesSpec`: the grid implements the list of rectangles, with every operation one step or none.

*Structure.* `RisksStayPlaced`: risk tables are on points 5.X or below them, never both.
`SummariesFollow`: the summary tables that must exist are there where they find room, and no other. `DepthKept`, `BlocksKept`,
`TbKept`: depth, blocks per node, and banks on leaves only. `NoNodeLost`: a node leaves the tree only by
deletion. `LevelsFollow`: numbers agree with the structure. Each names, as a disjunct, the operations
that do break it; those are in the list below, and every other operation keeps it.

*Agents and models.* `NotifiedTruthfully`: the author hears at most once and of what happened.
`PatientTimeout`: an agent that writes is not given up. `AnswerNotThrownAway`: a complete answer that a
visit could see is delivered. `StreamingIsWatched`: no draft is forgotten. `EveryQuestionEnds`: none
streams for ever. `FallbackTakesOver`: a question fails only when its plan had no fallback or the
fallback could not answer at some time of it. `NoLiveProbeUnpolled`: with a probe and a fallback no live
question is the one that tries a primary found broken, where nobody polls the health endpoint.
`Recovers`: a primary that is well and stays well is taken back for good. `PaidOnce`: no request is
answered twice. `OneAtATime`: a retry leaves no request behind but one whose XADD was reported failed.
`RequestsSettle`: while a worker runs on a Redis that keeps its group every request is acknowledged.

### Bounds

*ActEditing.* `MaxVersion` = 3 lets two commits and a late one meet in every order; sends are disabled
when the requests under way could pass it, so no request is cut off half-way. `MaxOpens` allows a
session, the one after it, and one more that finds the drafts of both. Two edits tell "older", "newer"
and "both" apart. `NothingLostOnLeaving` speaks of tabs whose browser does not die, so `one_tab` has no
crashes; the other two have them.

*LockKeeper.* Times are 1 to 3 idle checks. In `lock_watch` the TTL is 3, the shortest that
`LeaseCovers` allows with an idle limit of 2 and the rest 1; two failed extensions are the cap; losses
and late callbacks are on. `lock_switch` has two sessions on two acts, so that a dialog, an extension
or an exit of the first can meet the second, and for this turns losses and lateness off. The clocks of
idle time and of the last extension stop (`Capped`) where nothing compares them any more; the code's do
not stop.

*TableGrid.* Eight cells are room for a merge in either direction with lines inserted before, inside
and after it; limits of 4 rows and 4 columns are reached. One piece of text is enough for "twice" and
"lost". *ActTree.* Four nodes are a chain that passes the depth limit of 3 (the section is 1), or two
points with a risk each; one block per node is the limit at work;
one deletion can be undone. With one block per node a point has one risk table at most and the main summary
never meets a full section; an instance with tables, two kinds of risk and two blocks per node (four nodes,
no violations, 8083 states) satisfies `BlocksKept`, `RisksStayPlaced` and `SummariesFollow` too, and the
theorems are about all kinds and limits. Creation of a risk table through its dialog keeps a free node for it.

*AgentChannel.* Two answer rows are one attempt given up and its successor; the limits 1 and 2 differ
so that taking one phase's for the other's shows; a reversion cap of 1 can be used up; two errors in a
row are distinguished from one. `StreamingIsWatched` is checked with failures of the bus table only:
with failures of the chat table too it is false (below).

*LlmCall.* A threshold of 2 tells the first failure from the one that opens; timeouts of 1 and 2 are
that of a question and that of the health endpoint; two questions are one that opens the breaker and
one that holds a stale plan. *RedisBridge.* Two attempts are a request and its retry; two workers are
the one that stopped and the one that claims; `ClaimMinIdle` is the least the assumption allows with a
deadline of 1; one trouble per behaviour. The theorems have none of these bounds.

Deadlock is not checked for `ActEditing`, `lock_switch` and `RedisBridge`: users may stop, sessions end
and calls are finished. It is checked for the others.

### Fairness

`ActEditing`, `TableGrid` and `ActTree` have none: their properties are safety. `AgentChannel`: the
poller's loop runs (`_run` catches every exception and sleeps a bounded time), time passes, and a
stopped server is started again; nothing is assumed of the agent or of the failing table.
`EveryQuestionEnds` needs three bounds that are the environment's: finitely many answer rows, finitely
many restarts (each restarts the timers), and a queue of others that does not grow back. `LockKeeper`:
the browser fires timers that are due, and a fetch ends, if only by its timeout; nothing is assumed of
the user. `LlmCall`: users keep asking, attempts end (each has a timeout), not every request is
malformed (strong fairness of `Succeed`), the probe's loop runs and time passes; nothing is assumed of
models, workers and the endpoint's readers. `RedisBridge`: what runs runs on; nothing is assumed of
those who start, interrupt and kill workers - `RequestsSettle` is about behaviours where one of them
stays up.

## Disagreements between code and documentation

`blind_overwrite` has a run of its own, with its quotes in `PROJECT.json`: the save of the default
structure carries no version and may overwrite the user's first save; the tab then shows "saved" over
rows that lost the edits. The others were found by TLC on these models with properties or instances
that are not kept as runs; each is a behaviour of a model here.

*Editing.* A save that leaves no version of its own commits between the pre-snapshot of a restore and
its write: what is replaced is kept nowhere (`RestoreKeepsReplaced`, stated in `ActEditing` and violated
in the instance of `new_act`, by an invoice save a closed page left in flight). A backup the user chose
to restore is deleted before anything else holds it. Tabs of one browser share the localStorage keys and
remove each other's draft.

*Lock keeper.* `lock-manager.js:6` says "Гарантирует одиночный unlock". An extension refused late, a
dialog left over or a second click leads from a manual unlock into an exit, which saves what the user
had declined to save and unlocks again. A cancelled beforeunload has already sent the unlock beacon and
destroyed the timers (`storage-manager.js:331`, `lock-manager.js:364-380`): the page stays without lock
and keeper. "Остаться" after a manual unlock or a refusal leaves the page without keeper likewise; after
a refused switch the exit saves the act whose lock was given up. When the unlock of a switch fails,
`destroy` is skipped: its interval runs on beside the next one, and its dialog may end the new session.
`init` clears `_isExiting` while the exit of the session before is still running. A page closed during
the save of an exit, or while the lock is being taken, leaves the lock to its TTL. A "stay" answered
after a manual unlock starts the idle check again. No validation of the settings relates the TTL to the
idle limit, the dialog's time and the pause between extensions, which `LeaseCovers` needs.

*Table.* `table-merge-core.js:90` and `tests/js/table-merge-snapshot.test.mjs:72` say that separation
restores all cells of the area; the kept texts are laid out by their old offsets, so after an insertion
inside the merge they come out in other cells. `table-cells-operations.js:260` forbids data above a
header; "insert below" on the first of two header rows puts it there. `act_content.py:207-211` says
that insertions and deletions leave a stale `spanOrigin` behind and does not validate it for that reason;
the operations of today do not, the marks stay coherent (`Tiled`).

*Structure.* Section 5 at its limit of tables gets one more, the main summary, when the first risk
table is made below it (`state-content.js:400`; `_createMetricsTable`, the summary of a point, does ask
for room); the server then refuses every save of the act (`act_content_service.py:376`), which
`validation-tree.js:167-175` says its limits prevent. "Add sibling" of a table or violation ignores
depth, the place of pinned tables and the rule for risks; "add child" is offered on a violation
(`tree-drag-drop.js:154` says content has no children). Moving content out of or inside a leaf 5.X
erases its banks (`state-tree.js:437`); a point dropped beside the content of a leaf leaves banks on a
node that is no leaf. Undo puts risks, violations and depth back without asking anything. A paste that
waited for images is not checked again, nor is a risk table whose dialog was open while the tree
changed. Of the check of blocks `node-clipboard.js:460-461` says "без этой проверки paste мог дать узлу N+1
блоков", and `:473-474` of the copying of images that it is the last check and the first change: what
is added to the target while they are copied gives N+1 (`BlocksFit`, stated in `ActTree`; violated in four
states). A paste with risk tables directly below a point of section 5 reads a stale number and makes no
summary. A move out of the first level removes the point's summary before the checks that may refuse it.
A first-level point already full of tables gets no summary when a risk table is made below it, and
nobody is told: `state-content.js:485` does not read the result of `_createMetricsTable`. Points pasted
below content are counted neither by the depth of the subtree nor by the check of its risk levels.

*Agent channel.* A process that stops between `finalize` and the notification never sends it; the next visit
finds the draft ended (`agent_channel.py:943`), so the author is told at most once, and perhaps not at all.
The cap on reversions (`agent_channel_poller.py:48-52`, "защита от бесконечного
продления флаппингом чужой таблицы") does not bound the wait: each new answer row is a sign of life.
A full outage is counted against the subscriptions after all (lines 40-43 say it is not): each
operation takes its own connection, so the errors are per visit, the subscriptions are dropped, and the
drafts stream unwatched until a restart. The reasoning of an attempt that was given up stays beside the
final one (`agent_channel.py:858` says the block is replaced): the next row has another id.

*Call of a model.* The health endpoint calls `get_breaker()` with the defaults of its signature, so
until the next question or probe the breaker has another threshold and timeout, and its timer is on: a
live question may become the probe, which `orchestrator.py:404-421` says it must not. `NoLiveProbe`
in `LlmCall` says so without the exception for polled deployments and is violated by `HealthCheck` between
`Ask` and `Plan`. `circuit_breaker.py:6` speaks of "одна проба primary"; `half_open` lets every
concurrent question through. When a sick primary is last in the plan, asking the breaker still moves it
to `half_open`, and no probe follows. `chat/__init__.py` says at the start of the probe that without a
fallback the breaker does not open either; it does, `record_failure` opens it and nothing closes it
again, so the health endpoint reports a fallback that does not exist. Failures of calls begun before
the breaker closed count toward its next opening.

*Redis bridge.* `redis_bridge_adapter.py:517-519` says "до успешного xadd заявки в стриме нет и повтор
безопасен"; an XADD whose answer is lost is in the stream and is retried beside it (the exception
`unheard` of `OneAtATime`). After a restart of Redis without persistence the group is gone;
`xgroup_create` runs only at the start of `consumer_loop`, NOGROUP is caught with everything else, so
the worker keeps its heartbeat and never reads again until somebody restarts it
(`docs/integrations/redis-llm-bridge.md`, §8, excludes such a "зомби"). An interrupt in mid-call
acknowledges the entry unanswered (§5.8: "XACK … только после того, как ответ записан") and deletes the
heartbeat of the other workers. With a deadline of 60 s and a claim interval of 600 s a claimed request
is always expired and skipped, where the document says it is finished. `PaidOnce` needs the deadline,
with the skew of the clocks, below the claim interval, which the settings do not check. A group made at
`$` skips what was queued before it; an answer in the last 0.3 s of the deadline is not read.

## Proofs

`tlapm` checks every theorem below for all values of the constants; each rests on the named assumption
of its module and nothing else, unless it says so.

**`ActEditing_proofs`** (`TabAssumption`, `ContentAssumption`, `DraftAssumption`: "no draft" is not a
draft): `TypeCorrect`; `VersionsCorrect`, `Spec => []VersionsAgree`; `SavesKeepEdits`, `Spec =>
NoLostUpdate`. `NoLostUpdate` is about one step, but nothing in that step says why the author of a save
at the newest version has all of its edits. The reason is `VersionsAgree`: whoever claims the newest
version - a tab, a draft in localStorage, a draft in a dialog, a save under way, an answer not yet
read - has every stored edit or agreed to give it up (`Current`). Its parts need one another: a draft
becomes a tab's content, a tab's content a request, a request's answer the tab's base, the tab a draft
again; and `DirtyIsOpen` with `AnswersCurrent` says that a page which is gone waits for nothing.
`TypeOK` and `VersionsAgree` together are inductive. `Commit` raises the version above every base that
is around, except those it answers, so older claims become vacuous; a restore or the versionless
default save may remove edits, but leaves nobody at the new version who has not its content. The proofs
follow `Next`: a lemma for each group of actions, and `TabStepAgrees` for what a step of one tab has to
show.

`SavedIsTrue`, `Spec => []SavedIsStored`, for acts that are not new (`~NewAct`; the run
`blind_overwrite` shows it false of a new act). "Saved" is a statement about the server made by a page
that hears of it late, so the invariant follows the claim to its origin: `Tells` says what a tab may say
(`TabTells`), what the answer to a save under way will let it say (`SaveTells`: what the request carried
is stored if the request is at the newest version, and the tab's edits are the request's as long as the
epoch has not moved), and that a tab has one save under way (`OneSave`). `HasTree` says that an act with
a tree keeps one, which is why no default save is ever sent.

`LocalOnlyIsTrue`, `DraftsSurvive` and `LeavingKeepsWork` (`LocalOnlyHasDraft`, `DraftSurvives`,
`NothingLostOnLeaving`) assume `OneTabEach`: no browser has the act open in two tabs. The hypothesis is
needed - with two tabs of a browser TLC finds each of the three violated, one tab saving and dropping the
draft of the other - and every number of users, browsers and successive sessions satisfies it. The
invariant is `DraftsKept`: an open tab shows all of its browser's snapshot, a dialog asks about the very
draft that is in localStorage, and "local-only" means that the snapshot holds all the tab shows. So
whatever drops a snapshot drops what its tab still has or was asked about (`DropsOwn`).

**`AgentChannel_proofs`** (`ChannelAssumption`, and `NoValueAssumption`: the two "none" values are
neither an entry nor a visit): `TypeCorrect`; `Notified`, `Spec => []NotifiedTruthfully`; `Patient`,
`Spec => []PatientTimeout`; `AnswersKept`, `Spec => AnswerNotThrownAway`; `Watched`, `Spec =>
[]StreamingIsWatched` as long as chat messages can be written (`"chat" \notin Faulty`). The author is
told in a step of its own, two awaits after the answer was read, perhaps by a process that stops,
perhaps beside another on the same draft. `IInv` says what a visit knows at each await: `VisitSound` (a
visit about to finish or fail a draft holds the outcome the agent has given; one about to notify has
ended the draft with it), `OneTeller` (at most one visit is on its way to tell, and none once the author
is told), `OutcomesSound` and `BusSound` (outcomes and statuses in the tables agree with `verdicts`),
and `SubmittedSound`. That there is one teller comes from `Ends`: a draft ends once, under its row lock.
`Patient` and `AnswersKept` compare what a process believes with what the agent does meanwhile.
`Informed` says how far the belief can be trusted: the row a visit holds is the row that is there,
unless the visit is marked `since` (`RowsSound`); and a baseline that is still good is no older than the
silence of the row it was taken of (`BaselinesSound`), because reading growth, another row or another
time of change resets the one, and growth the other, and time passes for both. A visit that gives up
without a sign of life has then waited no longer than the reasoning has stood still.

**`LockKeeper_proofs`** (`KeeperAssumption`): `TypeCorrect`; `AlwaysWatched`, `Spec =>
[]SomeoneWatches`; `NothingIsLeft`, `Spec => []NothingLeft`; `LeaseOutlasts`, `Spec => []LeaseCovers` if
an idle user is noticed after more than one check and `MinExtension + DialogTime < LockDuration`. They
come in stages. *Base*: `TimersSound` counts that every interval still running was begun by a session of
its own, and that no more callbacks are due than intervals run; `BeginsOnce`, that one session begins at
a time; the number of a running interval is part of `TypeOK`, so type correctness needs both. *Watched*:
each hand-over - check to dialog, dialog to "Continue", its answer to the check - is one action that
sets the next before it clears the last, and an old session's dialogs and answers do not touch the new
one's (`WatchStep`). *Handover*: an act that is the user's is somebody's to give back, the page's own or
that of a call on its way (`Responsible`), so when the page is gone and no call is left nothing is held;
`CallsSound` and `GoneSound` say which calls may still be on their way, and `unclean` marks the ways out
for which this is false. *Leased*: the page cannot see the TTL, only its own counters. `LeaseSound` says
that they bound the age of the lease: while the idle check runs by the time since the last extension, or
one check more when the user's return delayed it (`ChecksInTime`), and with a dialog by its countdown
(`DialogsInTime`); `RenewalsSound` and `LockSound`, that an answer which resets a counter is of a lease
just renewed; `EndsOnce`, that the calls which end a session do not overlap. The hypothesis on the
settings is used where a dialog has counted down and the exit saves under the lease that was renewed
last.

**`TableGrid_proofs`** (`LimitsAssumption`, and `PresetsAssumption`: the tables a user can begin with are
within the limits and their merges lie inside and apart, which TLC evaluates on the presets of the
run): `GridTypeCorrect`; `GridTiled`, `Spec => []Tiled`; `GridSavable`, `Spec => []Savable`;
`GridImplementsMerges`, `Spec => MergesSpec`; and of the texts `GridTextsOnce`, `Spec => []NoTextTwice`,
`GridTextsKept` (`NoTextLost`) and `GridSnapshotsStayFit` (`SnapshotsStayFit`). A grid shows its merges in three ways - the span of the
top left cell, a mark on each absorbed cell, the address of the origin in the mark - which the
operations update one by one. The invariant says that the three agree: `Carries(g, M)`, the grid carries
exactly the list of merges `M`, which is sound (`Sound`: inside the table, no cell in two). For each
operation a lemma shows that the new grid carries the list the abstract operation makes of the old one,
and one that this list is sound; then the refinement and the server's validators follow from the list.
The arithmetic is that of insertion and deletion inside, before and behind a rectangle, done once per
axis. The texts have an invariant of their own (`TextsFit`): an absorbed cell is blank, the texts kept with
a merge fit into its rectangle and joined are the joined text they are kept with, and no piece stands in
two cells or twice in one. An operation is described by where each cell of the new grid was before
(`Source`, `Before`), or that it is blank; if no cell is used twice the invariant stays (`CarriedTexts`).
Merging and separating need what joining does to arbitrarily many texts: that it has their pieces and no
other, and has each once exactly if each is in one of them, once (`Flattened`, `JoinedBlock`), an induction
over the number of texts on a set of numbers (`UpTo`). That the kept texts fit is what keeps a separation
from dropping some of them after a row was inserted into the merge.

At the end of the module, of the list by itself (`List`): `MergesSound` - any number of operations on a
list of rectangles leaves them inside the table and without overlap. With `GridImplementsMerges` it says what the Word export relies on.

**`LlmCall_proofs`** (`BreakerAssumption`, `CallAssumption`): `TypeCorrect`; `TakesOver`, `Spec =>
[]FallbackTakesOver`. The invariant is about the middle of a walk: a `covered`
question that is being tried has the fallback ahead of it in its plan, or is trying it unhurt
(`CallsSound`). A route is left behind only by a failure, and only a hurt attempt fails, so the walk
neither passes the fallback nor ends before it. The breaker is not part of the invariant: all it may do
to a plan is take out the primary where something else is left. `ProbeTriesFirst`, `Spec =>
NoLiveProbeUnpolled`: where the probe looks after the primary and nobody polls the health endpoint, the
breaker is never half open (`ProbeOnly`: it is always configured `external`, so its timer never
halves it), hence a plan made while it is open has no primary to begin with (`FallbackFirst`).

**`RedisBridge_proofs`** (`BridgeAssumption`): `TypeCorrect`; `AnsweredOnce`, `Spec => []PaidOnce`;
`RetriedClean`, `Spec => []OneAtATime`. A request is handed out by the queue once (`QueuedUnserved`:
nobody has served a queued entry). It is handed out a second time only by a claim, after it was pending
for `ClaimMinIdle`, and it has been pending no longer than it exists (`IdleYoung`); so by then it is past
its deadline by any worker's clock, here is where `Deadline + Skew < ClaimMinIdle` is used, and what a
worker holds from a claim stays expired (`ClaimedOld`). Between the two at most one worker holds a
request young enough to serve (`HeldOnce`). `RetriedClean` needs of the client that the entries it made
before are answered, expired, off the list or unheard when it tries again.

**`ActTreeShape_proofs`** and **`ActTree_proofs`** (the first holds what a tree is, what each action makes
of one, the invariant and `TypeCorrect`, the second the properties; `TreeAssumption`: the nodes are finite and none is a section; and
`FragmentsAssumption`: a copied subtree names its parents before their children, puts nothing below a table,
and levels and banks are those of points): `Structure`, `Spec => []IInv`, and from it `TypeCorrect`, `Spec
=> []TypeOK`; `LevelsAgree`, `Spec => []LevelsFollow`; and the action properties `NodesKept` (`NoNodeLost`),
`BlocksStay` (`BlocksKept`), `TbStays` (`TbKept`), `DepthStays` (`DepthKept`), `RisksStay`
(`RisksStayPlaced`) and `SummariesStay` (`SummariesFollow`). What is below a node is a function over the
finite set of parents (`Descendants`), which has its recursion in it and is well founded only where the children make no cycle. So the first part
of the invariant is `Wired`: nobody has two parents or stands twice among the children of one, and there is
no cycle, said as an induction principle that a proof can use (`Grounded`: a set that holds a node whenever
it holds its children holds them all). On it stand what insertion, detaching and forgetting do to `Under`,
hence to every operator that walks the tree. `Shape` adds that an identifier not in use has left no trace
(`Clean`), that only points have numbers, summaries and banks (`OnlyPoints`), that the roots taken off the
tree by deletions that can be taken back hang nowhere (`Loose`), and that the nodes in use are those of the
tree and those below such roots. `Numbered`: the levels of the points below points of section 5 are those of
their depth, and of the Process Mining point 0. `StackOK` is about the snapshots, `PasteOK` says that a
paste that waits still finds identifiers. `DialogOK` is about what a dialog remembers while Ctrl+Z goes on:
undo under a dialog only puts nodes back, so the point asked about is still there, a confirmed move still
leads nowhere below itself and is never of a risk table, and the point of a warning is still in section 5
unless points hang below content.

Each action is brought to one of a few forms - `Adds` (a clean node becomes a child), `Joins` (a loose
subtree does), `Deletes`, `Moves` (detach and join), `Pastes` (graft and join) - and the properties are
proved of the forms, with one lemma each for the steps of `Next`. Of depths the argument is that a node
below `x` has, after the join, the depth of the new parent plus its steps from `x`, which `getSubtreeDepth`
bounds (`Steps`); of risks, that the level of a point's number tells whether it is in section 5 and whether
it is of the first level (`LevelsTell`), so that the checks of the menu, of the move and of the two pastes,
which read levels, depths and parents, all speak of the same two sides (`OneLevel`). The summaries of section 5
are right if they are the points of the set `Called`, those with a risk below one of their own points
(`IsRight`): a node that comes, goes or moves changes this set only at the point of the first level above
it, so a cascade is right if it
looks at that one point. That an arrow may move what the mouse does not lift makes no difference to them:
no branch with risks comes into section 5 from outside that way (`ArrowsStay`). Two things came out of
the attempt. `DepthKept` and `RisksStayPlaced` are false of a copied subtree with points below a violation,
which neither the depth of a subtree nor the collection of its risks counts: the exception `MixedPaste`. And
`SummariesFollow` is false where a point has no room for its summary (see Structure among the disagreements
above): the exception `Full`.

Only model-checked: liveness under fairness, which is out of reach of the prover: `EveryQuestionEnds`,
`AwayEnds`, `Recovers`, `RequestsSettle`. Every other property of the passing runs is a theorem. Each
invariant behind a theorem was checked by TLC on the instances of the runs before it was proved.

## Not modelled

Read-only viewers; eviction of other acts' drafts when localStorage is full; pruning of saved versions;
the content that a switch of acts saves and loads (its locks are in `LockKeeper`); text blocks, labels
and invoices in the tree; column widths; rich text inside cells, whose behaviour is the browser's
contenteditable; the blocks, buttons and media of a chat answer; the soft limit of active questions;
deletion of a conversation; trimming and TTLs in the Redis bridge. The singleton lock is a row whose
age is its only sign of life, so a second server may start beside a live one; what that does to the
drafts is in `two_processes`. Parts with no protocol of their own (CRUD tables, views, exports,
authentication pages) are listed in `PROJECT.json` with the reason.

## Plan

Done: editing and its theorems; the agent channel and its theorems; the lock keeper; the table grid with its
abstract specification; the structure of an act; the call of a model; the Redis bridge; and theorems for all
of them. Left, in this order: the batchers of metrics and audit records, where adding waits for a flush; the pool
that is recreated when a Kerberos ticket expires; the rounds of the agent loop within their budget; the rate
limiter and the collector of unreferenced images; an abstract "a question is answered at most once" for `AgentChannel` and `RedisBridge`.
