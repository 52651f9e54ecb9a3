# PARA organizer: specifications, model checking and proofs

TLA+ models of the PARA organizer (a note keeper with a FastAPI application, a
background worker, a scheduler and an MCP server over PostgreSQL and Redis), the
TLC configurations that check them on small instances and TLAPS proofs of their
central invariants for instances of every size. File and line references are to
the repository's files under `src/`.

## 1. The system

Production is four containers (docker-compose.yml) beside an external PostgreSQL,
a Redis with `appendonly yes` and `allkeys-lru`, a language model (Ollama) and
Telegram. Every container has `restart: unless-stopped`; README.md and
DEPLOYMENT.md give each one replica.

| Component | State | Operations | Talks to |
|---|---|---|---|
| Task queue (`app/task_queue.py`) | Redis lists `para:queue:*`, sorted sets `para:delayed:*` | publish, delayed publish, consume with `_flush_delayed` | called by API, scheduler, worker |
| Worker (`app/worker.py`) | the popped batch, the attempt count, all in memory | `worker_loop`, `retry`, eight handlers, shutdown | queue, PostgreSQL, model, Telegram |
| Scheduler service (`app/scheduler_service.py`) | Redis key `para:scheduler:lock`, `_held`, APScheduler's jobs | acquire, renew, release, `_push_job` | queue |
| Notes API (`app/routes_v2.py`, `database_v2.py`) | rows of notes, history, links, feedback | create, update, move, archive, reclassify, delete | PostgreSQL, queue, events, model |
| Events (`app/events.py`) | rows of events: pending, delivered, failed | emit, dispatch with retries, manual retry | a webhook |
| Reminders and batch jobs (`app/scheduler.py`, `notifier.py`) | notifications, history, notes | deadline, stale, escalation, archive, digest, review | Telegram, events |
| Links (`app/linker.py`, `vector_store.py`) | rows of links, vectors | suggest, auto-link | model, PostgreSQL |
| Tasks and autonomy (`app/tasks.py`, `autonomy.py`) | rows of tasks | propose, approve, create, complete, fail | Telegram, agents, model |
| Telegram bot (`app/integrations/telegram_bot.py`) | none of its own | commands, chat turns, callback buttons | all of the above |
| MCP servers (`app/mcp/mcp_server_http.py`, `mcp_server.py`) | none of their own | tools over notes, links, tasks, items, plans | PostgreSQL, model |
| Chat (`app/chat.py`) | the last messages of a chat | reply, summarise, clear | model |
| Cron webhook (`app/routes/cron_webhook.py`) | rows of notes | take in a note once | SQLite, model, queue |
| Action items (`app/items.py`) | rows of items | create, tick off, delete, progress | PostgreSQL |
| Graph (`app/graph.py`) | none | subgraph, path, clusters, related, full graph | PostgreSQL, vectors |
| Cache (`app/cache.py`) | Redis keys `para:tree`, `para:stats`, ... | get, set with a time to live | Redis, PostgreSQL |
| Planner (`app/planner.py`) | none | plan | PostgreSQL, model |
| Settings, backup, search, pages, import, review, health | single rows, files | | |

The parts interact in three ways: tasks through the queue (published before the
publisher's transaction commits, and only by the API, the scheduler and two
webhooks), rows of PostgreSQL that several processes read, wait on the model, and
write, and Redis keys with a time to live.

What is hard here, and what makes each part correct:

* **Queue and worker.** Popping removes a task before it is handled; the flush
  of due tasks is three commands; a stop cancels whatever runs; an error of
  Redis ends the loop. Correct: a task vanishes only for a cause the design
  admits, in bounded numbers; undelayed tasks are first in, first out and never
  handed out twice; a handler's effect is repeated only by its retries; every task is
  eventually taken unless the worker stalls.
* **Scheduler.** The lock's value does not name its owner and the renewal's
  answer is not looked at. Correct: few instances schedule at once and few
  copies of a run are published, in proportion to what went wrong; after every
  stop somebody schedules again.
* **Notes.** Requests and handlers read a row, wait for a model and write it
  later; tasks are published before the commit; feedback is written in a second
  transaction. Correct: no handler undoes an edit; a vector that does not fit
  the text has a task on its way; feedback belongs to a move; requests end.
* **Events and reminders.** Effects outside the database come before their
  recording; the event commits the job's transaction; on SQLite one writer keeps
  all others out while it waits. Correct: an event is settled once and not
  forgotten without a fault; a reminder is repeated or unrecorded only if a
  transaction was lost or a locked database refused its row; a run that comes to
  its commit has taken every note it was for.
* **Tools, bot and agents.** A call loads a row, waits, and commits what differs;
  checks are separated from the acts they guard; buttons are pressed twice.
  Correct: history tells the truth; a recurring note goes on from its own
  deadline; no second task for what was seen to have an open one; the model is
  given the last messages of a chat, in whole turns, while the limit stays.
* **Answers.** A search, a plan or an overview is put together from several
  queries while notes change, and may be kept. Correct: what it says was true
  lately, and exactly true if nothing changed.

## 2. Modules

| Module | Models | Code |
|---|---|---|
| `TaskQueue` | the lists and sorted sets, publish, ZADD, eviction, the clock | task_queue.py |
| `Worker` (EXTENDS `TaskQueue`) | the worker processes: rounds, flush, pop, attempts, back-off, stop, Redis error, restart | worker.py 31-51, 393-444, task_queue.py 102-156 |
| `TaskDelivery` | the promise for undelayed tasks, without Redis, batches or retries; implemented by `Worker` | abstract |
| `SchedulerService` | the lock, its time to live, the scheduler processes and the runs of one job with a cron trigger | scheduler_service.py |
| `NotePipeline` | one note between concurrent requests and the worker | routes_v2.py, worker.py 57-128, feedback.py |
| `EventBus` | events, the calls of `dispatch_event`, the webhook | events.py |
| `Outbox` | the promise to the subscriber: settled once, delivered only if heard; implemented by `EventBus` | abstract |
| `Reminders` (EXTENDS `EventBus`) | the batch jobs over notes, notification rows and messages, the buttons, both backends | scheduler.py, notifier.py, telegram_bot.py 378-475 |
| `NoteTools` | the tools and commands that change a note or its links, the link handler, recurring instances | mcp_server*.py, telegram_bot.py, worker.py 191-263, utils.py |
| `AgentTasks` | the daily job, proposals, tasks and reports, both backends | autonomy.py, tasks.py |
| `Conversation` | the updates of a chat: turns, summaries, clearing; the limit of the history, changed at any moment | chat.py, telegram_bot.py, routes_v2.py 510-542 |
| `CronIntake` | requests of cron jobs | routes/cron_webhook.py |
| `Checklist` | transactions over the items of a note | items.py, routes/items.py |
| `GraphSearch` | five searches, query by query, while the graph changes | graph.py, mcp_server.py 227-324, routes_v2.py 355-391 |
| `ReadCache` | overviews read query by query, cached or not, while notes move | cache.py, routes/para.py, routes/stats.py, scheduler.py 449-491 |
| `Planner` | a plan from three queries | planner.py, mcp_server.py 446-527 |
| `WorkerProofs`, `SchedulerProofs`, `NotePipelineProofs`, `EventBusProofs`, `RemindersProofs` (EXTENDS `EventBusProofs`), `NoteToolsProofs`, `GraphProofs` (about `GraphSearch`) | theorems about the module of the name | |
| `PartsProofs` | theorems about `AgentTasks`, `Conversation`, `CronIntake`, `Checklist`, `ReadCache`, `Planner` | |
| `MCWorker`, `MCNotePipeline`, `MCReminders`, `MCScheduler` | the first three with symmetry for TLC | |
| `MCTools`, `MCQueries` | several modules that share no state side by side in one run, one per behaviour | |

**TaskQueue and Worker.** `queue[t]` is the list of topic `t`, `delayed[t]` its
sorted set. A task is its number, which stands for its place in the order of
publication, its topic and a body; two delayed tasks of a topic with equal bodies
are one member of the sorted set, as in Redis, and the earlier one is recorded in
`merged`. `publish` with a delay is two steps, `Schedule` (the clock is read) and
`ZAdd`, because the clock moves in between. The worker's `pc` names the command
or await it is at: `FlushRead` (ZRANGEBYSCORE), `FlushPush` (one LPUSH each),
`FlushRemove` (ZREMRANGEBYSCORE), `Pop` (one RPOP each), `Perform`, `Return` and
`Raise` (one attempt of a handler, whose outside effect may precede its
exception), `Backoff`, `Drop`. `Interrupt` is a kill, `Stop` the signal that
cancels the loop, `RedisError` the exception of `consume`, which nothing catches:
the process lives on without a loop ("stalled"). A handler is reduced to one
effect; what classify and embed do is in `NotePipeline`.

The order in which `worker_loop` visits the topics within a round is left open.
It adds behaviours, and removes none. `consume` checks nothing about who else
consumes, so the number of workers is a constant: the proofs hold for every
number, the runs take the deployed one.

**SchedulerService.** `ttl` is what is left of the key's time to live, 0 when
there is no key. One `Tick` is ten seconds in the runs (`LockTTL` 3,
`RenewInterval` 2 for 30 s and 20 s). `slept[s]` counts the ticks of the renewal
loop's sleep; an instance may be late by any number of ticks, and the ticks it
stays late beyond the time to live are counted as overruns. `Renew` is EXPIRE
whatever the key's owner, `Release` is DELETE whatever the key's owner. Jobs are
followed through one job and its run times: `NextSlot` makes every active
instance owe a run, `PushJob` starts the fire-and-forget task and `DoPush` is its
publication. One run time for all instances is what a cron trigger gives. The two
interval jobs (scheduler_service.py:101-108 and 164-171) count from the start of each
instance; they are not modelled, and `FewRuns` says nothing of them.

**NotePipeline.** A request is one transaction. `Fetch` is `_fetch_note`'s
SELECT, `Write` the UPDATE or DELETE that takes the row (`lock`), `Publish` one
LPUSH, `RecordFeedback` the second session of `move_note`, `Commit` what `get_db`
does after the route function returned. The handlers load the row (`snap`), await
the model and commit only the columns that differ (SQLAlchemy's unit of work).
`excused` remembers that the vector may stay behind for one of the causes
`StaleNeedsCause` lists. The title is kept fixed: `text` is the content.

**EventBus and Reminders.** `events[e]` is a row with what it reports, `heard[e]`
how often the subscriber received it, `sending[p]` the call of `dispatch_event` a
coroutine is in. `retry_event` reads SQLite, where there are no events, so it is
no action. A job (`job`) has read its notes (`seen`) and takes them one by one:
`Skip` finds an equal notification, `Tell` sends the message, `Record` adds the
row, `RecordAndReport` adds it and emits the event, which commits the job's
transaction early (PostgreSQL). On SQLite `emit_event` cannot work with the
connection it is given and the exception skips the rest for the note.

A transaction of SQLite keeps every other writer out from its first write to its
commit (`Holds`, `Locked`). A job holds the lock from its first row; a button of a
stale reminder (`KeepStale`, `ArchiveStale`: telegram_bot.py:407-428) writes the note,
awaits Telegram with the transaction open (`press`) and only then commits
(`CommitPress`) or dies (`PressDies`). A write of a job that waits for too long is
refused: `InsertRefused` and `UpdateRefused` are the `except ... continue` of
scheduler.py:329-331, 433-435, 701-703 and 198-200, after which the run goes on to
the next note and ends well; `refused` keeps the messages that stay without a row so.
The buttons stamp `updated_at` with CURRENT_TIMESTAMP (UTC) while the jobs compare with
`datetime.now()`: `Stamps` is any day up to `Lag` from today. `losses` counts transactions
that were lost after their messages went out. A run and a press end on the day they
began: the clock `Tick`s while neither is under way.

**NoteTools.** A call is `Ask` (does the note exist), `Load`, and `Commit` of the
fields it wants. On PostgreSQL the session sends only the fields that differ from
the row it loaded, while its row of history is written in any case; on SQLite
every field is set. `crossed` remembers notes that changed between a load and a
commit. `Named` are the fields that the row of history speaks of: for
`para_reclassify` the category only, although the call writes or clears the deadline
(mcp_server_http.py:669, 675); `untold` are the notes whose deadline was last
written so. `auto` and `hand` count links by who made them, since two handlers may
make the same one.

**AgentTasks, Conversation, CronIntake, Checklist.** `look` is the number of tasks
there were when the daily job looked for an open one. In `Conversation` `spoken`
is the whole chat since it was cleared and `messages` what the trimming leaves.
`limit` is CHAT_HISTORY_MAX, which PUT /api/settings sets to any integer at any moment
(`SetLimit`); `change[k]` says whether it was changed since chat `k` was cleared, and
lowered since it was last trimmed. `get_history` takes the *oldest* rows up to the
limit (`Oldest`), `append_message` keeps the *latest* (`Latest`). "/note" with a text
reads nothing (`NoteFromText`), "/note" without one reads what it summarises
(`NoteFromChat`); both clear the chat at the end, whatever was said meanwhile.
In `CronIntake` `met` is the most requests for one text that were at work at once.
`Checklist` has transactions under READ COMMITTED: each count sees its own writes
and what others have committed by then (`moved` if that changed in between). The
progress is rounded to two decimals (`Rounded`, items.py:95), so that from 20001 items
on it is 100.0 with one of them to do.

**GraphSearch, ReadCache, Planner.** A request is a record that goes from query to
query; other actions change the rows between. The variables `ever`, `was` and
`updates` keep what the properties compare the answers with. The searches of the
API and of the MCP server, written twice in the code, are one set of actions.
`frontier` holds paths, as in `find_path`; the subgraph and the clusters only use
their last notes. The subgraph and the related notes are served by the MCP tools
`para_graph_context` and `para_related`, the full graph by `/api/graph`
(routes_v2.py:355-391: the notes whose status is not "archived", and the links with
both ends among the notes read). The searches for a path and for clusters are those
of `graph.py`, whose router, routes/graph.py, main.py does not mount: what is shown of
them is about the functions, not about a deployed endpoint. The plan's order has both
keys of `_urgency_key`, the presence of a deadline before the days left.

## 3. Runs

| Run | Checks | What it shows |
|---|---|---|
| `worker` | TypeOK, NothingVanishes, DuplicateNeedsInterruption, EffectsBounded, LossBounded, TakenInOrder, RefinesDelivery | the queue's safety, and that it implements `TaskDelivery` |
| `worker_drains` | EventuallyTaken | every queued or due task is popped unless the worker has stalled |
| `worker_durable` (violation) | Durable | a stop loses the popped batch, against README.md:93 "Durable" |
| `scheduler` | TypeOK, FewSchedulers, FewRuns, SomeoneSchedules | at most one holder and one publication more per disturbance; after a stop, a kill or a disturbance somebody schedules again |
| `scheduler_singleton` (violation) | Singleton | one failed renewal lets two instances schedule, against the module's docstring |
| `notes` | TypeOK, UserTextStands, StaleNeedsCause, FeedbackNeedsMove | the note's safety under concurrent requests and handlers |
| `notes_settle` | RequestsEnd, EventuallySearchable | no request waits for ever; the vector catches up except for the named causes |
| `reminders` | TypeOK, PostsBounded, PendingNeedsFault, KeepsPromise, RepeatNeedsLoss, RecordsTrue, ReportedTogether, EveryoneAttempted, QuietAfterKeep | the event bus implements `Outbox`; reminders are repeated, forgotten or misreported only for a named cause |
| `tools` | HistoryAgrees, SeriesAdvances, AutoLinksBounded, OneOpenTask, WindowIsLatest, TurnsWhole, CronOnce, ProgressSane | what concurrent tool calls, agents, chat updates, changes of the chat's limit, cron requests and item edits leave behind |
| `reminders_keep` (violation) | KeepsItsWord | a stale reminder follows the press of Keep, against the answer of the button |
| `queries` | PathTrue, GraphTrue, AnswersFresh, PlanSane | what answers put together from several queries are worth |
| `notes_backfill` (violation) | Backfilled | a note that missed its embed task stays pending: the backfill job's task names no note |

**Bounds.** Every bound is a constant of its module, named in its declaration.
`worker`: three tasks over two topics with batches of two, so that a batch can be
lost and leave a task behind, two tasks can queue in order behind a delayed one,
and two equal delayed bodies merge; two attempts tell a retry from a last
attempt; one interruption at any step. The liveness run takes fewer tasks and two
interruptions, a stop of the restarted worker included. `scheduler`: three
instances, because one disturbance allows two holders and a violation needs a
third; one stop, one failed command, one eviction, one overrun and one run time, since
runs do not interact; the theorems are about any numbers. `notes`: three requests, one of which
creates the note, so that two race for the row (an edit against an edit, a move
or a delete), over two texts and two categories and one failure. The liveness run
has two requests. The models have no other state that grows: the queue counters
of `NotePipeline` are bounded by what the requests publish.

`reminders`: two notes over four days, a deadline and one it can be moved to, a
reminder one day ahead, a clock of the database up to a day off, two days to become
stale, two attempts, one fault, two runs of jobs and one edit: a message can be
repeated only by a second run, and forgotten only if something happens between.
`Together` groups the jobs with the edits that bear on them, so that not every pair of
unrelated ones is explored. `tools`: two callers, three calls and four ids (two notes,
and instances made from them), again in groups of tools that touch the same fields
(`ToolsTogether`); one topic of two causes, two runs, three tasks and three presses,
reports or deletions; one chat with two handlers and four updates or changes of a
limit of two, three or four messages, so that a third turn trims, an odd limit cuts a
turn and a lowered one leaves too much; two requests at once, four in all, over a window of two ticks in four; two
transactions over three items. Properties that count what is at work at once need two.
`queries`: five notes and seven graphs, among them a chain longer than the depth of
three and a ring that offers a way round of every length, with one change during a
search, and in one of them a note that is archived from the start; one note over two categories with two
readers and two moves, since the overview treats each note alike and the keys have
nothing to do with one another; two notes without a deadline or with one of yesterday,
today or 12000 days away, beyond the 9999 days that `_urgency_key` gives a note
without one, one change. A chat with five
updates and limits of -1, 0, 3 and 4 was checked once and showed nothing else.

`CHECK_DEADLOCK FALSE` is set where the bounds let the model run out of steps
(tasks and time in `Worker`, requests in `NotePipeline`, days, calls and queries in
`reminders`, `tools`, `queries` and the violation run about reminders), not
for the scheduler.

**What the properties excuse.** Each names its exceptions; these are the ones a reader
may not expect.

* `DuplicateNeedsInterruption` is about a single worker that was never interrupted. It
  does not say which step an interruption must hit.
* `RefinesDelivery` is a safety refinement: nothing of it says that a task is taken.
  `EventuallyTaken` does, and excuses the state in which every worker has stalled.
* `FewRuns` is about a job with a cron trigger.
* `EventuallySearchable` is checked with two requests, too few for the crossed pair of
  edits, which `StaleNeedsCause` has among its causes.
* `PathTrue` permits a path over links that were never there together.
* `RepeatNeedsLoss`, `RecordsTrue` and `EveryoneAttempted` excuse the message whose row a
  locked database refused, by name, and no other; `EveryoneAttempted` is about runs that
  come to their commit, not about one that a deleted note stops on PostgreSQL.
* `QuietAfterKeep` excuses a run that had read the note before it changed: the run
  `reminders_keep` shows that there is one.
* `HistoryAgrees` excuses the deadline after `para_reclassify`, and crossed calls on
  PostgreSQL.
* `OneOpenTask` is about what the look saw; a task made between the look and the
  creation is not excluded, since nothing in the code looks again.
* `ProgressSane` excuses counts between which somebody else commits, `SeriesAdvances`
  crossed calls, each of which may make an instance.
* `WindowIsLatest` and `TurnsWhole` excuse a limit lowered since the last message, after
  which the model is given the oldest messages (section 4).

**Fairness.** `Worker`: a running process takes its next step (asyncio runs a ready task),
a stopped container is started again, a handler returns or raises. `Scheduler`:
time passes, a live instance runs, a stopped one is restarted. `NotePipeline`: a
request that was begun runs on (weak), the worker visits every topic again and
again (strong, per topic: it may be busy at any one moment), its handler finishes,
the scheduler pushes its job again and again. No fairness is assumed of failures, evictions or new
requests. Commands of Redis and PostgreSQL may fail only as often as the bound
says; a redis client that retries by itself is not assumed. The other modules state
safety only: their liveness would be that a model or a database answers.

## 4. Findings

1. **The queue is not durable** (`worker_durable`): worker.py:398 pops up to five
   tasks and handles them one after the other; worker.py:437 cancels the loop.
2. **The scheduler is not always single** (`scheduler_singleton`): the interval
   of 20 s leaves no second attempt within 30 s, and the answer of EXPIRE on a
   missing key is not looked at (scheduler_service.py:59-66).
3. **The embedding backfill embeds nothing** (`notes_backfill`): the job
   publishes `{"source": "backfill"}`, `handle_embed` looks up note `None`. Because
   `create_note` publishes before it commits, a quick worker makes such notes
   without any failure.

4. **Keep is not kept** (`reminders_keep`): the answer of the button promises silence for
   NOTIFY_STALE_DAYS days (telegram_bot.py:416); a run that read its rows before
   (scheduler.py:398-405) does not read them again and reminds of the note all the same.

Met while modelling, for the maintainers. None is a run of its own, since nothing
in the repository says otherwise or a unit test shows it as well:

* `create_item` refers to an uncommitted note and always fails (routes_v2.py:166).
* `emit_event` commits the session it is given (events.py:89, docstring at 79).
  The dispatch relies on it: `_set_status` looks for the event in a session of its
  own.
* The Done button of a deadline reminder is ignored (telegram_bot.py:450).
* Editing a title, or anything over MCP, never re-embeds.
* `retry_event` and the reminders' events on SQLite never work: one reads a table
  that is never written, the other passes a connection where a session is needed.
* Completing a recurring note again, by tool or with "/done", makes another instance.
* `para_delete` only sets `archived_at`; `para_reclassify` writes the deadline the model
  names or clears it, which neither its docstring nor its history says.
* A job on SQLite whose row is refused by a locked database goes on
  (scheduler.py:329, 433, 701): the message is out, and the next run repeats it. The
  buttons keep that lock while they await Telegram (telegram_bot.py:416, 426).
* `get_history` says "Last CHAT_HISTORY_MAX messages" and selects the oldest
  (chat.py:47-51), which is the same only while the limit is what the last append trimmed
  to; the settings lower it live.
* "/note" reads the chat, asks the model, makes the note and then deletes the whole chat
  (telegram_bot.py:260-266): what was said meanwhile is in no note.
* An odd CHAT_HISTORY_MAX gives the model an answer without its question, and nothing
  checks the setting. The buttons write UTC where the jobs compare with local time.
* The report of a task without a note is not kept by `para_task_result`.
* On SQLite `complete_task` holds the write lock while the model is asked, and the
  plan and a query of autonomy name tables or columns its schema lacks.
* `/api/deadlines` and `/api/digest` read SQLite, the notes are in PostgreSQL; the
  classify task of a cron note carries an id of SQLite.
* `handle_distill` asks for the summary twice (worker.py:280 and 285).
* A note that is overdue and has no action items is in no plan; a path from a note
  to itself is not found; clusters leave out notes without links.

## 5. Proofs

TLAPS checks the theorems for every value of the constants: any number of workers,
topics, tasks, instances, requests, notes, callers and chats and every bound. They
assume the modules' named assumptions only, which TLC evaluates on the runs'
instances: sizes, days and bounds are natural numbers, batches, attempts and
retries positive; the workers, instances, requests, notes of `Reminders`, items and
jobs are finitely many; the renewal interval is shorter than the time to live;
"archives" is among the categories; the limits of a chat's history are any integers,
odd, zero and negative ones included; deadlines of the planner are integers; `Shelves` is a
sequence of categories, and "nowhere" is none; the ids of notes are finitely many and
no link leads from a note to itself (mcp_server.py and `handle_link` refuse it).

The modules of the runs `tools` and `queries` share no state. Their theorems are about
the part by itself: `ToolsSpec`, `TasksSpec`, `ChatSpec`, `IntakeSpec`, `ListSpec`,
`CacheSpec` (both keys at once), `PlanSpec` and `GraphSpec` are the part's initial predicate and
its next-state relation. Every step of `MCTools` and `MCQueries` is a step of one part
and leaves the others' variables unchanged, so that each behaviour of a run is one of
every part's specification. In the same way `BusSpec` is about any emitters, and the
jobs and users of `Reminders` are two.

* `WorkerProofs!TypeCorrect`, `SchedulerProofs!TypeCorrect`: type invariants.
* `WorkerProofs!FirstInFirstOut` (`TakenInOrder`): no undelayed task is popped
  after a later one or twice. Not inductive by itself: the invariant adds that
  the undelayed tasks in a list stand in ascending order of number from the
  popping end, are above the last one popped and not above the number published,
  and that no undelayed task is in a sorted set or being moved out of one.
* `WorkerProofs!EffectsBoundedByAttempts` (`EffectsBounded`): the effects of the
  current task never exceed its failed attempts, plus one while an attempt runs.
* `SchedulerProofs!FewHolders` (`FewSchedulers`): the invariant `HoldersPaid`
  calls a holder *good* when the key outlives its sleep, and says that the other
  holders, and the holders beyond the one the key admits, were each paid for by a
  disturbance. It is needed because a split caused by one disturbance goes on
  long after it and must not be paid for twice when the foreign key is released.
* `SchedulerProofs!FewPublications` (`FewRuns`): instances that owe a run,
  publications under way and publications done are together at most one more than
  the disturbances, for a job with a cron trigger; it rests on `FewHolders` at the moment a
  run comes due.
* `NotePipelineProofs!EditsStand` (`UserTextStands`), `StaleHasCause`
  (`StaleNeedsCause`) and `FeedbackHasMove` (`FeedbackNeedsMove`), with their type
  invariant `TypeCorrect`. They share `RequestInv`: what a request's place in its
  route function tells of its route and its change, and that nothing else runs
  while the note is being created, so that an UPDATE which missed the row cannot
  find it later. `EmbedInv` then says, while nothing is excused, that an embed task
  published for an uncommitted text is still queued, and that with no embed task
  queued either the running handler has loaded the present text or the vector is
  the text's: without the first half a commit could make the vector stale after
  its task was handled, without the second a handler that loaded an older text
  could store it last. `FeedbackPaid` counts only moves that found the row.

* `WorkerProofs!LossIsBounded` (`LossBounded`): a batch is never longer than
  `consume`'s bound, and only an interruption moves it to `lost`.
* `WorkerProofs!NothingVanishesWithoutCause` (`NothingVanishes`). `FlushRemove` takes
  out of the sorted set all that was due at its clock, whoever pushed it, so the
  invariant follows the flush: an entry that is due by a worker's `cutoff` and still
  in the set is yet to be pushed by it, or its task is in a list, a batch or among
  the lost, evicted, merged, late or ended ones, which no step takes it out of.
* `WorkerProofs!OnceUnlessInterrupted` (`DuplicateNeedsInterruption`): with one worker
  and no interruption a delayed task is at one place at a time, or at two while it is
  being flushed, and then the flush that pushed it removes it.
* `WorkerProofs!ImplementsDelivery` (`RefinesDelivery`): each action of `Worker` is a
  step of `TaskDelivery` or stutters, under the invariant `OrderInv` and the numbering
  of the batches.
* `EventBusProofs!BusTypeCorrect`, `PostsAreBounded`, `ForgottenOnlyByFault` and
  `BusKeepsPromise` (the refinement of `Outbox`). `BusInv` says that each event is sent
  by the one coroutine that emitted it, that the event of a call is pending and was
  posted as often as the call counted, and that a call which goes to record a
  delivery was heard. `RemindersProofs` repeats three of them for the bus as the jobs
  and the users drive it.
* `RemindersProofs!NoRepeatWithoutLoss` (`RepeatNeedsLoss`) and `RecordsAreTrue`
  (`RecordsTrue`) hold together, `RecordInv`: a message is on record, in the table or in
  the run's transaction, or in hand, unless a transaction was lost, this message's row
  was refused or the note was deleted; an escalated note is urgent by now or will be
  when the run commits. It needs that a press which is open holds the lock, so that the
  note it will write is still the one it read.
  `RemindersReportedTogether` rests on `ReportInv` (on PostgreSQL no row that was sent
  stays in the transaction, because the event commits it), `QuietDaysAfterKeep` on
  `KeptInv` (a kept note's stamp is at most `Lag` days before the press, and every note a
  stale run has still to take was stale when it was read), `EveryoneIsAttempted` on
  `AttemptInv` (every note the run was for is yet to come, at hand, on record or
  refused). `TypeCorrect` is their type invariant.
* `NoteToolsProofs!HistoryAgreesAlways`, `AutoLinksAreBounded`, `SeriesAlwaysAdvances` (an
  action property) and `ToolsTypeCorrect`. `ToolsInv` says that history agrees but for
  `untold` and `crossed`, and counts, for every pair of notes,
  the links made by handlers and the handlers that found the pair unlinked and are yet
  to commit: together they are at most as many as were at work at once.
* `PartsProofs!ProgressIsSane` (`ProgressSane`): a session that has counted the items
  still sees as many, or somebody committed since; the lemma `Percentage` says which
  counts round to 100.00.
* `PartsProofs!CronDeliversOnce` (`CronOnce`): the notes a lookup would find now and the
  requests that found none are together at most the requests at work at once; a
  window that ended before does not grow.
* `PartsProofs!ChatWindowIsLatest`, `ChatTurnsWhole`. `ChatInv`: the rows of a chat are
  the latest of what was said, fit the limit unless it was lowered, and are all of it or
  as many as the limit if it never changed (`Windows`); unless turns overlapped, what
  was said is whole turns and one message more while exactly one handler is halfway
  (`TurnsKept`). The end of a sequence of whole turns is whole turns but for its first
  message (`WindowOfTurns`), and an even end of it is whole turns.
* `PartsProofs!LookedAtOnce` (`OneOpenTask`): what was cleared at a look stays cleared,
  since a task that exists is only finished or loses its note; wish, row to be
  created, proposal and task carry the look along.
* `PartsProofs!PlansAreSane` (`PlanSane`): the first query's entries are of different
  notes, and what nobody changed is what the last query sees; a list that no entry of which is
  `Before` an earlier one has the dated entries first and by deadline, however far the
  deadlines are, because the presence of a deadline is compared first (`InOrder`).
* `PartsProofs!AnswersAreFresh` (`AnswersFresh`): what has been read was true within the
  ticks of the request's age, what is cached within those and the ticks its time to
  live has used up; as time goes on the window of a claim grows with its age.
* `GraphProofs!PathsAreTrue` (`PathTrue`) and `GraphAnswersTrue` (`GraphTrue`), for every
  finite graph. The notes within a number of links, `Ball`, are a recursive function;
  that it is well defined, grows, and is closed after as many links as there are notes
  is shown by `SetInduction`: a set of numbers that has 0 and every successor of its
  members has all numbers, because the least one missing would be one of them. `Frontier`
  says of the paths in the queue that they begin at the root, follow links there were,
  visit no note twice, end at different notes and are in the order of lengths which
  differ by one at most. While nothing changes, `Exact` says that a note's depth is its
  distance and `Opened` that all neighbours of a note were visited unless it is on the
  frontier or at the limit; `Reached` concludes that whatever is nearer than the first
  path in the queue was visited, which keeps `Exact`. The links of a subgraph are those
  of the notes followed (`Touched`), each note next to one a level nearer (`Near`); the
  hops asked for and the links found are equally many, since no hop of a path is the
  reverse of another (`Asked`). A cluster in the making lies in one component and is
  open at the frontier only (`OnePart`); while nothing changes every linked note is on
  the list of related notes before it is filled up (`RelatedInv`).

The proofs corrected the models: `Record` of `Reminders` did not let a run of escalations
go on after its note was deleted, where the code meets the deletion only when it
commits; and nothing had said that workers, items and jobs are finitely many,
without which counting them means nothing.

Only model-checked: liveness under fairness (`EventuallyTaken`, `SomeoneSchedules`,
`RequestsEnd`, `EventuallySearchable`), which is out of the prover's reach. Every
safety property of a passing run is a theorem.

## 6. Not modelled

The contents of model answers, formatting and the user interface. The routes,
tools and commands that only read, except where an answer is put together from
several queries. The SQLite code path, except where production still runs on it.
The handlers of distillation, review and escalation (texts, and what the batch
jobs of scheduler.py do as well). The calendar: a deadline is a point on a line,
and the lengths of months, where `compute_next_deadline` clamps, are within reach
of unit tests. Settings (but for the limit of the chats), backup, import, search and
migrations are single rows, files or run by hand. Of the knowledge graph, `get_full_graph`
and the cross-category links behind the router that main.py does not mount. The
interval jobs of the scheduler as such (`FewRuns` is about cron triggers). Edits of a
title in `NotePipeline`, which change what is embedded (routes_v2.py:256).

Assumptions about libraries whose code is not in the repository: APScheduler runs
`_push_job` in the event loop, as the comment at scheduler_service.py:89 says (an
executor that ran it in a thread would make `asyncio.create_task` raise, and no job
would publish anything);
SQLAlchemy writes only columns whose value changed and ends a session whose flush
failed; PostgreSQL works at READ COMMITTED; SQLite admits one writer. The
components without a module are listed in PROJECT.json with the reason.

## 7. Plan

1. Title edits and edits over MCP in `NotePipeline`, with its proofs.
2. The calendar of `utils.py` as operators, checked against a definition by days.
