# Verification of ACHGateway

ACHGateway accepts ACH files over HTTP or a stream, keeps them on disk per
shard, and at each cutoff merges the pending files and uploads them to an ODFI's
server.  In the other direction it fetches the files the ODFI publishes and turns
them into events.  This directory holds TLA+ models of both and of the process
around them, TLC configurations that check them on small instances, and TLAPS
proofs of their main properties for every instance.  All paths below are relative to `src/`.

## The system

| Component | State it keeps | Operations | Talks to |
|---|---|---|---|
| File receiver (`internal/pipeline/file_receiver.go`) | two subscriptions, response channels | `Start`, `handleMessage`, `processMessage`, `processACHFile`, `cancelACHFile` | files table, aggregators, event emitter |
| Files table (`internal/files`) | a row per accepted file | `Record`, `Cleanup`, `Cancel` | MySQL, Spanner, or nothing (mock) |
| Storage (`internal/storage`) | the directory tree | `WriteFile`, `ReplaceFile`, `ReplaceDir`, `RmdirAll`, `Glob`, ... | the filesystem |
| Merging (`internal/pipeline/merging.go`) | nothing of its own | `HandleXfer`, `HandleCancel`, `WithEachMerged` | storage, `ach.MergeDir`, upload agents |
| Aggregator (`internal/pipeline/aggregate.go`) | one goroutine per shard | scheduled and manual cutoffs, `emitFilesUploaded` | merging, emitter, audit trail, notifications |
| Cutoff scheduler (`internal/schedule`) | cron jobs, a channel | `Stop` | aggregator |
| Manual cutoffs (`manual_cutoff_times.go`) | a waiter per request | trigger and wait | aggregator |
| Cleanup service (`cleanup.go`) | ticker, done channel | delete old isolated directories | storage |
| HTTP submission (`internal/incoming/web`) | waiters by file ID | create, cancel, wait for the response | publisher, response channels |
| ODFI processing (`internal/incoming/odfi`) | scheduler, downloaded files | trigger; download, audit, process, delete | upload agents, audit trail, emitter |
| Shard mappings (`internal/shards`) | key to shard name | lookup, create, list | database |
| Upload agents, retry (`internal/upload`) | connection | upload, list, delete | FTP, SFTP |
| Events, notifications, alerting | none | send | webhook, stream, mail, Slack, PagerDuty |
| Compliance and models (`pkg`) | none | protect and reveal, read events | |

What makes it hard: a message may be delivered again while its first delivery
is still being handled; recording a file, writing it and committing its message
are three steps on three systems; a cutoff renames the pending directory under
workers that write into it and under cancellations that have just looked at it;
any of ten calls inside a cutoff may fail and the rest of the cutoff goes on;
and the process may die anywhere.  `PROJECT.json` lists each hazard at its line.

What makes each part correct:

* receiver and files table: one winner per file; a committed message's file is
  not lost; every message that can be handled is committed in the end;
* storage and merging: canceled files stay behind; files that are removed without
  having been uploaded are an error to report; each pending file is taken by a cutoff;
* aggregator: no file is sent twice; what is announced was sent; a cutoff that
  reports no error sent everything and accounted for it; cutoffs end;
* scheduler, manual cutoffs: each window of a banking day gets its cutoff, each
  trigger one cutoff and one answer, a 200 means the cutoffs succeeded, and no
  client is left when the process stops;
* cleanup: only what was uploaded is removed, and all of it in the end;
* HTTP submission: an answer tells of something that happened, and no waiter
  that timed out or was replaced can block the listener;
* routing: what is published can be read, and a cancellation goes where its file
  went;
* retries: what is reported as uploaded is on the server, and who is to be
  notified is tried;
* ODFI: nothing is deleted that was not audited and announced, one bad file or
  shard does not stop the others, every trigger request is answered.

## The modules

`Storage`, `Merging` and `FilePipeline` are one specification in three layers,
each extending the one before.

**`Storage`** is the tree of one shard.  A place is a directory: 0 is
`mergable/<shard>`, 1, 2, ... the isolated directories in the order of their
timestamps.  A file's bytes are `"none"`, `"partial"` (created, not yet filled)
or `"whole"`, because `write` creates, writes and syncs in steps that others can
see.  The operations are those of `storage.Chest`.  `Happens(k)` is the
environment: event `k` (an I/O error, a lost answer, a crash) strikes now.
`Adverse` says which events may, `MaxAdverse` how many of them.

**`Merging`** is a cutoff: `WithEachMerged` cut at its calls to storage, to the
upload agent and to the emitter.  The variables `cutDir`, `canceledFiles`,
`files`, `merged`, `el` are the Go locals of those names.  A merged file is the
set of its inputs.  Of what an input contains only its entries' keys (`KeysOf`:
batch header and entry, `makeKey`) matter: `buildDirMapping` reads the directory in
the order of the names (`Rank`) and maps each key to its file, a later file
replacing an earlier one, and `InputsOf` looks the keys of the uploaded files up in
that mapping.  Files may share keys, and IAT and ADV entries have none.
`unsent` remembers events that could not be sent, `succeeded` the directories
whose cutoff returned no error.

| Action | Code |
|---|---|
| `IsolateMergableDir(d)` | `isolateMergableDir`, `ReplaceDir` |
| `GetCanceledFiles` | `getCanceledFiles` |
| `MergeDir` | `fileAcceptor`, `ach.MergeDir` |
| `PrepareUploadedDir`, `RmdirAllFails` | removing an empty cutoff, `upload.New` |
| `SaveMergedFile(m)`, `BeginUploads` | the first loop, `saveMergedFile` |
| `UploadFile(m)` | the second loop, `runTransformers`, `uploadFile` |
| `FindInputFilepaths`, `BuildDirMappingFails` | the end of `WithEachMerged` |
| `EmitFileUploaded(f)`, `EndCutoff` | `emitFilesUploaded` |

**`FilePipeline`** adds the workers (goroutines in `processMessage`), the files
table and crashes.  `pc[w]` names the next call worker `w` makes; `db` is the
table, `fd[w]` the directory an open file now lies in, which a cutoff changes by
renaming it.  `msg.Ack` does not wait: it puts the message into `acking`, and
`AckArrives` commits it (`acked`) some time later; until then it may be handed out
again, and a crash forgets it.  With `AutoCommit` the `Ack` is the first thing
`processMessage` does, in the step that receives the message, otherwise the last.
`Receive` to `RespondCancel` follow `processMessage`, `processACHFile`,
`HandleXfer`, `cancelACHFile` and `HandleCancel` call by call, every error return
included.  `Crash` ends all goroutines; disk, database and uncommitted messages stay.

**`FileLedger`** is the abstract specification: per file, accepted before sent,
sent at most once, withdrawn only while never sent, announced only after being
sent.  `FilePipeline!LedgerSpec` is the refinement, with the files table as the
ledger's rows.

**`CleanupService`** extends `FilePipeline` by the goroutine of `cleanup.go`.
It shares only the disk with the pipeline.  `CheckDirectory` and
`DeleteDirectory` are the two halves of one turn of `runCleanup`'s loop, between
which anything may happen; an error of either is counted and the loop goes on.
Ages are abstracted to `old`, which a directory in use by a cutoff or a worker
is not (`GetsOld`).

**`ODFIScheduler`** is a specification of its own.  The server belongs to the
ODFI, which publishes, replaces (`republish`) and withdraws files at any time; a
document is one content under a name.  `pc` is where the scheduler's only
goroutine is:

| `pc` | Code |
|---|---|
| `idle` | the `select` of `Start`: `ClockTick`, `TakeTrigger`, `Stop` |
| `shard` | `tickAll`: `StartTick`, `UnknownShard`, `FinishPass` |
| `list`, `save` | `CopyFilesFromRemote`, `saveFilepaths`, for each of the three directories |
| `process` | `ProcessFiles`: `Open` reads, parses and audits one file, `Handle` is one processor, in any order |
| `cleanup`, `empty` | `Cleanup`, `CleanupEmptyFiles`; `FinishTick` clears the local directory |

`TickFails` is the way out of `tick` with an error, from wherever it comes.  What
a processor makes of a file is `EventsOf`; the kinds of record in a file
(`Content`) and whether it parses are constants.  With `Retry` the agent is a
`RetryAgent`, which reports only the errors it retries (`Reported`).

**`ReceiverLoop`** and **`FilesController`** are how messages come in.  Each
iteration of `Start` calls `handleMessage` for both subscriptions; the first
result ends the iteration, whatever the goroutines of the other one are doing.
`inner[s]` is the goroutine inside `Receive`, `mine[s]` the message this
iteration works on, `stale` the goroutines that outlived theirs, `task[m]` what
the goroutine holding `m` does next.  `Drop` is the message that nobody takes
from the inner goroutine, `Reconnect` and `Shutdown` orphan what is in hand
(its `Ack` is lost), `Respond` waits while the response channel is full.  What
`Start` gets from an iteration is an error or none, and it reconnects after any
error whose text looks like one of the network, an error of processing among them
(`Done`, `Select`).
`FilesController` adds the handlers of POST and DELETE (`Register`, `Publish`,
`Answer`, `Timeout`) and the two listeners.  `active` is `activeQueueFiles` and
`activeCancelFiles`, with the IDs trimmed just where the code trims them.

**`Aggregator`** and **`Lifecycle`** are the process.  `Aggregator` is one
goroutine per shard between its channels: `maybeTick` is a cron job of a window
that blocks on `cutoffs.C`, `TakeDay` and `TakeTrigger` are the cases of the
`select`, `CloseCutoffs`, `StopScheduler` and `Shutdown` its way out, and
`CleanupEnds` the end of the cleanup service's goroutine.  A send on a closed
channel and a second `close` set `panicked` and end the process, and so does a
cutoff whose directory mapping could not be built (`CutoffPanics`): `AutoEnds` and
`ManualEnds` are success, error or panic.  `Lifecycle`
adds `main` (`Connect`, `NewEnvironment`, `RunServers`, and the deferred calls
`StopServers`, `EnvShutdown` in their order) and the handler of
`/trigger-cutoff`, name by name.

**`UploadFile`** is one call of `uploadFile`: the audit copy, the upload inside
the retry wrapper, the senders of `MultiSender` inside theirs, the alerters.  The
contents are a buffer that an attempt consumes chunk by chunk, and that a retry
hands on as it is.  `Merging!UploadFile` has the outcomes of such a call for an
agent without `Upload.Retry`; `SuccessMeansWhole` says what the wrapper changes.

**`MessageRouting`** is what lies between a request and a shard.  `wire[m]` is the
layers (`Protect`) around the JSON of an event; `Reveal` takes them off with the
receiver's own configuration.  `mappings` is the table or the slice of shard
mappings, `Create` and `Add` the two halves of a request to create one,
`getAggregator` the choice of a shard, `saw[m]` what the last lookup for `m` met: a
row, none, or an error.  `Refuse` emits `InvalidQueueFile` for a file and forgets a
cancellation; the file's message comes again, or, with AutoCommit, may be gone
(`AfterError`).  Files and cancellations are published in any order.

The modules **`MC...`** have the instances.  **`FilePipelineProofs`**,
**`OnceProofs`**, **`KeptProofs`** (which is also about `CleanupService`),
**`ODFIProofs`**, **`SubmissionProofs`**, **`LifecycleProofs`**, **`UploadProofs`** and
**`RoutingProofs`** have the proofs.
Definitions marked "Mutant" are plausible faults of the definition below them;
they are used to see that each property notices its fault, and nowhere else.

## The runs

The pipeline's runs have two workers; `MaxCutoffs = 2` lets a file come before,
between and after cutoffs, and lets the second cutoff meet what the first left.
Where there are two files, `b` is listed last and has the one entry of `a` too, so
that `a`'s name is replaced in the mapping.

| Run | Shows |
|---|---|
| `pipeline_faults` | two files and a message without one, `AutoCommit`, MySQL, any two failures or crashes (all events but `sync` and `sameSecond`), redelivery and renames under a writer: `UploadedOnce`, `AnnouncedWasUploaded`, `SucceededIsComplete`, `LossIsReported`, the ledger; 3.3 million states |
| `pipeline_durable` | Spanner as the files table, every other kind of message, any two of the failures in `Survivable`, two cutoffs in a second among them: nothing acknowledged is lost (`AcceptedFileKept`), files canceled in an isolated directory stay behind (`CanceledStaysBehind`); 1.6 million states |
| `pipeline_liveness` | one file, its cancellation, and a crash or a failed write or event: messages are committed, pending files are taken, cutoffs end, and the ledger holds with cancellations; 138 thousand states |
| `cleanup` | one worker, two files, the cleanup service, any two failures of `MCCleanupService!Survivable`: still nothing committed is lost, and every directory with something in `uploaded/` is removed in the end |
| `odfi_faults` | a return and an empty file, all processors, an unknown shard, three failures of any kind, names used twice among them: nothing is deleted before it was audited and announced (`DeletedWasAnnounced`), nothing announced unaudited (`EmittedWasAudited`) |
| `odfi_liveness` | a file beside an unparsable one, a file in another shard, two trigger requests, one failure: files that parse are announced, the other shard's file leaves the server, both requests are answered |
| `submission` | a file posted twice, streamed under its name with `.ach` and canceled, any two of these messages and any two failures, channels of one place: nothing is committed unhandled, the listener never blocks, answers are true, every message is committed and the stream is read again and again, as long as no reconnect fails; 153 thousand states |
| `lifecycle` | with and without a database, a shard with two windows on a banking day and a holiday, a client that names the shard twice and one that names an unknown shard too, one failure, a signal at any time: no client is left at shutdown, a 200 means cut off, each trigger has one cutoff and one answer, requests are answered unless a cutoff panics, windows served, and the process ends; 182 thousand states |
| `upload_retry` | a file of three chunks, two retries, three senders with two retries, two alerters, with and without either wrapper, any failures: when a reported success is one, when an error is reported, that each sender is tried, or none when they cannot all be set up, and that the call returns; 11 thousand states |
| `routing` | a file and its cancellation in either order, three requests to map their key (to two shards and to no name), every kind of repository and of configured shards, with and without AutoCommit, each pair of transforms, any two failures: messages are read just when the transforms fit, a cancellation follows its file, what was created is found, files are queued or announced; 466 thousand states |

`AutoCommit` in `pipeline_faults` is the harder setting, and with `redeliver` it has
all behaviours of the other one that matter there: a message acknowledged on
receipt may be handed out again as long as `AckArrives` has not happened, as an
unacknowledged one may, and in addition it may be committed before it is handled.
`pipeline_durable` and `pipeline_liveness` have it off, since with it a file whose
write fails is not redelivered.

Two files, three failures and two versions of a name are enough for a failure to
hit one file and spare the other, for the recovery pass to fail as well, and
for a file to be replaced between any two steps of a tick.  In `submission` two
messages at a time (`MaxSent`) are enough for one waiter to replace another and
for a full channel (`Capacity`, 1000 in the code) to block a goroutine, and a
second failure to hit the recovery from the first.  In `lifecycle` two windows
let one job block behind the cutoff of the other past midnight, and two attempts
to connect (`MaxConnects`, 23 in the code) are the first and the last.  In
`upload_retry` three chunks tell nothing, a part and all of a file apart.  One
file is enough in `routing`: files meet only in the mappings.

Some runs do not check for deadlock: an ODFI scheduler or a receiver that was
shut down stops, a process ends, a call returns, and clients stop sending.

`MCFilePipeline!Survivable` is as much a result as the run that uses it.  Each of
these events alone breaks `AcceptedFileKept`, and is left out of it: `crash` and
`recordLost` (the row stays, the file was never written, the redelivered message
counts as handled), `cleanup` (the same by a failed undo), `redeliver` (the loser
commits the message and the winner then fails), `midWrite`, `write`, `merge` and,
for files that only parse with their `ValidateOpts`, `opts` (the merge fails as a
whole and the directory is deleted).  With the cleanup service `upload` joins
them: `uploaded/` is written before the upload, so a directory whose upload failed
is removed all the same.

Two runs are expected to find a violation.  `doc_restart_keeps_files` states
what merging.md says, that files on disk survive restarts, and shows a crash
between `Record` and the write after which the message is committed and the file
is nowhere.  `doc_key_names_shard` states what a comment in `getAggregator` says
(`file_receiver.go:414-416`), that a shard's name used as a shard key stands for that
shard.  With Spanner it does not: `ReadRow` reports the missing row as an error
(`shards/repository.go:188`) that is not `sql.ErrNoRows`, `getAggregator` returns nil,
and the file is refused whenever it comes.

### Other differences from the documents

Met while modelling; the models follow the code.

* `internal/pipeline/merging.go:304`: a merge that failed looks like "nothing to
  merge" (`:305`), and the directory is removed with the files nobody canceled.
  `LossIsReported` says that the cutoff then has an error; that it keeps the files
  would be false.
* `merging.go:505`: when two files have the same batch header and entry, only the
  later one is found for it; a file all of whose keys were replaced, or one with IAT
  or ADV entries only, is uploaded and gets no `FileUploaded` event
  (`docs/concepts/submission.md:69`).  `SucceededIsComplete` is about entries for that
  reason.
* `merging.go:370`: after a failed `buildDirMapping` a cutoff with uploaded files
  panics: the process ends, the client of a manual cutoff is not answered, and no
  event is sent.
* `file_receiver.go:283`: with AutoCommit a file that is refused, or whose write
  fails, is gone, and so is an `InvalidQueueFile` event that could not be sent.
* `merging.go:161`: a cutoff between looking for the file and replacing it makes
  a cancellation `Successful` (`pkg/models/events.go:298`) whose file is uploaded,
  and a cutoff that takes a marker away leaves a file that comes after its
  cancellation (`docs/concepts/submission.md:92`) to be uploaded.
* `cleanup.go:297`: directories are removed for having something in `uploaded/`,
  which is written before the upload (`docs/ops/cleanup.md:19`).
* `internal/pipeline/merging.go:333-345` uploads files that could not be saved in
  `uploaded/`; `docs/ops/merging.md:15` has the save first.
* `aggregate.go:240`: one failed upload suppresses the `FileUploaded` events of
  all files of the cutoff (`docs/concepts/submission.md:69`).
* `merging.go:189`: two cutoffs in one second share a directory, and the files of
  the first are uploaded again.
* `incoming/odfi/cleanup.go:87` deletes by name, so also a file that replaced the
  downloaded one; `scheduler.go:175`: one unparsable file keeps all files of its
  shard on the server (`service/model_inbound.go:208`).
* `audittrail/storage_blob.go:87` keeps only the first file of a name per day
  (`docs/concepts/audit-trail.md:32`).
* `corrections.go:66`, `returns.go:66`: `len(...) >= 0` is always true, so each
  file is a correction file and a return file (`docs/concepts/odfi-files.md:21`),
  and the exclusions of `incoming.go:63` exclude everything (`docs/config.md:115`).
* `prenotes.go:105`: batches are never appended, so there is no `PrenoteFile`
  event (`docs/concepts/odfi-files.md:15`).
* `scheduler.go:146`: `tickAll` returns nil whatever a shard's tick returned
  (`docs/ops/cutoffs.md:51`).
* `upload/retry.go:50`: an error that is not retried becomes a success, and so
  does a retry that sends the rest of a buffer an earlier attempt had begun to
  read.  `SuccessMeansWhole` says that these are the only ways.
* `cleanup.go:126` is called by the service's own goroutine and by the aggregator
  when the context ends: the second `close` panics.  `schedule/cutoff.go:61`
  closes the channel that a job may be blocked on, which panics too.  Both come
  after the servers have stopped, and only with a database: without one nothing
  cancels the context, and the process just ends.
* `server.go:98`: an admin server that cannot bind blocks `RunServers` for good.
* `schedule/cutoff.go:75`: no window fires on a weekend, so "all-days" means
  holidays (`docs/config.md:189`).
* `Sharding.Mappings` (`docs/config.md:240`) is read and never used.
* `file_receiver.go:114`: when reconnecting fails the stream stays shut until the
  process is restarted.  `file_receiver.go:261`: an error of processing whose text has
  "EOF" or "write:" in it makes `Start` shut a healthy stream and open another.
* `file_receiver.go:511`: a cancellation whose shard could not be looked up is
  committed and forgotten.
* A message published over HTTP lives in memory and is lost by a restart after
  the client timed out or was told nothing.
* `shards/repository.go:118`: `errors.Wrap` of a nil error is nil, so an insert
  that affects no row would be reported as done.
* `api_files.go:236` registers a POST under the ID as it came, `:102` looks the
  response up without `.ach`: a POST of `f.ach` always times out.  Such names are
  also two rows of the files table and one path on disk (`merging.go:106`).

### Fairness

`FairSpec` assumes that a goroutine that can run runs (weak fairness per worker
and for the cutoff: the Go scheduler), that cutoffs keep coming (weak fairness
of `StartCutoff`: cron), and that an uncommitted message is handed out again and
again to some worker (strong fairness of `Receive`) until its `Ack` arrives (weak
fairness of `AckArrives`).  The last two are the contract of the subscription the
code relies on: "Uncommitted messages will be
redelivered and reprocessed" (`file_receiver.go:280`).  Redelivery while the
first delivery is still handled is never assumed, only allowed (`redeliver`).
Failures are bounded by `MaxAdverse` and have no fairness.

For the cleanup service: the cutoff and the workers go on, every directory gets
old, and the ticker brings `runCleanup` back to a directory that is there (strong
fairness of `CheckDirectory`, since it is busy with another one in between).  For
the ODFI scheduler: its goroutine goes on and the clock ticks (weak fairness),
and a ready case of a `select`, or a sender on a channel that keeps getting
room, is not passed over for ever (strong fairness of `TakeTrigger` and
`Enqueue`; Go picks among ready cases at random and serves senders in order).

`FilesController!FairSpec`: each goroutine goes on, and `Receive` returns when
there is something to return, a dropped or uncommitted message included (the
subscription's contract again; with Kafka that can take until a rebalance).
`Lifecycle!FairSpec`: `main`, the handlers and the aggregators go on, and a
`select` does not pass over a ready case for ever.  Nothing makes cron jobs,
clients, signals or midnight come.  `UploadFile!FairSpec`: the call goes on, as
each call it makes has a timeout.  `MessageRouting!FairSpec`: the receiver goes on
with what was not acknowledged; nothing is assumed of a message that AutoCommit
dropped.

## The proofs

All theorems hold for every value of the constants and every bound, and for every
`Adverse` unless an assumption is named.  Assumptions on the constants are the
named `ASSUME`s (types, and `NoMessage`, `Nothing` and `None` are none of what they
stand beside).  The other named assumptions are hypotheses of their theorems; each
has instances among the runs, and each excludes only events with which the
property really fails.

* `TypeCorrect`, `TypeOKHolds`: types, strengthened by `Bookkeeping`: a busy
  worker has a message (so `File(w)` is a file), and the locals of a cutoff are
  set in the order of the code.
* `CutoffInvariant`, and from it `CanceledStaysBehindAlways` and
  `AnnouncedWasUploadedAlways`, without further assumption.  Neither is
  inductive alone: the first needs that `canceledFiles` covers the markers of
  the isolated directory and that no worker can add one there (cancellations go
  to place 0), the second that `merged` and `inputs` hold only uploaded files.
* `OnceInvariant` and `UploadedOnceAlways`, under `OnceAssumption`: a database,
  no `Sync` that fails after the bytes are written, no two cutoffs in a second.
  Without a database there is no unique key; the other two are real exceptions
  (a failing `Sync` makes the code delete the row of a file that is on disk).
  The inductive invariant says that the row is a lock (`RowIsLock`: one owner
  per file, nothing of the file written or sent while it is owned or has no
  row), that there is one whole copy (`OneCopy`: directories of later
  cutoffs are empty), and that what is still to be sent was not sent
  (`UnsentIsUnsent`: merged files are disjoint, their inputs unsent).
* `ImplementsLedger`, under the same assumption: each step of the pipeline is a
  step of `FileLedger` or a stutter.  It uses both invariants: `Cleanup`
  withdraws only what `RowIsLock` says is unsent, a cutoff sends only files with
  a row, and announces only what was sent once.
* `LossIsReportedAlways`, an action property, without further assumption: with no
  error every accepted file was merged (`NothingLeftOut`), so a directory that is
  removed for want of merged files has none but canceled ones or the error list has
  one; and no file enters a directory that is not there (`AbsentAlways`).
* `SucceededIsCompleteAlways`, without further assumption on what fails and for every
  `KeysOf` and `Rank`: what a running cutoff without an error has merged is uploaded
  or still to be (`NothingLeftOut`), each key of an uploaded file is in a file that
  `emitFilesUploaded` has left or has tried to announce, because of the accepted files
  with a key one is listed last, and a directory whose cutoff has succeeded gets no
  more files (`CompleteInv`).
* `ReadableInvariant`, under `ReadableAssumption`: no process dies and no cutoff
  starts in the middle of a write, no write fails and neither does `ach.MergeDir`.
  Any of these leaves a file that makes the whole merge fail, whereupon the
  directory is removed.  The invariant says that what lies in a place is whole with
  its `ValidateOpts` beside it, or is being written in the pending directory by a
  worker (`ReadableOrWriting`), hence that what was merged is what was accepted
  (`AllMerged`).
* `KeptInvariant` and `AcceptedFileKeptAlways`, under `KeptAssumption`: besides, the
  message is not committed on receipt, `Record` does not fail with the row
  inserted, and, where the file cannot always be created, the row is then deleted
  before anybody took it for a sign that the file was handled (no failing
  `Cleanup`, no second delivery, one message per file).  The row of a wanted file
  stands for a file that was uploaded, is whole on disk or is in the hands of its
  worker (`RowsKept`), and so does a worker that is done (`HandledKept`).
  `SoleHandler` is what makes `Cleanup` safe, `WantedIsNotCanceled` what makes the
  removal of an empty cutoff safe.
* `KeptDespiteCleanup`: the same for the pipeline beside the cleanup service, under
  `CleanupAssumption`, which adds that no upload fails and no two cutoffs share a
  second.  What `runCleanup` is about to remove belongs to a past cutoff, though it
  looked at it some steps ago (`OldIsPast`); a cutoff has merged all it accepted
  before it saves anything (`MergedIsUploaded`); so one file in `uploaded/` of a past
  cutoff means that every wanted file there was uploaded (`SavedMeansUploaded`).
* `ODFITypeCorrect`: types of the ODFI scheduler with the locals of a tick.
* `ODFIInvariant`, and from it `DeletedWasAnnouncedAlways` and
  `EmittedWasAuditedAlways`.  The properties exempt names the ODFI used again
  (`Reused`), for which deletion by name and the audit trail's one file per name
  and day are real exceptions.  For the others a name stands for one document
  (`OneDocument`), so that what is deleted is what was downloaded.  The inductive
  invariant `Safe` adds `ProcessedSoFar`: while no step has failed, each document
  no longer to be processed is audited and its events are sent but for the
  processors still to come.
* `SubmissionInvariant`, and from it `CommittedIsHandledAlways`,
  `ListenerNeverBlocksAlways` and `AnswerIsTrueAlways`, for any number of messages,
  requests and iterations and any capacity.  The inductive invariant follows a
  response on its way: a task that responds or commits has processed its message
  (`TasksProcessed`), so has what lies in a channel (`ResponsesProcessed`), a
  waiter is registered under its own key only and unanswered (`Registered`), and
  what it was told is about its file (`Replied`).
* `LifecycleInvariant`, and from it `NoClientAtShutdownAlways`,
  `OkMeansCutOffAlways` and `OneCutoffPerTriggerAlways`, for any shards, windows,
  days and requests.  The argument for the first: channels are closed and panics
  happen only after the context has ended (`EndsAfterContext`), and `main` ends
  it only when every handler has returned (`HandlersFirst`).  The second needs
  that the names a handler is done with are in its response (`NamesDone`).  The
  third is part of the invariant, with `JobsAtWork`: an aggregator has a job just
  while it runs a manual cutoff.
* `UploadInvariant`, and from it `SuccessMeansWholeAlways`,
  `ErrorMeansExhaustedAlways` and `EverySenderTriedAlways`, for any size of file,
  retries, senders and alerters.  `Accounted` says that the server and the buffer
  have the file between them until an attempt fails midway.  A sender that failed
  and one that was never tried are told apart: no sender is tried just when they
  could not all be set up (`noSender`).
* `RevealIffCompatible`, about the operators alone: `Reveal` of what `Protect` made is
  the event just when the two transforms are `Compatible`, whatever the keys.
* `RoutingInvariant`, and from it `TypeCorrect`, `ReadIffCompatibleAlways`,
  `CancelFollowsFileAlways` and `CreatedIsFoundAlways`, for any files, requests,
  configurations and failures; and `DatabaseAnswerStaysAlways`, an action property:
  no step changes the answer a database has for a key.  The inductive invariant
  says that a message on its way has the layers `Protect` gave it (`WireInv`), that a
  shard found with a database is the answer there was without a row or the one
  there still is, as `saw` tells (`TargetInv`, by the uniqueness of keys in `TypeOK`),
  that a committed message went there (`RoutedInv`), and that a
  created row is in the table, or, in memory, alone in the slice if its request
  was alone (`CreateInv`).

The type invariants of `ODFIScheduler`, `FilesController`, `Lifecycle` and
`UploadFile` are proved (`...TypeCorrect`) and not listed in the runs.

Only model-checked: the liveness properties, which are beyond the prover.  Every
safety property of a passing run is stated by a theorem.

## What is left out

* What `ach.MergeDir` puts together (`Groupings`: any partition) and when a
  reader accepts a file (whole, with its `ValidateOpts` if it needs them) are
  assumptions about `github.com/moov-io/ach`; so is that it returns no file when
  it returns an error.
* Which entries have equal keys is a constant; that merging leaves the keys of
  entries as they were (all but the batch number, `makeKey`) is assumed.
* Crashes are crashes of the process, not of the machine: what was written
  stays.
* Metrics, traces and logs; `InvalidQueueFile` events, alerts and notifications
  where the modules named above do not have them.
* Composition of the submission, lifecycle and routing models with the pipeline:
  in `ReceiverLoop` processing is the files table's verdict, in `Aggregator` a
  cutoff succeeds, fails or panics, in `MessageRouting` a shard takes a file.  A message is
  with one goroutine at a time in `ReceiverLoop`; `FilePipeline` has two at once.
* A listener's receive and its delivery are one step; nothing comes between them
  but a registration under the same ID, which could as well have come before.
* The two words of a slice header that `InMemoryRepository` writes without a lock
  are seen together.  Ciphertext that happens to be valid base64 or to begin like
  gzip is left out.
* The manual `FileUploaded` API sends what an operator states; it reads and
  writes nothing else.
* The names of two shards on one ODFI host are taken to differ; a reconciliation
  file has one entry; a directory that cannot be read locally is its files that
  cannot be read.
* The pipeline's upload agent is one without `Upload.Retry`: with it
  `AnnouncedWasUploaded` fails just where `UploadFile!SuccessMeansWhole` says.
* The ages of directories: `time.Parse` reads as UTC the local time that
  `isolateMergableDir` wrote, so west of UTC a directory looks older than it is.
* A cutoff whose rename fails for another reason than an existing target, which
  is a cutoff that did not happen.

## Plan

Done: the core from message to upload, the cleanup service, the ODFI's files, the
receiver's loop with the HTTP waiters, the process from start to end, uploads with
their retries, and the routing of messages.  Left:

1. The ages of directories in `CleanupService`, with the time zone in which a name
   is written and read.
2. `UploadedOnce` and the ledger for the pipeline beside the cleanup service.
