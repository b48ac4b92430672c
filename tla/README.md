# A TLA+ model of b2-action

b2-action is a GitHub Action that runs one verb (upload, download, sync, delete,
purge, ...) against a Backblaze B2 bucket.  The action is a thin TypeScript
program over the B2 SDK: `src/main.ts` reads the inputs, builds a client, calls
one command of `src/commands/`, and writes outputs.  It is one process with one
thread.  What is hard about it lies between two `await`s: other clients write to
the bucket, other steps write to the workspace, B2 refuses requests or its
answers are lost, the runner cancels the job, and the worker pool of `upload`
interleaves with itself.

The modules model every verb, the dispatcher around them and the installer of
the link checker, TLC checks them on small instances, and TLAPS proves every safety
property that the passing runs check, for every value of the constants.  Paths below are relative to the repository.

## 1. Inventory

| Component | State | Operations | Interacts with | What makes it correct |
|---|---|---|---|---|
| Dispatcher, `src/main.ts` | abort controller, action outputs | `run`, `emitDeletionSummary`, signal handlers | calls every command; gives the abort signal to upload, download, sync, copy, prefix delete and purge | outputs only for what happened; a failure is always reported; retry advice is safe |
| Upload, `src/commands/upload.ts` | list of files, plans, a pool of workers | `resolveFiles`, `prepareUploadPlan`, `mapWithConcurrency`, `uploadOne` | SDK `bucket.upload`, local files, signal | concurrency budget, no lost failure, one file per key, nothing left running |
| Bulk deletion, `src/commands/delete-all.ts`, `purge.ts`, `delete.ts` | cursor of a paged listing, events | `deleteAllVersions` and its consumers | SDK listing and deletion, signal, other clients | deletes only what was asked, all of it, and reports the truth |
| Download, `src/commands/download.ts` | plan, owners of local paths, temporary file | `downloadPrefix`, `downloadOne`, `replaceDownloadedFile` | SDK listing and download, file system, signal | no file overwrites another, no local file is lost, success is complete |
| Single-version verbs, `hide`, `unhide`, `copy`, `head`, `retention`, `verify`, `deleteOne`; `findFileByName` in `src/client.ts` | none between calls | a lookup by name, then a request by version | B2, other clients | acts on the version it looked up, reports each step it took |
| `list`, `presign` | cursor, collected files | paged read up to `max-results` | B2 listing, hide markers | right number of files, right `truncated` |
| `sync` | event counters | `syncCommand`, `processSyncEvent` | the SDK's `synchronize`, local directory, signal | counters account for what was done; a success has failed on no file |
| Errors, `src/errors.ts` | none | `classifyActionError`, `retryPolicy` | dispatcher | never advises to retry a mutation |
| Outputs and summary, `src/outputs.ts`, `summary.ts`; progress, `progress.ts` | byte count, time of last line | bounded JSON prefix, row cap, throttle | dispatcher | the caps hold, the first and last event appear |
| Inputs, `src/inputs.ts`, `sse.ts` | none | `parseInputs`, `validateFileInfo`, `buildUploadFileInfo` | dispatcher, upload | what is sent later is within the limits that were checked before |
| Link checker, `scripts/run-lychee-lib.mjs` | lock directory, cached binary | install, download with retries | other processes | one installer, only verified binaries, no waiting for ever |
| Lockfile audit and heartbeat, `scripts/full-lockfile-audit*.mjs`, workflows | tracking issues | retry, classify, open and close an issue | npm registry, GitHub | infrastructure trouble is not taken for a finding |
| Release, `.github/workflows/release.yml` | tags, draft release, assets, attestation | validate, attest, stage, move tag, publish | GitHub | a rerun completes what was begun; `vN` never goes back |

Behaviours that are hard to test: interleaving of upload workers; a signal at any
await; failures and lost answers of B2; a bucket that changes between two pages
of a listing; local files that change between `stat` and read; file systems that
ignore case; death of the process between two file operations; reruns.  The
hazards are listed one by one, at their lines, in `PROJECT.json`.

## 2. Modules

| Module | What it is |
|---|---|
| `ConcurrentMap` | abstract: what `mapWithConcurrency` promises its caller |
| `Upload` | the upload verb in detail; `Map == INSTANCE ConcurrentMap WITH ...` is its refinement |
| `UploadProofs` | theorems about `Upload`, the refinement of `ConcurrentMap` among them |
| `BulkDelete` | prefix delete and purge |
| `BulkDeleteProofs` | theorems about `BulkDelete` |
| `Download` | download of a prefix |
| `DownloadProofs` | theorems about `Download` |
| `FileVersions` | the verbs on one name: delete, copy, retention, hide, unhide, head, verify |
| `FileVersionsProofs` | theorems about `FileVersions` |
| `Listing` | `list`, and `presign` of a prefix |
| `ListingProofs` | theorems about `Listing` |
| `Sync` | the sync verb around the SDK's `synchronize()` |
| `SyncProofs` | theorems about `Sync` |
| `Inputs` | what `parseInputs` accepts and what an upload sends, as operators |
| `Dispatcher` | `run()` of `main.ts` with the classification of errors; extends `Inputs` |
| `DispatcherProofs` | theorems about `Dispatcher` and `Outputs`, which it both extends |
| `Outputs` | the bounded manifest of `summary-json` |
| `LycheeInstall` | several processes that install the link checker |
| `LycheeInstallProofs` | theorems about `LycheeInstall` |
| `MC...` | the instances that TLC checks, one for each of the above |

JavaScript runs one callback to its next `await` at a time, so an action is the
code between two awaits.  A request to B2 is one action for its effect and
another for what the caller does with the answer; what others do goes in between.

### Upload

`phase` is where `uploadCommand` is: it resolves the source, plans, uploads and
settles.  `next`, `failed`, `firstError` and `results` are the variables of
`mapWithConcurrency` (lines 114-117); `slot[w]` is the position whose mapper
worker `w` awaits; `task[i]` is how far that mapper has come.  `requests` are the
requests of the SDK in flight, each with its permit, and `stored` the versions
that came to be.

- `Resolve` is `resolveFiles` (186-247): any number of matches, any assignment of
  keys, and the single explicit file.
- `PlanRejects`, `StartWorkers` are lines 83-103.  The planning call of
  `mapWithConcurrency` awaits nothing that lets a signal in, so it is one
  action with the start of the workers; all workers are called before any resumes.
- `StartRequest`, `EndRequest`, `Commit`, `FailUpload` are the SDK and B2 as
  `uploadOne` uses them.  `Commit` needs the file to have the length `resolveFiles`
  saw; `FailUpload` after `Commit` is a lost answer.
- `MapperReturns`, `MapperRejects` resume a worker: the result or the first error is
  recorded and, in the same action, the loop's head decides about the next position.
- `Settle` is `Promise.all` and lines 137-139.
- `Abort` is the signal handler of `main.ts`; `ChangeFile` is another step of the job.

### BulkDelete

A file name is its rank and a version is a name with a sequence number, so
`Precedes` is the order of `b2_list_file_versions`.  `cursor` and `page` are the SDK's
paginator, `current` and `answer` the deletion request that is awaited, `events`
what the generator has yielded, `bucket` and `removed` B2's side.  `loose` lets
the listing answer with names outside the prefix, which the code checks for.

- `Start` is the entry of `purgeCommand`, with the guard on `allow-bucket-purge`,
  and of `deletePrefix`.  `Prefix` is `normalizePrefix`.
- `FetchPage`, `ListingFails`, `StopAtSignal`, `Take` are lines 38-60 of
  `delete-all.ts`; the checks of the signal are the guard `InLoop`.
- `DeleteTakesEffect`, `DeleteRefused` are B2: locked versions, versions already
  gone, and the lost answer.
- `YieldAnswer` is lines 69-86, `RethrowAbortError` the rethrow at line 77, `Report` the verdict
  of `emitDeletionSummary`.
- `OtherUploads`, `OtherDeletes` are other clients, between any two steps.

### Download

Names under the prefix are numbered in listing order.  `PathOf` is the local path
of each, or `Unmappable` when `validateRemotePathSegment` refuses it.  `owner` and
`descendant` are the two maps of `recordPlannedLocalPath`.  `disk` says what is at
each local path, `temp` what is in the temporary file.  `insensitive` is the
truth about the file system, `folding` what the probe made of it.

- `Prepare` makes and probes the destination (107-111, 401-430).
- `ListPage`, `Plan`, `PlanFails`, `PlanComplete` are the loop at 118-152.
- `StartFile`, `OpenBody`, `BodyComplete` and the failures are `downloadOne`;
  `Cleanup` is its handler at 240-250.
- `RenameOver`, `Unlink`, `RenameAgain`, `ReplaceFails` are `replaceDownloadedFile`.
- `Kill` ends the process anywhere; `OtherUploads`, `OtherHides` change the bucket.

### FileVersions

`store` is every version ever made, its index the fileId; `live` says which exist.
`request` is the inputs, each given only to the verb that reads it, and `pc` names
the request that is sent next.  `hit` is the version that a lookup returned.  The
action reduces to lookups and requests:

- `Start` is what a command refuses before it asks B2 (`retention.ts` and `copy.ts`).
- `FindFileByName`, `FileNotFound` are `findFileByName`; `Listed` lets B2 answer with
  or without hidden names, since the code looks at `action` itself.
- `DeleteVersion` (`deleteOne`), `CopyFile`, `UpdateRetention` followed by
  `UpdateLegalHold`, `HideFile`, `FindMarker` with `RemoveMarker`, `Head_`, `Compare`
  are the requests.  Each ends in `Answer`: the answer arrives, or it is lost and the
  SDK repeats the request, which then takes effect again or fails.
- `OtherUploads`, `OtherHides`, `OtherDeletes` come between any two steps.

`shown` remembers which versions `source` has named since the start; it ties a
request to the lookup it rests on.

### Listing

`cursor` is `startFileName`, `files` and `truncated` the result.  `IsPage` says what B2
may answer: a beginning of what follows the cursor, hidden names included or not,
and a next name that may have nothing behind it.  `ListPage` and `PresignPage` are one
turn of the two loops, `LookForMore` is `hasVisibleUploadAfter`.  `always` and `ever`
remember what was visible throughout and at some moment.

### Sync

`ResolveDirection` and `BuildConfig` look at the local directory one after the other;
`DirectoryChanges` comes between.  The SDK's generator is `Schedule`, `ActionSucceeds`,
`ActionFails`, `ScanFails`, `Aggregate` and `GeneratorEnds`: it runs up to `concurrency` actions,
queues their events and, after errors, yields one more.  These are external.  An action that
fails may have changed its file: B2 did what was asked, and the answer was lost or the
signal cut it off.  `done` has what changed, the counters what the command was told.
`ReceiveEvent` is `processSyncEvent` and `Report` the verdict of `main.ts`.

### Inputs and Dispatcher

`Inputs` has no state.  An entry of fileInfo is a key with the length of its value, so
that limits on number and bytes can be met exactly; `Parses` is the conjunction of the
checks of `parseInputs` and `UploadFileInfo` what is sent.

`Dispatcher` runs through `run()`: `ParseInputs`, `Connect`, `PrepareCommand`, the
command, `Publish`, `Catch` and `Finally`.  A command is what it may have changed by the
time it returns or throws (`MayChange`), since this is what the advice on retrying is
about; the modules above have the rest.  `NextOutput` is the order in which each verb
sets its outputs.  An error is its class, the depth at which a `B2SsrfError` stands
among its causes, and its `retryAfter`.  `Signal` is the pair of `once` handlers.

### Outputs

`EmitItem` is a turn of the loop in `serializeJsonArrayPrefix`, which runs first over
the whole manifest and, if that fails, over the preview; an item is its length or
`Throws`.

### LycheeInstall

Each process has its own `pc`; `lock` is the directory, `binary` the file at the path of
the executable.  One tick is longer than the 100 ms between two looks at the lock.
`TakeLock`, `GiveUp` and `CannotLock` are `withInstallLock`; `Recheck` to `Cleanup` what is done
under it; `Confirm` the last look.  `Die` kills a process anywhere and leaves its lock
behind; `RemoveStaleLock` is what the error message asks the developer to do.

## 3. Runs

| Run | States | Question |
|---|---|---|
| `upload` (`MCUpload.cfg`) | about 78,000 | is the pool right, and does it implement `ConcurrentMap`? |
| `bulk_delete` (`MCBulkDelete.cfg`) | about 114,000 | does a deletion delete what was asked, and all of it? |
| `download` (`MCDownload.cfg`) | about 210,000 | is a prefix mapped to disk without collision or loss? |
| `download_windows` (`MCDownloadWindows.cfg`) | violated | is replacement atomic on Windows too? |
| `file_versions` (`MCFileVersions.cfg`) | about 683,000 | does a verb act on what its source named, and only as asked? |
| `unhide_visible` (`MCUnhide.cfg`) | violated | is a file visible once it is unhidden? |
| `dispatcher` (`MCDispatcher.cfg`) | about 917,000 | are outcome, outputs and advice of a run consistent? |
| `listing` (`MCListing.cfg`) | about 45,000 | are pages put together without a gap, and is `truncated` right? |
| `sync` (`MCSync.cfg`) | about 792,000 | do the counters account for what was done? |
| `sync_errors` (`MCSyncErrors.cfg`) | violated | does `errors` count files? |
| `outputs` (`MCOutputs.cfg`) | about 23,000 | is the manifest whole or empty, within the cap? |
| `lychee_install` (`MCLycheeInstall.cfg`) | about 162,000 | does the lock do its work when its holder may die? |

All specifications have an explicit `Terminated` step, so that deadlock is
checked everywhere.

**upload.** `InFlightBound`: requests over all files stay within `concurrency`.
`ResolvedMeansAllStored`: success reports every file, and each is in the bucket.
`SettledIsQuiet`: nothing runs after the promise has settled.  `OneFilePerKey`.
`NoIdleWorker`.  `NoStartAfterStop`: after a failure or the signal no file is
begun.  `Settles`.  `ImplementsMap`: the refinement, with `firstError` as the cause.

*Bounds.* Three files, two workers, two requests a file, three keys.  With fewer
workers than files a worker comes back for more; with two workers one can fail
while the other is in flight or about to take; with two requests a file,
permits of one file and of two files differ; with three keys every pattern
of collisions of three files occurs.

**bulk_delete.** `RemovesOnlyWhatWasAsked`, `ReportedDeletedIsGone`,
`SuccessAccountsForAll`, `StopsAtSignal`, `NoSecondRequest`, `Settles`.

*Bounds.* Three names, one of them beside the directory (`logs-archive` beside
`logs`), four versions at the start, pages of two, so that a page ends inside a
name and a listing takes several requests.  One version can be uploaded by
another client, newer than the two of its name; every version can be
deleted by one.  One version is under governance and one under compliance.

**download.** `PlanIsDisjoint`: planned paths do not collide, in whichever order
they were listed.  `ResultIsOnDisk`: success means that every file that was there
all along is at its path.  `KeepsAFile`: off Windows a local file is never
missing.  `NeverOverwritesItself`.  `Settles`.

*Bounds.* Names `A`, `A/c`, `a` and one that cannot be mapped, over paths `A`,
`A/c`, `a`, `a/c`: a file that is a directory for another, two that differ in
case, and both at once, on both kinds of file system, with a local file or
a directory in the way.  Pages of two.

**download_windows.** `ReplacesAtomically` states for every platform what the
comment at `download.ts:258` says: "Atomically move a completed same-directory
download into place."  TLC finds the step that unlinks the existing file before
the second rename.  A process that dies there has lost the local file; if the
second rename fails, the handler removes the temporary file as well.  Off Windows
the statement holds (`KeepsAFile`).

**file_versions.** `ActsOnWhatWasNamed`: what is changed by fileId was named by `source`
during the run, never a longer name and never an upload below a hide marker.
`DoesWhatWasAsked`: nothing but what was asked, all of it on success, a retention and a
legal hold on one version, in spite of repeated requests.  `VerifiedIsEqual`.  `Settles`.

*Bounds.* The source, a longer name and a destination; six histories, among them two
uploads, a marker between an upload and a longer name, governance, compliance, a legal
hold, and an upload without a digest.  One more version can be made where there are
two, two where there is one; each request can be repeated once.  This is enough for
another client to replace, hide or delete the version between lookup and request.

**unhide_visible.** `UnhiddenIsVisible` says what the log of `unhideCommand` says when it
has removed a marker.  It fails if nothing lies below the marker.

**dispatcher.** `RetryAdviceIsSound`: "retryable: true" only for a failed run that changed
no bucket and met no unsafe endpoint, and a delay only along with it.
`OutcomeIsPublished`: the counts and the manifest are put out exactly if the command
returned, and the run succeeds exactly if it counted no error.  `SentFileInfoFits`.

*Bounds.* Every verb, every class of error with an unsafe endpoint at each depth up to
one beyond the limit, delays below, between and above whole seconds and the maximum,
both signals twice, an output file that can be written or not.  Limits on fileInfo are
small, and the entries reach and exceed each of them, with the modification time as what
goes over.

**listing.** `ListingHasNoGaps`, `ListingIsExact`.  *Bounds.* Four names in all combinations of
visible, hidden and absent, pages of one and two, `max-results` below, at and above the
number of files, one change by another client at any point; the theorems have the rest.

**sync.** `CountsAreTrue` bounds the changes from both sides: a change that is counted was made,
and one that was made is counted or belongs to a file with an error.  Between the two lie the
answers that were lost; the counters alone cannot tell them from requests that did nothing.
`SuccessIsComplete`.  *Bounds.* Three files with every plan, two at a time, so that batches
overlap; failures, lost answers, a dry run and the signal at any point.

**sync_errors.** `ErrorsArePerFile` says what the comment on `errors` says.  It fails because
the SDK's closing error is counted like one of a file.

**outputs.** `OutputsFit` compares the running length with a reference definition of the length of
a JSON array; `ManifestIsAllOrNothing` says which manifests are complete and how long
the preview is.  *Bounds.* Up to five items around a cap of ten bytes, so that a sequence
fits exactly, goes over by one, or over by the comma alone.

**lychee_install.** `RunsOnlyVerified`.  `GivesUpOnlyInQueue`: who gives up waited for a dead
process or for more than one.  `EveryProcessEnds`.  *Bounds.* Three processes, so that
one can wait behind two; three attempts, so that there are two pauses of different length;
one tick for the timeout, for the first pause and for everything else.  Each term of
`installLockTimeoutMs` then counts.

## 4. Fairness

- `Upload`: weak fairness of the main flow, of each worker and of the SDK's work on each
  file.  The event loop resumes what is ready; the SDK bounds every request by a
  timeout, so that it answers or fails.
- `BulkDelete`, `Download`: weak fairness of the command as a whole, which is one chain of
  awaits.  It is not assumed that requests succeed.
- `FileVersions`: the same; `MaxRetries` is the SDK's bound on repetitions.
- `LycheeInstall`: weak fairness of each process's own steps and of time.  That a process is
  started, is killed, or is kept from making the lock is not assumed, nor that the
  developer removes a stale one.
- `Dispatcher`, `Listing`, `Sync` and `Outputs` are checked for safety only.
- No fairness is assumed of signals, other clients, other steps or a kill.

## 5. Proofs

The proofs hold for every value of the constants (numbers of files, workers, parts,
keys, names, versions, processes, changes; locks, page sizes, histories, errors),
under the assumptions that the modules name and nothing else: bounds are positive,
and the constants are of their types.

**UploadProofs.**  The properties are not inductive: they talk about results and
stored versions, and a step of a worker changes slots and tasks.  `IInv` adds
`Holding` (slots and running mappers correspond one to one), `HandedOut` (the
positions before `next`, and only they, were given away), `Budget` (a request
belongs to a running mapper, on a permit within `PartConcurrency`), `Recorded` (results,
failure and stored versions agree with the tasks) and `Phases` (before the
start nothing has happened; while files remain every worker holds one; at the
end none does).  `Invariance` proves it, one lemma for each action; both ways in
which a worker goes on share `PassesOn`.  From it follow `InFlightBounded`,
`SuccessIsComplete`, `SettledQuietly`, `KeysAreUnique`, `NoWorkerIdles` and, for steps,
`StopsAtFailure`.  `InFlightBounded` is a counting argument: with a permit for each
file the requests map injectively to workers, otherwise to permits.

`ImplementsConcurrentMap` proves the refinement.  It needs two more facts, proved on top of
`IInv` as `RInv`: `Caused` (there is a first error exactly if some mapper failed) and `Begun` (a
pool that runs has handed a position out).  `Mapped` says what
the refinement mapping makes of each variable; then each kind of step has a lemma:
`MapCalls`, `MapReturns`, `MapRejects` and `MapSettles` are the four abstract actions, and
`MapOthers` shows that the SDK, B2, the signal and other steps of the job are stutters.  `MapReturns`
is the hard one: the worker that resumes may take the next file in the same step, and it
must be the first that is left.

**BulkDeleteProofs.**  `IInv` adds `Entitled` (who lists was allowed to), `Truthful`
(removed versions are gone and a positive answer is about one of them), `InOrder`
(events, the current version, the page and the cursor follow each other in listing
order) and `Covered` (every version from the start is ahead of the cursor, in
the page, current or reported on).  `InOrder` gives `RequestedOnce`, `Covered` gives
`SuccessIsExhaustive`: B2's listing may change between the pages, but only ahead of
or behind the cursor, never across it.

**FileVersionsProofs.**  `IInv` adds `Control` (which verb is at which request, and that what a
request names was shown) and `Done` (nothing was done before a lookup, the retention
before the legal hold, and everything by fileId to `hit`).  Steps fall into three kinds, each
with a lemma of its own: those that change nothing of the command's (`QuietKeeps`), those that
only go on (`GoOnKeeps`), and requests that take effect (`EffectKeeps`).  That versions keep
their name, kind and digest (`Grows`) carries what a lookup saw to the request.

**ListingProofs.**  `Scanned` is the heart: every name that was there all along and lies
before the cursor has been listed.  `PageIsPrefix` shows that any answer B2 may give keeps
it.  `ListingExact` follows, as behind the end there is nothing left to scan.

**DownloadProofs.**  `IInv` adds `Covered` (every name that was there all along is planned,
on the page, or ahead of the cursor), `Owned` (the two maps of `recordPlannedLocalPath` have
each planned path and each directory above one, under the keys by which they are compared,
and no two planned files share a key or stand in each other's way) and `Placed` (where the probe
was right, what was downloaded is at its path, and nothing of this run is anywhere else).  `Owned`
gives `PlanDisjoint`: whichever of two colliding files comes second finds the first in one of
the maps.  `Covered` and `Placed` give `ResultsAreOnDisk`; `Placed` with disjoint paths gives, for
steps, `DownloadsStay`; `LocalFilesAreKept` goes over the file operations.

**SyncProofs.**  The counters are numbers, the properties about sets of files.  `OneEvent` says
that a file has one event at most, none while its action runs, and one afterwards; `Truthful`
that an event is of the type that the plan has for its file, and which events go with a change;
`Counted` that each counter but `errors` is the number of files whose event it has counted.
Those sets are disjoint, so that the sum of the counters is the cardinality of
their union.  `ChangesAreDone` puts the set of changed files between the union of
the changes counted and that union with the files in error; the bounds on `changes` are its
cardinalities.  `Stages` ties all this to `pc`.

**DispatcherProofs.**  `Effects` relates what was changed to the verb and dry-run, `Advice` the
advice to the error, and `Outcome` says for each place in `run()` what has been published.
`RetryOnlyIfSafe` joins the first two.

Limits on totals need induction.  The induction theorems of the library take an operator as
parameter, which the provers cannot instantiate; but the theorem that the natural numbers are
well-founded speaks of sets only.  `LeastNumber` and `UpTo` derive from it induction over a set
of numbers, `SumsExist` that a function which adds up is well-defined, and `AddsUp` that
it has the totals.  `SentInfoFits` follows from the last entry that was checked; that what is
checked is what is sent, with the modification time, is the invariant `Planned`.

The same module has the theorems about `Outputs`, which are about totals too; the names of the two machines
differ, and neither constrains the variables of the other.  `SummaryInv` says that what is
being built fits, that `bytes` is its length (`LengthGrows`: one more item adds its length and a
comma), and why the full array was given up.  `FitShrinks`, that a beginning of what fits does fit,
makes the first item that goes over the cap a verdict on the whole manifest, and the preview
the longest one.

**LycheeInstallProofs.**  `OneInstaller` (who is in the guarded section made the lock),
`NothingToLose` (no good binary exists while one is being installed, so that nobody is about
to run it) and `Checked` give `RunsVerified`, whatever processes die.

`GivesUpLate` is about time.  `TInv` adds `Times` and `Installer` (what the present installer can
have spent where it is), `Witnessed` (whom a waiting process has seen hold the lock) and
`Patient`: who has waited for one live installation has not waited longer than that took.  The
pauses grow with the attempts, so that their sum is a triangle number; `Elapsed` counts doubled
ticks to stay with whole numbers.  `DeadlineCovers` shows that `installLockTimeoutMs` exceeds all attempts, pauses
and the rest of the work together.

**Only model-checked.**  Liveness: `Settles` of `Upload`, `BulkDelete`, `Download` and
`FileVersions`, and `EveryProcessEnds`.  They rest on fairness, which is defined by ENABLED, and that is out of
TLAPS's reach here.  The three statements that runs refute are, of course, not theorems.

## 6. Not modelled, and why

- Content: bytes, hashes, MIME types, metadata, encryption keys, log lines, step summaries.
- The SDK and B2, except as `src/` uses them.  Definitions that stand for them are
  marked external in `PROJECT.json`.
- In `Upload`: symbolic links and case in local globs; retries inside the SDK, which
  show only as success or failure.  That an upload of the wrong length is not stored is the
  SDK's doing and B2's, and `Commit` takes it as given.
- In `Download`: the download of one named file; symbolic links in the destination
  and the checks against them; other steps that write to the destination meanwhile.
  `Fold` stands for JavaScript's `toLowerCase` and for the file system's own equivalence of
  names: names that the two fold differently are outside what the runs and theorems say.
  The skip of listed entries that are not uploads (download.ts:126) has no counterpart, as `Listing`
  has uploads only, which is all that B2 lists there.
- In `BulkDelete`: a version uploaded during the run.  It may survive, and
  nothing in the code says otherwise.
- In `FileVersions`: `source-bucket` other than the bucket; the names of encryption modes.
- In `Sync`: how the SDK compares the two sides and decides what to do with a file.
- In `Dispatcher`: parsing of single values, which are valid or not; text of messages.
- In `Outputs`: the filter on field names and the row cap of the step summary.
- In `LycheeInstall`: the tar format and HTTP, which succeed or fail; a failure of `rmSync` when
  a process cleans up or gives the lock back, after which the process fails and the lock
  may stay, as that of a killed process does.
- Progress listener: it throttles log lines, and nothing else sees its state.  Paths,
  formatting, changelog and policy scripts: functions on text.
- Batched mutation testing: a sequential partition of files over child processes.
- Lockfile audit, its heartbeat, and the release: workflows in YAML and shell against GitHub
  and the npm registry, outside the action.

## 7. Plan

Done: the core (`Upload`, `BulkDelete`, `Download`), the remaining verbs (`FileVersions`,
`Listing`, `Sync`), `Dispatcher` with `Inputs`, `Outputs`, `LycheeInstall`, and the proofs
of section 5, which have every safety property of the passing runs.  Next, in this order:

1. Abstract specifications of `BulkDelete` and `Listing` (a deletion, and a listing, that
   takes effect name by name in order) with the refinement proved from `InOrder` and `Scanned`.
2. Lemmas that carry liveness as far as safety goes: that in every state that is not an end some
   step of the command is possible.
3. The download of one named file, with the checks against symbolic links.
