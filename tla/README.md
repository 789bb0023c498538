# cueBreaker backend — specification

TLA+ specifications of the cueBreaker backend (`src/`), the TLC instances that
check them, and TLAPS proofs of every safety property they check.  Every definition
is translated from the Go source; `PROJECT.json` maps each of them to the lines it
stands for.

## The system

cueBreaker splits albums that were ripped as one audio file with a CUE sheet.  A
single process serves a JSON API, scans an input directory, and runs one split
at a time, each a pipeline of external tools (`cuebreakpoints`, `shnsplit`,
`cueprint`, `metaflac`).

| Part | State | Operations | Talks to |
|---|---|---|---|
| `internal/joblog` — bounded log | last 500 entries, next sequence number, a mutex | `New`, `Add` (evicts the oldest), `Since` | written by the split run and the scan, read by status polls |
| `internal/job` — job manager | registry `jobs` (id → `*State`) under a mutex, a channel of 64 queued jobs, one worker goroutine, a context | `NewManager`, `Enqueue` (placeholder, context check, non-blocking send, `reject`), `Get`, worker `run` and its `update`s by id | called by the handlers; calls `split.Run`; owns the logs |
| `internal/split` — pipeline | none of its own; the output directory, a temporary copy of the sheet, child processes | `Run`, `runCuebreakpoints`, `runShnsplit`, `streamShnsplitProgress`, `finishSplit` | reads `shnsplit`'s stderr through a pipe; reports progress and log lines to the job manager by callback |
| `internal/scan` — library scan | none; input and output directories | `FindPairs`, `CheckOutputStatus`, `Search`, `FindCover` | reads the directories a split is writing |
| `internal/cue` — CUE sheets | none | `ReadCUE`, `ParseText`, `CheckSourceFLAC`, `SourceFLAC`, `MakeUTF8Cue`, `TotalSeconds` | used by scan, split, preview |
| `internal/server` — HTTP | none besides configuration | scan, search, preview, cover, split, status, version, docs, static files; path containment | job manager, scan, cue |
| `cmd/cuebreaker` — entrypoint | the signal context | start, shutdown | cancels the manager's context, shuts the server down |

What is hard here, and what makes each part correct:

* **Job manager.** `Enqueue` registers a placeholder, drops the lock, and only
  then learns whether the job fits; a refusal rolls back by looking at the
  *status* of whatever entry it finds.  The worker reaches its job's `State` by
  id at every update.  Correct means: no refusal erases a result or leaves a
  blocked slot; no job is lost, duplicated or run out of order; the worker never
  writes into another job; a finished job is final; an accepted job ends; a
  shutdown refuses what comes later.
* **Status polling.** The handler reads a job's status and its log under two
  locks, one after the other.  Correct means: a terminal status comes with the
  whole log, and what successive polls say of a run only moves forward.
* **Log.** Eviction, a cursor the client keeps, responses that are lost.
  Correct means: every retained line once, in order, under its own number.
* **Pipeline.** A child process writes to a bounded pipe while the run reads it,
  may fail or hang, is killed as a group on cancellation; the output directory
  outlives every run and is shared by all runs and all sheets of an album; tags
  are found by counting files.  Correct means: done is the whole album, tags and
  progress belong to the right track, cancellation ends the run.
* **Scan.** Walks a tree that changes under it, reads every directory twice, and
  judges "split" by counting files.  Correct means: one log line and one count for
  each directory skipped, one pair for each album, one bad directory costs only
  what lies in it, an unreadable root is an error and not an empty library, what is
  offered can be split, and a `split_done` that is true only of split albums.
* **Requests.** One spelling of a path is joined onto two roots, and names a job; a
  preview looks at the disk half a dozen times, and users move files meanwhile.
  Correct means: input and output stay in the same subtree, two spellings of an
  album are one job and two albums are two, and an answer is made of what the
  directory held.
* **CUE text.** Encodings are tried in turn, and nearly any bytes decode in some; a
  field's track is found by where the next header stands; durations come from
  positions in a file.  Correct means: each field with its own track, the right
  text, the right file, the right length.
* **The process.** `main` does not wait for the worker, and `shnsplit` has a process
  group of its own.  Correct means: a run that was cut off harms no later one, and
  nothing goes on writing after a shutdown.

`PROJECT.json` lists every hazard at its line, with the properties meant to catch it.

## The modules

| Module | Models | Extends |
|---|---|---|
| `LogBuffer` | `joblog.Buffer` as operators on a value: `Push`, `Add`, `Since` | |
| `LogStream` | one buffer, its writer, and a client that polls it over a connection that loses responses | `LogBuffer` |
| `JobManager` | `job.Manager`: calls of `Enqueue`, the worker, the pipeline as the manager sees it, cancellation | `LogBuffer` |
| `SplitService` | the abstract service the manager promises | |
| `JobManagerRefinement` | the refinement mapping from `JobManager` to `SplitService` | `JobManager`, instance of `SplitService` |
| `StatusPoll` | `handleStatus` and a polling client, composed with the job manager | `JobManager` |
| `SplitRun` | `split.Run` for one job after another on one output directory, with `shnsplit` and its pipe; `scan.CheckOutputStatus` on that directory | |
| `CueSource` | `cue.CheckSourceFLAC` and `cue.SourceFLAC` as operators on a sheet and a directory | |
| `CueSheet` | `cue.detectDecode`, `cue.ParseText`, `fileReferences` as operators on lines | `CueSource` |
| `AudioDuration` | `cue.TotalSeconds` as an operator on the chunks of a file | |
| `Cover` | `scan.FindCover` as an operator on the images of a directory | |
| `RequestPaths` | `filepath.Clean` and `Join`, `scanRelPath`, `containedRealPath`, `JobID` on sequences of components | |
| `LibraryScan` | one walk of `scan.FindPairs` while the library and the output change | `LogBuffer`, `CueSource` |
| `Requests` | one preview, cover or split request, look by look at a directory that may change | `CueSheet`, `AudioDuration`, `Cover`, `RequestPaths` |
| `MC…` | the TLC instances: symmetry sets, track counts, a small library, a small tree of directories | |
| `…Proofs` | the TLAPS proofs | |

Definitions whose comment begins with "Mutant" are plausible bugs in the code of
the definition that follows.  Nothing uses them; substituted for that definition
they make a checked property fail, which shows the property looks at that code.

### Job manager

A *call* is one invocation of `Enqueue`.  Since a call allocates at most one
`*State` and sends at most one `queuedJob`, the call also names both: `jobs[i] =
c` means that the registry's entry for `i` points to the `State` allocated by
call `c`, and `status[c]`, `log[c]` are the fields of that `State` whether or not
the registry still points to it.  Pointer identity, which the code's rollback
does not check, is therefore visible to the properties.

| Code | Action |
|---|---|
| `Enqueue`, first critical section, entry active | `RefuseDuplicate` |
| `Enqueue`, first critical section, placeholder | `Register` |
| `Enqueue`, `select` on the context | `CheckContext` |
| `Enqueue`, `select` on the send | `Send` |
| `reject` | `Reject` |
| `worker`, the two cases of its `select` | `Take`, `Leave` |
| `run`, start / progress and log callbacks / success / error or panic | `Start`, `Progress`, `LogLine`, `Succeed`, `Fail` |
| SIGINT, SIGTERM | `Cancel` |

Each action is one critical section or one channel operation.  `Stopped` is a
self-loop when everything has returned, so that TLC's deadlock check means that
nothing else ever gets stuck.

`SplitService` has no placeholder, rollback, lookup or mutex: a request is
accepted or refused in one step.  The mapping counts a placeholder as nothing
(the entry beneath it still shows), and the job the worker has received but not
started as first in line.

### Status polling

`GetState` is `Manager.Get` (with the 404 for an absent id), `ReadLog` is
`Log.Since` with the response; any number of the manager's steps may happen in
between.  The client polls one id and keeps its cursor; `Reload` is a reloaded page.
`told` is an auxiliary history: the last status the client was shown of each run of
the id, whatever runs it was shown in between and however often it reloaded.

### Split pipeline

`pc` walks through `Run`; `child`, `track` and `pipe` are the `shnsplit` process
and the lines in its stderr pipe.  A file is a track number and the sheet whose
title names it, `0` being the pregap, so that a sheet before and after a fix, or
two sheets of one directory, write different files into the same directory.
`cut` holds the files whose audio is incomplete, `tags` what was written to a
file, as far as it tells properties apart: which track's data, of which sheet,
and the total.  `Pieces` is the number of tracks as the tools count them,
`TrackCount` as `ParseText` does, which knows audio tracks only.  `Prepare`,
`Breakpoints`, `List`, `RemovePregap` and `Complete` may fail wherever the code
returns an error.  `Kill` is `cmd.Cancel`, and after a cancellation no tool starts.
`LongLine` is the scanner giving up on a line beyond 1 MiB.  `temps` counts the
copies `MakeUTF8Cue` has made and no deferred call has removed (`Return`).  Log
lines and the cover's content are left out; the cover can still fail the run.

The process is part of this module, for what it leaves is found by the runs of the
next one.  `Cancel` is the signal, `Shutdown` makes `ListenAndServe` return at once,
and `Exit`, the end of `main`, may come at any step after it, or without it, as a
crash.  Whatever `shnsplit` then does it does as `stray`: it may go on with its
track until the line that reports it meets the closed pipe, or die at any time
(as it does at once in a container whose first process is the server).  `Restart`
begins a new server on the same directories.

### CUE text, durations, covers, paths

`CueSheet` takes a text as its lines, each reduced to what the regular expressions
find in it; a field of an album is the number of the line it is taken from, so that
a property can say whose field it is.  What a codec makes of the bytes is a
parameter, the order of the attempts is the code's.  `AudioDuration` lays the
chunks of a WAV file out at their positions and walks over them as the code does;
a duration is the pair of amount and rate whose quotient the code returns, so that no
rounding hides a difference.  In the instance the code's 64 KiB are 80 bytes.  An image in
`Cover` is the rank of its name and whether it is contained.  A path in
`RequestPaths` is the sequence of its components, with `""` for a doubled or trailing
slash and in front of an absolute path; symbolic links are a table of real paths.

### Requests

Each action of `Requests` is one look at the disk and what the handler does with it:

| Code | Action |
|---|---|
| `decodePathRequest`, `scanRelPath` | `Decode` |
| `cueFileContained`, its `os.Stat` / its `containedRealPath` | `StatCue` / `ContainCue` |
| `handlePreview`: `Parse`, `SourceFLAC`, `TotalSeconds`, `FindCover`, `CheckOutputStatus` | `Parse`, `Source`, `Duration`, `PreviewCover`, `Output` |
| `handleCover`: `containedRealPath`, `FindCover`, `http.ServeFile` | `ContainAlbum`, `FindImage`, `SendImage` |
| `handleSplit`, `Enqueue` and its answers | `Enqueue` |
| users, a running split | `Change`, once, at any moment |

`Cases` pairs every request with a directory, `Shifting` holds the contents that may
change into one another; `past` remembers the content before the change, so that
a property can say "at some moment of the request".

### Library scan

`todo` is the stack of `filepath.WalkDir`, its head the directory the walk is at.
The code reads a directory, and its sheets, at several moments, and each of them
is an action, so that the disk may change in between (`Change`: a directory that
can no longer be listed, or can again; other sheets or other audio files; one more
track in the output).  `failed` is an auxiliary history of the directories of which a
look failed, the callback's or the walk's own.

| Code | Action |
|---|---|
| before `WalkDir` | `Begin` |
| callback, `os.ReadDir` succeeds / fails | `Visit` / `VisitUnreadable` |
| callback, one `CheckSourceFLAC` | `CheckSheet` |
| callback, no sheet passed / some did (`CheckOutputStatus` included) | `RejectAlbum` / `AddPair` |
| `WalkDir`'s own reading of the directory succeeds / fails and calls the callback again | `Enter` / `EnterFails` |
| after `WalkDir`: sort (not a stable one), last log line, result | `Finish` |

A sheet is what the code extracts of it: whether it can be read, its `FILE`
references, its number of tracks.  A name is a number, and a directory makes of it
a file in it, a file below it, a file that really lies elsewhere, or nothing:
that is all `containedFile` tells apart.  Reading a sheet and looking for its file
is one action.  The list of `.flac` files in a pair, the elapsed time and the summary's
`unsplit` (a count of the pairs that are not done, taken at the end) are left out.  The
root is taken to be a directory: `WalkDir` does not follow a symbolic link there, so
that an `INPUT_DIR` which is one gives an empty, successful scan in the code
(`scan.go:77-79`), which the model does not show.  `reports` is an auxiliary history of what was said of each directory.

## The runs

| Run | Instance | Shows |
|---|---|---|
| `LogStream` | capacity 2, 5 lines | Eviction more than once, empty polls, lost and late responses: the buffer is exactly the newest lines (`RetainedTail`), the client gets lines once and in order (`ReceivedInOrder`) and misses only evicted ones (`MissedOnlyIfEvicted`). |
| `JobManager` | 2 ids, 3 calls, queue of 1, log of 2, 2 lines a job | The safety invariants, the action properties, the refinement `ImplementsService`; `EnqueueReturns` under the calls' fairness alone; `AcceptedJobEnds` and `WorkerLeaves` if worker and tools go on; `NotAcceptedAfterCancel`. |
| `StatusPoll` | 2 ids, 3 calls, queue of 1, log of 2; no tracks, so that jobs go from splitting to their end | `TerminalPollIsComplete`, `FollowedWithoutHoles`, `PollsMoveForward`. |
| `SplitRun` | two sheets (2 tracks with a pregap; 1 track that the parser does not know), pipe of 1 line, 3 runs, long lines, 2 ends of the server | `DoneIsWholeAlbum`, `TagsMatchTracks`, `ProgressWithinTotal`, `TempCopiesAccounted`, `ProgressMovesForward`; `CancelledRunEnds` and `RunEnds`. |
| `LibraryScan` | 4 directories on three levels, 1 change, log of 3, up to 3 contents each | `StillDirectoriesReported`, `OnlyRootIsFatal`, `SummaryAgrees`, `OfferedAlbumsResolve`. |
| `Requests` | all paths of up to 3 components out of 6 over a small tree with links; all sheets of up to 4 lines out of 8, all chains of up to 3 chunks out of 6, all sets of up to 3 images, 11 encoded sheets with their files in every place; 1 change among 7 contents | `SameSubtree`, `IdNamesSheet`, `FieldsStayWithTheirTrack`, `CoverIsBest`, `DurationIsOfSource`. |
| `JobManagerParked` | 1 id, 1 call | refutes `NotAcceptedWithoutWorker` |
| `JobManagerSpuriousDuplicate` | 3 ids, 4 calls | refutes `DuplicateNamesAJob` |
| `StatusPollRerun` | 1 id, 2 calls | refutes `NothingAddedIsSkipped` |
| `SplitRunStaleResult` | two sheets, 2 runs | refutes `ResultIsOwnAlbum` |
| `SplitRunFalseDone` | two sheets, 1 run | refutes `SplitDoneIsSplit` |
| `SplitRunOrphan` | two sheets, 1 run, 1 end of the server | refutes `ShutdownLeavesNoShnsplit` |

Every passing run but `StatusPoll` checks the type invariant of its module as well.

**Bounds.** Three calls for two ids are what a rollback needs: a job that fills the
queue, a finished job of another id, and the refused call that would replace it
(or, by cancellation, a second call for the same id beside it).  The queue of one is
full as soon as a job waits; the code's 64 differs only in how many jobs that takes,
and the proofs hold for every capacity and any number of calls.  A log of two
evicts, and has room for a line and its successor.  Two tracks let a track be first,
last, before and after the one being written; a sheet with a pregap has one line more
than tracks.  A pipe of one line is full whenever a line is unread.  Three runs let a
run find what two earlier ones left, of its own sheet and of the other; two ends of the
server can fall on any steps of any of them, so that two strays can write beside
a run.  The status polls need no tracks: a progress report changes neither the entry nor the
log, and the phase after it, tagging, has the same rank as splitting for a client that
must not be taken back; the run `JobManager` goes through it, and the proof covers
any number of tracks.  The library has a directory with one
above it, one below it and one beside it, any of them unreadable from the start, and
their contents meet every verdict but an unreadable sheet, which comes with a change;
one change at any moment is enough to separate any two looks at one directory.  A log
of three has room for the opening line, one skip and the summary, and evicts from the
second skip on.  Three components are enough for a path that leaves
the root and comes back, four lines for a track between two headers of either kind,
three chunks for one before, between or behind the two that matter, with a chunk of
odd size and one that pushes the next beyond the bytes that are read.

**Symmetry.** Ids and calls are interchangeable in `JobManagerSpuriousDuplicate`,
calls in the runs of the status poll, which only check safety; the runs with
liveness properties use none.

**Fairness.** `CallFairness`: a handler's goroutine that is past the first
critical section is scheduled; none of its steps waits.  `WorkerFairness`: so is the
worker.  `PipelineFairness` stands for tools that end; it is a hypothesis of the
properties that need it, not of the specification.  In `SplitRun` the run's
goroutine and the goroutine of `os/exec` that watches the context are fair;
`shnsplit` is not, so it may hang for ever, except under the hypothesis
`ShnsplitFairness` of `RunEnds`, which does not oblige a process blocked on a
full pipe to do anything and never forces a failure or an over-long line.  Neither a
signal nor the end of the process is ever obliged to come.  Strong fairness is
nowhere assumed: the worker's `select` may pick the next job over a cancelled
context every time, and still leaves once the queue is empty.

### What the sources say and the code does not do

Six properties are translations of a comment, a document or a test, and fail:

1. `NotAcceptedWithoutWorker` (`queue.go:99`): the context is looked at before the
   send, in a separate step; cancelled in between, with the worker gone, the
   job is accepted and stays queued for ever.
2. `DuplicateNamesAJob` (`queue.go:80`): a call that meets the placeholder of a
   call about to be refused answers "already in progress" for a job that is never
   created.
3. `NothingAddedIsSkipped` (`queue.go:85`): every run has a log of its own that
   numbers from 0; the cursor of the previous run skips the new run's first lines.
4. `ResultIsOwnAlbum` (`tag.go:154`): results are all `.flac` files of a directory
   nothing empties.  For the same reason a stale file shifts the tag numbers of the
   files after it, enters `TRACKTOTAL`, and can push progress past its total; the
   properties about tags and progress therefore say "in a directory of its own".
5. `SplitDoneIsSplit` (`scan.go:246`): files are counted, so a pregap file or a
   truncated track left by a failed run completes the count.
6. `ShutdownLeavesNoShnsplit` (`main.go:67`): `main` returns as soon as the listener
   is closed; the goroutine that would kill the process group (`split.go:206-209`)
   may not have run by then.

Smaller remarks from the modelling.  The log of a scan is a ring too: the API
documentation promises "One entry per rejected directory [...], plus opening and summary
bookend lines" (`openapi.yaml:340-341`) and `scan.go:28-29` "a log of every rejected
directory and why", but beyond 500 lines the opening line and the first rejections are
gone, as `README.md:101-102` of the repository says.  `SummaryAgrees` therefore speaks
of the newest lines only, and the run evicts.  A run cancelled while it tags is reported as done,
with untagged files (tags are best effort, `tag.go:182-185`).  The progress of an album
with a data track can exceed its total, since totals come from the parser and files
from the tools.  The job id of an album in the input root itself begins with `./`,
which the mux takes out of an unescaped URL by a redirect.  A search looks for its
query in the path only (`scan.go:259`), though the API documentation says "path and
file names" (`openapi.yaml:57`).

## The proofs

TLAPS proves, for every value of the constants, every safety invariant and every
action property that a passing run checks, and the refinement:

| Module | Theorems | Rests on |
|---|---|---|
| `LogBufferProofs` | lemmas: what `Push`, `Add` and `Since` do to and with a buffer | `LogCapAssumption` |
| `LogStreamProofs` | `BufferKeepsNewest`, `StreamTypeCorrect`, `ClientReceivesInOrder`, `ClientMissesOnlyEvicted` | `LogCapAssumption` |
| `JobManagerProofs` | `JobInvariant`, `Spec => []JobInv`, and from it the type invariant and each safety invariant of the run; the action properties `TerminalIsFinal` and `EntryMovesForward`; `NotAcceptedAfterCancel` | `ManagerAssumption`, `LogCapAssumption` |
| `JobManagerRefinementProofs` | `AcceptedJobsArePlaced`; `ManagerImplementsService`, `Spec => ImplementsService` | the same |
| `StatusPollProofs` | `TerminalPollsAreComplete`, `PollsNeverGoBack`, `ClientFollowsWithoutHoles` | the same, `PolledIdAssumption` |
| `SplitRunProofs` | `DoneRunsAreWhole`, `CopiesAreRemoved`, `RunTypeCorrect`, `TracksKeepTheirTags`, `ProgressStaysWithin`, `ProgressNeverGoesBack` | `SplitRunAssumption` |
| `LibraryScanProofs` | `OnlyTheRootIsFatal`, `OfferedAlbumsCanBeSplit`, `WhatStandsStillIsReported`, `ScanTypeCorrect`, `SummaryIsRight` | `LibraryAssumption`, `TreeAssumption`, `LogCapAssumption` |
| `RequestsProofs` | `CoversAreBest`, `TracksShowTheirFields`, `RequestTypeCorrect`, `PreviewTellsDuration`, `SplitStaysInSubtree`, `IdIsOfOneSheet` | `CasesAssumption`, `RootsAssumption`, `NamesAssumption`, `ReadLimitAssumption` |

TLC evaluates the assumptions in the runs.  They say what type a constant has (the
number of runs, of ends of the server, of changes is any natural number), and four
things more.  The queue, the log and the pipe have room for something, and the tools
find a track in every sheet they cut.  `ParseText` counts no track that the tools do
not (`TrackCount[s] <= Pieces[s]`): every line it takes for a header is one for them.
A library is a finite tree in which each directory is listed once, which is so because
`WalkDir` follows no symbolic link (`TreeAssumption`).  And every text decodes in some
encoding, which is so because ISO 8859-1 takes any byte (`CasesAssumption`).

Some properties have a premise of their own, which their theorems share.
`DoneIsWholeAlbum` leaves out the runs that begin beside a `shnsplit` which outlived its
server; those about tags and progress speak of a directory of its own;
`OfferedAlbumsResolve` and `StillDirectoriesReported` of directories that have not
changed; `IdNamesSheet` of file names without a slash; `DurationIsOfSource` of WAV
files with one format and one data chunk within the bytes that are read.
`SameSubtree` is about the two directories of a split: that the sheet itself lies below
the input root is the check of its real path (`ContainCue`).

**Without induction.**  The prover cannot do induction over data, and much of this
system is a loop over data.  Two facts take its place.  A set of numbers that is not
empty has a least member (`MinIsLeast`, `LeastNatural`, from the well-foundedness of
the numbers): were a claim about lengths, rounds or levels of a tree false, it would be
false at a least place, and is not, because it holds at the first one and passes from one
to the next.  And a function that recursion describes exists, because each finite part
of it does and any two of them agree (`StepsAgree`, `StepsExist`, `RecursionIsDefined`).

**The job manager's inductive invariant.** None of the safety invariants is inductive
alone.  `PlaceholderOwned` holds because a queued entry blocks its id; that its
rollback is harmless needs `PriorIsFinished` (what it restores is a finished,
accepted job of the same id, or nothing if there was none); that the worker owns its
entry needs `HeldLeftQueue` and that the queue agrees with the registry; and
`CallsInStep` ties a call's place to its answer and its `State`.  `JobInv` is their
conjunction with the type invariant.  The proof has a lemma for each action; the
worker's actions share `UpdatesHitHeldJob` (an update by id reaches exactly the job
the worker holds) and `UpdateKeepsCalls` (such an update disturbs nothing the calls
rely on).  The refinement proof maps `Register` to a stutter, `Send` to `Accept` or
`Refuse`, `Take` to a stutter, `Start` to `Begin`, and shows under `JobInv` that the
abstract guards hold.

**The log's client.**  `StreamInv`: what the client has received, and a response on its
way, are lines of the history under their own numbers, in order and below the
cursor, and a number they leave out is no longer in the buffer.  That a late
response may be behind the buffer and still misses nothing rests on eviction being
final (`WriteRetains`), and on what `Since` picks (`SinceIsTail`).

**Polls.** `PollInv` adds to `JobInv` that neither the copy the handler took nor what the
client was last told of a run (`ToldInStep`, for every run at once) is ahead of the run's
job, nor the latter ahead of the copy; a terminal one is the job's own status for good,
so that its log no longer grows (`FinishedJobsAreFinal`).
`FollowInv` is about the lines: of a log of which the client was shown anything, it
was shown all that comes after and is still there.  This is not inductive for the log the
registry points to, since a client that polls during a placeholder takes the cursor
over to an empty log, and back again if the placeholder is rolled back.  It is so for
`Lasting`, the run that stays the id's if the call under way is refused.

**The pipeline.** `AlbumInv` says how far `shnsplit` has got: every track before the one
it is on is in the directory and whole, all of them are once it has succeeded, and
from then to the end no step takes one away.  `Quiet` keeps strays out of it:
they only come to be when a run is cut off.  `CopyInv` counts the copies.
`FilesInv` says the same of the files that are listed for tagging, so that, in a directory
of its own, a track stands in the list at its own number: `PlaceIsNumber`, by
counting the tracks before it.  `TagsInStep` claims the tags for every sheet whose
files alone are there, not only for the one being split, since a run of another may
have begun by the time they are looked at.  `ProgressInStep` says at each place of `Run`
what was reported last, as a function of the lines read and the files tagged.

**The scan.** `RootInv`: a look at the root fails only in a step that ends the scan with
an error, and no other step does.  `OfferInv`: the sheets that have passed so far resolve in the content their
directory has, and so do those of every pair; its core is `AcceptedResolves`, that what
`CheckSourceFLAC` lets pass `SourceFLAC` resolves to the named file.  `ScanInv` splits
the directories into those the walk is through with (`done`), those before it (`todo`) and
those it does not know of: the first two are disjoint, and each directory in them was come
by through the one that holds it (`WalkInv`); each in the first has one of a few accounts
(`SaidInv`), and if it stood still, the right one (`StillInv`).  Were one that stood
still and can be reached not in the first at the end, the walk would have missed
the topmost such directory on the way down to it (`ReadableWayIsWalked`), though it
is through with the one that holds it.  `CountInv` keeps the counters, the log's
next number and the pairs equal to the cardinalities of what was said.

**Requests.**  `FoundCoverIsBest` shows that `FindCover`, which takes one name after the
other, finds the best image there is; `CoverInv` carries it through a request.
`ParsedIsAsRead` shows that the fields `ParseText` takes from between two headers are
those a reader finds in the section of each audio track, which ends at the next track of
any kind, for every text; a field that the section does not have may be one of the
data tracks that follow it, never one of another audio track.  `SheetInv`
carries it through a preview.  `OrdinaryIsPlayed` shows that the walk over the chunks of
a file finds the rate and the amount of an ordinary one: each round takes one chunk
(`RoundTakesChunk`), for chunks do not overlap (`ChunksAreApart`), so that only a chunk
starts where the last one ends, and the two that matter lie in the bytes that
are read.  `LookInv` names, of the album, the source and the duration, the
moments they are of, none earlier than the one before; a change keeps it, since until
then there was one moment only (`ChangeKeepsLooks`).  For paths, `CleanedPath` says what `Clean` makes of any path: no `.`, and `..` only in
front.  So what `scanRelPath` accepts has no `..` at all, joining it to a root is
concatenation (`JoinIsConcatenation`), and both roots are followed by the same
components (`PathInv`, `SplitStaysInSubtree`); and of two accepted splits with the same
id, the components behind the roots, and hence the sheets, are the same (`IdTellsSheet`).

**What the proofs asked of the models.**  Some definitions took the form they have so
that they can be reasoned about: `Since` is described by what it picks, the order of
headers and of files as a relation, `Follow` and the walk over chunks as recursive
functions, and the files `finishSplit` has listed are a state of their own, as they are
in the code, which reads the directory once and goes by that list whatever the
directory holds by then.  And two claims turned out to be false as first stated.
That the source of a preview is an audio file: `SourceFLAC` returns the first file a
sheet names whatever its type, and the type invariant of `Requests` says so now.
And the conclusions about a scan, where a directory is listed twice or in
itself: hence `TreeAssumption`.

**Model-checked only.**  Liveness (`EnqueueReturns`, `AcceptedJobEnds`, `WorkerLeaves`,
`CancelledRunEnds`, `RunEnds`): temporal reasoning with fairness and `ENABLED` is beyond
the prover.  So are the six violations, each of which TLC shows by a behaviour.

## Not modelled, and the plan

* The mux, the version handler, static files and the embedded API documentation keep
  no state and answer from constants.  Configuration and the version probe run once,
  before the server starts.
* Of `main`, a start that fails and the requests whose connection is cut when it
  returns: nothing remains of them.
* `scan.Search`, a filter of a scan's pairs by a substring: it keeps no state and its
  text matching has nothing to interleave with.
* Regular expressions, codecs, the arithmetic of `indexToSeconds`, and the external
  tools beyond how the code uses them.  Their results are inputs of the models.
* Texts of log lines and errors, elapsed times, and the list of `.flac` files of a pair.
* Two servers on the same directories, other than through what the first one leaves.

What is left:

1. **Composition.** `Requests` with `JobManager`, where today an accepted, duplicate or
   refused job is a free choice of the handler's last action; and the invariants of
   the two proved of the composition.
2. **Lemmas.** `MinIsLeast` and `LeastNatural` are one fact in two modules, and the proofs
   about recursive functions a few of a kind; both belong in a module of their own.
