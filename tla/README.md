# A TLA+ model of 2ms

2ms ("too many secrets") scans text from files, git histories and
communication services for secrets. This directory holds TLA+ models of the
parts of it that are concurrent, stateful or easy to get subtly wrong, the TLC
configurations that check them on small instances, and proofs, checked by
TLAPS, of what holds for every instance.

Paths below are relative to the repository's root; `PROJECT.json` maps every
definition of every module to the lines it stands for.

## 1. The system

### Components

| Component | Code | State | Operations |
| --- | --- | --- | --- |
| Scan pipeline | `engine/engine.go` | five channels, findings counter, wait group, report | `Scan`, `Wait`, `processItems`, `DetectFragment`, `DetectFile`, `detectChunks`, `detectSecrets`, `processSecrets`, the extras and the evaluation goroutine |
| Detector pool | `internal/workerpool/pool.go` over `pond` | bounded queue, workers, `queueClosed`, `isShuttingDown`, two `sync.Once` | `Submit`, `CloseQueue`, `Wait`, `Stop` |
| Memory semaphore | `engine/semaphore/semaphore.go` over `x/sync` | budget, free weight, FIFO of waiters | `AcquireMemoryWeight`, `ReleaseMemoryWeight` |
| Chunk reader | `engine/chunk/chunk.go` | two buffer pools, the file's read position | `ReadChunk`, `generateChunk` |
| Secret evaluation | `engine/validation`, `engine/score`, `engine/extra` | pairs collector, fields of each secret, named mutexes | `RegisterForValidation`, `Validate`, `AssignScoreAndSeverity`, `UpdateExtraField` |
| Report | `lib/reporting` | totals (under a mutex), results map (without) | `Inc*`, `GetResults`, `ShowReport`, `WriteFile` |
| Git plugin | `plugins/git.go`, `lib/utils/channels.go` | builder and slice pools, hunks of a file diff, git's channels | `scanGit`, `readGitLog`, `BindChannels`, `extractChanges`, `processFileDiff`, `GetGitStartAndEndLine` |
| Filesystem plugin | `plugins/filesystem.go` | file list | `getFiles`, `sendItems` |
| Confluence plugin and client | `plugins/confluence*.go` | seen pages and spaces, cursors, byte counters | discovery of the cloud ID, pagination, deduplication, size limits, page history (no request is tried again) |
| Slack, Discord, Paligo plugins | `plugins/*.go` | histories, ready flag, rate limiter | pagination, time and count limits |
| Scanner library API | `pkg/scan.go` | the current engine | `Reset`, `Scan`, `ScanDynamic` |
| Command line | `cmd` | flags, error listener | `preRun`, `postRun`, `Exit` |
| Detector | `engine/detect`, `engine/linecontent` | rules, keyword trie, baseline | `Detect`, `detectRule`, `filter`, `location`, `GetLineContent` |
| Rule selection | `engine/rules/rules.go`, `engine/engine.go` | - | `FilterRules`, `completeQueriesFields`, `addCustomRules`, `filterIgnoredRules`, `createCustomRegexRules` |
| Web tool | `webtool` | jobs, false-positive marks and their file, exclusions | `handleScan`, `runScan`, `buildResult`, `handleJob`, `handleFeedback`, `FeedbackStore` |
| Rule definitions, report formats, utilities, tooling | the rest | data | `convertAllowLists` |

### How they interact

    plugin -> items -> [processItems] -> pool queue -> [workers] -> secrets
                                                                      |
        results <- [processSecrets] <---------------------------------+
                        |   \
                     extras  evaluation
                        |       |
                   [extras]  [evaluation]

Every box is a goroutine, the workers are several; every arrow is a bounded
channel (capacity `GOMAXPROCS`, the pool's queue ten times the default number
of workers). Completion travels the same way as the data: the plugin closes
`items`, `processItems` then closes the queue, waits for the pool and closes
`secrets`, `processSecrets` then closes `extras` and `evaluation`, and
`engine.Wait` returns when all four goroutines have. Secrets are shared by
pointer: the report's map, the extras goroutine and the evaluation goroutine
work on the same object, and only the wait group makes it safe to read. The
command line and the library API drive this from outside; they share the items
and the errors channel with the plugin. The web tool is a second program: each
of its jobs is a goroutine that makes one call of the library API and then turns
the report into rows, under the locks of the server and of the store of marks.

### What is hard about it

* **Interleavings**: the limit on findings is checked before a fragment and
  counted after a match by workers that run in parallel; two goroutines write
  to one secret, one of them partly without its mutex.
* **Ordering**: a channel must not be closed while anybody can still send; the
  report must not be read before the last field of the last secret is set.
* **Blocking**: workers hold memory while they are blocked on a full channel;
  other workers queue for memory; the submitter waits for a worker.
* **Partial failure**: a file that cannot be read, is too large, or holds a
  finding that cannot be built ends its task early, on a path that must still
  give its memory back and must not stop the scan.
* **Positions**: files are read in windows with look-ahead and diffs in bounded
  chunks; lines and columns must be reported in terms of the whole, and a line
  begins at the newline before it.
* **Configuration**: default, custom, special and `--regex` rules, selected and
  ignored by ID, name or tag, some of them overriding others.
* **Staleness**: scores are computed from a status that a later phase may set;
  line offsets from totals of earlier chunks; rows of the web tool from marks that
  users change meanwhile.
* **Crashes**: the web tool cuts its file of marks before it writes it.

`PROJECT.json` lists each hazard at the line where it bites, with the
properties that would catch it or the reason why none does.

### What makes each component correct

* Pipeline: each finding that is not ignored is reported exactly once, up to the
  limit; the report is complete when `Wait` returns, and it does return.
* Pool and semaphore: no task is lost, no memory is kept, no waiter starves.
* Chunk reader: the chunks cover the file without overlap, are cut only where a
  secret cannot be, and carry the right line offset.
* Evaluation: status, severity and score agree; no detail is overwritten.
* Git plugin: every changed line of every commit asked for is scanned once,
  chunks stay bounded, and findings are reported at the line of the file.
* Plugins over HTTP: each page version once, none missed, limits end the scan
  gracefully, and it ends (Confluence); the items channel is closed after the
  last reader, and a failure takes nothing else away (Slack, Discord, Paligo).
* Library API: results and errors belong to the call they are returned from.
* Command line: the exit code says what happened, and the process ends.
* Rules and detector: the rules that run are those that were asked for, and all of
  them; what they match is lost only where a rule or the user says so, is reported
  where it is, and the line shown with it has the secret in it.
* Web tool: every job ends and leaves nothing behind, the best row of a spot is
  shown, what was marked is not, and a mark users were told of outlives a crash.

## 2. Modules

### `ScanReport` and `ScanPipeline`

`ScanReport` is the promise: findings are added to a report one at a time, each
at most once, never more than the limit; the report is published when it is
full or holds everything that is reportable, and eventually it is. `Safety` is its
part without the "eventually", which the proofs are about.

`ScanPipeline` is the code. Its state is: `unsent` (the plugin's items), `buf`
and `closed` (the four Go channels; the validation channel and the one without
validation are one, `evaluation`, since a scan uses only one of them), `pc` and
`hand` (where each of the four goroutines is in its loop and what it holds),
`queue` and `queueClosed` (the pool), `wpc`, `job`, `frag`, `pos` (each worker:
its step in `DetectFile`/`detectSecrets`, its item, the fragment and match it is
at), `memFree` and `memWaiters` (the semaphore), `findingsCounter`, the report
(`totalItems`, `totalSecrets`, `results`), and `annotated`, `registered`,
`scored` (which secrets have had their extras, validation and score).

An action is the code between two points where another goroutine can interfere:
a channel operation, an atomic operation, a lock. `CountMatch` is one
`findingsCounter.Add` with the decision on the count that this `Add` returned;
`StartFragment` is the early `Load` in `detectSecrets`; `AppendResult` is the
update of the results map. What the detector finds is data: `Fragments[i]` is
the sequence of fragments of item `i` (one for a message or a small file, one
per chunk of a large file), each a sequence of matches. A match is ignored
(`isSecretIgnored`), cannot be built (`buildSecret` fails and the task ends), or
is counted and sent. A finding is one match at one place
(`EachFindingHasOnePlace`: `buildSecret` makes a new secret for each); several may
have one ID. Modelled from how the code uses them: Go's channels, pond's
bounded queue (a submitter blocks while it is full) and `semaphore.Weighted`
(first come, first served).

Left out of it: `Submit` failing (the same goroutine submits and closes, so
`ErrQueueClosed` cannot happen here and nothing stops the pool during a scan),
the errors channel of the pipeline (only a failing `Submit` writes to it), an
`Acquire` cancelled by its context (the pipeline passes `context.Background()`),
an open or a read that fails after the memory was acquired (a file with no
fragments behaves like it).

### `ChunkReader`

`detectChunks` with `ReadChunk`. A file is a sequence of bytes of four kinds:
newline, other white space, text, and text that begins the signature of an
application type. State: `consumed` (how far the reader has read), `totalLines`,
the `chunks` handed to the detector with their line offset, `status`. `ChunkEnd`
is the cut `generateChunk` makes.

### `GitChanges`

`extractChanges` line by line, `processFileDiff`'s items, and
`GetGitStartAndEndLine` as an operator. A line of a diff is its operation and its
size; the content of a builder is the sequence of the diff's places it was
written from, so that properties can say which line is where. The pools of
builders and slices only recycle memory and are left out; `packed` are
the chunks that were flushed and are not emitted yet. Where the diffs come from is
`Plugins`' part.

### `SecretEvaluation`

The two goroutines that write to a secret, at any relative pace:
`RequestValidation`, `CheckDetails`, `MakeDetails`, `AddValidationDetails`,
`AssignScoreAndSeverity` and at the end `Validate` for one, `AddExtras` for the
other. `MakeDetails` is the assignment to `ExtraDetails` that is made without
the mutex; `UpdateExtraField` is atomic because the mutex is held. A service
answers whatever it likes (`Answers`: a code, a body that can be read or not, the
detail looked for in it or not); `validateGithub`, `validateGitlab`, `validateGCP`
and `alibabaRequest` make a status of it. Scores are in tenths. Rule IDs are names here, save
those of the two Alibaba rules, where the name itself matters. Here, the secrets
arrive in a fixed order that all goroutines see: that is what `ScanPipeline`'s
channels give.

### `CommandLine`

One run of the program: the main goroutine (`main`: initialisation, `PreRun`, the
plugin, `Wait`, the report's copies, `Shutdown`, `ExitMain`), the `listener` for
errors, and the interrupt. Any of the three sets `exitCode`, which ends
everything. The plugin is a set of readers with items `left`; `givesUp` says
which kind it is: the filesystem and Confluence plugins return at an error
without closing the items channel, the others report it and go on. The engine is
taken from what `ScanPipeline` promises: items are scanned one by one
(`ScanItem`; `AllItems` is their number), and `Wait` returns when the channel is closed and empty. Reading the
flags and the configuration is one nondeterministic failure; with `disabled`
(`--log-level none`) the report is not shown.

### `LibraryCalls`

One scanner, and its owner's calls of `Scan` and `ScanDynamic`, one after the
other, each cancelled at any time or never. `step` follows the caller through the
call; the producer, the engine and the collector of each call are goroutines.
The collector of a call outlives it if the call was cancelled, and reads
`engineInstance` only when it starts: `reading[c]` is the engine it found, so a
collector may empty the errors channel of a later call (`Strays`). Errors come from
the owner of the channels at any time from before the call until it closes the
channel. A `Scan` without items returns at once and reads none of them; a call that
ends with errors returns a new, empty report (`ItemsReturned`).

### `Confluence`

`Connect` finds the site: the base of the API, with the cloud ID for a scoped
token, or an error before anything is asked. Then the walks of
`walkAndEmitPages`: `phase` (connect, keys, spaces, pages, all), `todo` (IDs
not asked for yet), `at` and `rest` (the present walk and what the service still
has to tell), `wire`, `next` and `apiConsumed` (the present answer, its cursor,
the data read of it), `visiting`, `unlisted` and `toFetch` (a page's history). The
`Versions` are the pages with their versions, up to the last there will be. The
service is nondeterministic: an answer brings any part of what matches, may
repeat a page, puts its cursor in the header or in the body, or fails; pages are
edited meanwhile. It is assumed to bring every matching page before its last
answer, and to list no version of a page twice: `emitHistory` does not look for
repetitions among them, as `emitUniquePage` does among pages. Data is counted in units of one page, list or version. The counting
reader returns data together with its error, and Go's JSON decoder forgets an
error if the data completes the value it needs, so a page beyond a limit may
still be decoded: `DecodePage` stays enabled beside `ResponseTooLarge` and
`TotalExceeded`. A body is one emission (`emitInChunks` cuts it with the reader of
`ChunkReader`); blocking on the items channel is the pipeline's.

### `Plugins`

Slack, Discord, Paligo and git, from `Run` to `close(items)`; `plugin` says which
one runs. `main` and `wg` are Run and the wait group all four close the channel
with. For the histories of channels and threads: `at` is where the goroutine of
a channel is, `pos` and `pageEnd` the messages looked at and answered so far,
`got` those within the limits. A thread is read within the reading of its
channel (`Returns` gives control back). Slack sends a message as it comes
(`TakeMessage`) and, past a limit, still asks for the pages that are left; Discord
keeps them to the end (`SendCollected`) and asks once more before it stops. For
Paligo, `folderQueue`, `children`, `offered` are the goroutine that walks the
folders, and `fetcher` the one that reads the components it hands over; `Below` is
what lies below a folder, at any depth. For git,
`diffs` is what git's log still has to bring and `toSend` what is left of the
present file's contents; `binder` is the goroutine of `BindChannels`, which sends
what git wrote to its error output, while `WaitForGit`, the deferred wait of
`scanGit`, sends its exit status.

Run may end before any of this: when the plugin cannot be initialised or
credentials are missing (`NotInitialized`, `StartFails`), Run returns with an error
and does not close the channel; the error listener ends the process. A request of
Paligo's that gets no response at all, and a git log that does not start, end in
a panic (`main = "crashed"`): the code goes on with the nil it was given.

Services answer with pages of any size, or fail, at each request. Time stands
still: a message's age is data. `failed` names the part each error was sent for;
that the listener then ends the process is `CommandLine`'s. Not modelled:
Discord's session (one outcome: it is ready, or `StartFails`), the
listing of guilds, the rate limiter's tokens (a wait that ends).

### `RuleSelection` and `Detection`

`RuleSelection` is pure: operators from a configuration to the rules that run, in
the order of the code: default rules without the deprecated ones, the fields of
overrides completed, selection, ignoring, custom rules, special rules; then the
additional ignores and the `--regex` rules of `initEngine`. Lists of rules are
functions from IDs, because the maps they end in are; `FilterRules` returns two, the
default and custom rules and the special ones appended to them, which may have an ID
in common until `initEngine` makes the map. The lists of the user are compared
without regard to case in the code, and case is left out; IDs of two rules are
compared with it, so no two of them may differ in case only.
`Wanted` and `Selected` are what the lists of the user leave of the default and of the
custom rules; `NamesOf` is the name of a rule or what takes its place, which is the name
of the rule it overrides or its ID.

`Detection` is one fragment's way through the detector, from the configuration to
the secrets: `initEngine`, then `SkipFragment` or one `DetectRule` per rule in any
order (the rules are in a map), `Filter`, `BuildSecrets`. Texts are sequences of
characters with a newline and a carriage return among them, and no other white space;
in place of a regular expression a rule has a word, with a part that is outside of the
capture group. What is done with a match is modelled from there on: the trimming of newlines, `location`, allow lists of both kinds
(`checkCommitOrPathAllowed`, `checkFindingAllowed`) as `convertAllowLists` makes
them, entropy, limits, the generic rule that gives way to a specific one on the
same line (`GenericIDs` are the IDs that contain the generic rule's), the carriage
returns that `buildSecret` takes out of the line (`Without`), the line's cut in
`GetLineContent`, the columns' correction in `buildSecret`. Redaction is left out:
2ms does not use it. Offsets count from zero as in the code. `IsRule` says what a rule is;
that every rule has a name is what `rules_test.go:33` tests, save those of the
user, which may be `Unnamed`.

### `WebTool`

Servers, their jobs and the file of marks they share. A job's `step` follows
`runScan` from one use of the server's lock to the next: `CallLock` is the call of
`Lock`, and the action after it (`StartCollecting`, `StartScanning`,
`StartBuilding`, `EngineFails`, `Finish`) the work up to the next call; a waiting
writer keeps new readers out (`handleJob`), as Go's `RWMutex` does. `AddSuppressed`,
`ShowRow` and `AddDuplicate` are the turns of `buildResult`'s loop, in any order
since a map is walked; the gates of `scoreFinding` are data (`Fails`), which of them
apply to which rule is not. `handleFeedback` changes the marks in memory;
`CutFile` and `WriteFile` are the two halves of `os.WriteFile`, and `Crash` may come
between them: a server does not start with a file that is not JSON (`load`). `told`
is what users have been answered, `marked` the marks a job has to respect. The
engine is a set of findings (`runEngine`); what it promises is `ScanPipeline`'s and
`LibraryCalls`'. A second server on the same directory can be started and is in the
module; the run has one, and the properties of marks say so.

### Model-checking modules

`MCScanPipeline`, `MCChunks` (`ChunkReader` and `GitChanges`: a scan is of files or of
a repository, so one of the two has nothing to do), `MCSecretEvaluation`,
`MCCommandLine`, `MCLibraryCalls`, `MCConfluence`, `MCPlugins`, `MCDetection` and
`MCWebTool` define the constants of the instances below. Each definition whose comment begins with
"Mutant" or "mutant" is a plausible bug in the definition after it and is used by nothing:
with the definition replaced by it, the property it is listed for in
`PROJECT.json` fails, which shows that the property depends on that code.

## 3. What the runs show

| Run | Checks | Instance |
| --- | --- | --- |
| `scan_limit` | types, limit, slots, shutdown, totals, refinement of `ScanReport` (its publication, a liveness property, included) | two workers, two messages with six findings (one ignored, one that cannot be built and one behind it, two with one ID), limit 2, capacities 1 |
| `scan_files` | memory, completeness, termination | two workers, four files with five findings, validation on, budget 3 with two files of weight 2, queue and channels of one, no limit |
| `chunks` | files: order, safe cuts, offsets; diffs: bounded and non-empty chunks, all lines or none, exact lines in the first chunk | all files of up to 7 bytes over 4 kinds, chunk size 1, look-ahead 2; all diffs of two hunks with one or two lines of three kinds and three sizes (small, larger than a chunk, overlong) |
| `evaluation` | details survive, the score is that of the final status, a live secret never ranks below a dead one | nine secrets of seven rules, three orders, with and without validation |
| `command_line` | exit code 0, final report, termination | either kind of plugin, two readers with two and one items, two report files, channels of one |
| `pending_errors` | violated: an error is not hidden when only results are ignored | the same |
| `library_calls` | whole reports, errors, termination | two calls with up to one item and three errors, channels and buffer of one |
| `confluence` | each version once, none missed, the warning, termination | four pages and four spaces, four selections, limits of one and two units, two IDs per request, two edits |
| `plugins` | wait group, nothing unwanted, nothing lost, termination | two guilds, three channels (one not readable, one with an old message), a thread, ages and counts of zero and two, pages of up to two; three folders with a component each, one answer of 429; three commits with four file diffs, one of them binary and one of two chunks, `--depth` zero and two |
| `web_tool` | the best row, marked secrets, marks after crashes, termination unless a client holds the server up | one server, two jobs (a clone with the filters on, a path with them off), three findings at two spots, one reader at a time |
| `detection` | the rules asked for and no others, positions, the secret in its content, nothing lost | all texts of up to six characters (two letters and the newline) and of up to five with carriage returns, three paths, eleven configurations over four default rules, a special one, variants of two custom rules (one with a prefix before its secret), one that replaces the special rule, one whose match begins with two newlines and two over carriage returns, and a `--regex` rule with a prefix |
| `allow_lists` | violated: nothing is lost | a rule with two allow lists, texts of up to four |

The bounds. Capacities of one make every send block as early as it can; two
workers are the fewest that race for the limit, the memory and the channels; a
limit of two with three findings that count (and one that cannot be built) makes the limit fall within a
fragment, between two workers, and before a fragment. In `scan_files` two files
cannot be in memory together, one is larger than the budget, one cannot be read,
and one ends with an error in its second chunk; the chain of bounded channels fills
up: the findings of two files are more than the secrets channel takes, so a worker
waits on it with memory in hand, the other one queues for that memory or waits on the
channel as well, and the submitter waits for the place that the third file has in the
queue. Windows of three bytes in files
of seven give three windows, with every cut point in each. Two hunks of two lines
with a chunk size of two give up to four chunks and a flush at each position.
In `library_calls`
the errors of one call are exactly as many as the channel, the collector and the
buffer hold: with one more, whoever sends it blocks, and the call never returns
(`CallsReturn` says so). In `confluence` there are a hidden page and space, an
empty space, an invalid ID, a page with an older version and one whose first
version is too large; the selections overlap. In `web_tool` a provider's rule and
the keyword rule meet at one spot, the value they share is found again in an
excluded file, and each of the two can be marked and unmarked at any time, with a
crash between any two steps; one reader at a time is enough to keep a job from the
lock. In `detection` words of up to three characters overlap in texts of up to six,
with newlines at every place, so that each limit (length of the text, of the
secret, number of matches, length of the line) is met and exceeded; carriage returns
stand within secrets, at the end of lines and alone; the eleven
configurations have overrides with and without a name or a tag of their own,
deprecated and invalid ones, a custom rule with the ID of a special one, and every way
to ignore a rule.
Sizes stand for classes of sizes: within a chunk, over a chunk but not overlong,
overlong; the limit on a whole diff is reached by two overlong lines and a third.

Fairness: weak fairness of each goroutine, worker and of the plugin. The Go
scheduler runs every goroutine that can make progress, channel operations are
served first come, first served, and no step of the pipeline waits for something
outside of it except the services of the validation, whose HTTP clients have no
timeout: `ScanCompletes` supposes that they answer. In `CommandLine` and
`LibraryCalls` each goroutine is weakly fair; nobody has to press Ctrl-C or to
cancel; the owner of a library call sends what he has to send as long as the channel
is open and the call not cancelled. In
`Confluence` the scan is weakly fair (its HTTP client has a timeout) and edits are
not. In `Plugins` every goroutine is weakly fair, which supposes that the services
answer, be it with an error, and do not answer 429 for ever (`RateLimited` is
bounded and not fair); git is over at some time. In `WebTool` each job's goroutine
and each save is weakly fair. Answers to clients are not: the server has a limit on the
reading of headers and none on writing (`webtool/server.go:54-66`), so a client that
stops reading keeps the read lock, and a job that waits for the write lock, as long as
its connection lasts. `JobsEnd` therefore says that a job ends unless its server is
writing to a client from some time on for good. The rows of
a job (`AddRows`) are strongly fair: they are built under the read lock of the
store of marks, saves take its write lock again and again, and Go's `RWMutex` lets
the readers that wait go first after each of them. `Detection` is about results and
has no fairness. Where a run ends for good, deadlock is not checked (`CHECK_DEADLOCK FALSE`):
the process has exited, the calls have been made, the scan is over.

### What the violated runs say, and known limits

**Allow lists leak into each other** (`allow_lists`). `convertAllowLists` declares
the slices of paths and of regular expressions outside its loop, so each list of
a rule also has those of the lists before it, with its own target and condition.
The README of 2ms documents target and condition for one list
(`README.md:376-377`). The run has a rule whose first list is about the match and
whose second is about the line: the second takes the first one's expression as
well and drops a finding that neither of them allows. The shipped rules with several
lists are the generic one, with four (`ruledefine/generic_credential.go:40`), and the
Kubernetes secret, with two (`ruledefine/kubernetes_secret.go:30`). `detection`, where
every rule has one list at most, shows that nothing else is lost, and
`LossesHaveReasons` proves for any lists that what is lost beyond what they say is
lost to what `convertAllowLists` makes of them.

**An error may be behind a zero** (`pending_errors`). The error listener is a
goroutine that takes one error from the channel and exits (`cmd/exit_handler.go:51-56`);
the main goroutine exits without looking at the channel. A plugin that reports an
error, goes on, closes its channel and returns leaves it to the scheduler which of the
two is first. `cmd/config.go:129` and `README.md:333` say that with
`--ignore-on-exit results` errors make the exit code different from 0.
`ZeroMeansFinished` says what a zero does mean.

Limits of the code that the modules have as they are, and that no property
forbids:

* **The look-ahead is not scanned** (`engine/chunk/chunk.go:136`). `ReadChunk` reads
  a whole window, cuts it at the first safe boundary after the chunk size, and
  returns the part before. The rest has left the reader; its lines are missing from
  later offsets as well. `OffsetsFollowChunks` shows that offsets are right exactly
  until that happens.
* **Lines of later chunks of a diff** (`plugins/git.go:518`). `GetGitStartAndEndLine`
  counts a finding's line from the first hunk; the item of a second chunk has the
  same hunks and nothing says where in them its content starts.
  `FirstContentLinesAreExact` is about the first chunk for that reason.
* **Alibaba keys are not validated** (`engine/validation/alibaba.go:23`). The
  collector's keys are rule IDs, the validation's are names, so it finds nothing.
  `ScoreMatchesFinalStatus` holds only because of that: its mutant looks the pairs up
  by ID, and then the status of a pair changes after the score was computed from it.
* **Columns** (`engine/detect/location.go:49`). A match that begins with a newline
  and the end column of a match that begins in the first line and ends in another
  are one off; `PositionsAreRight` names both cases.
* **Two newlines** (`engine/detect/location.go:49`). A match that begins with a newline
  is put on the line before it, and `buildSecret` takes the newline off that line; with
  a second newline at its beginning the line is blank, and `filter` drops the finding
  (`engine/detect/utils.go:144`), or its content does not show the secret.
  `NothingIsLost` and `SecretIsShown` except such a match, and only such a one; a rule
  of `detection` has one.
* **A collector may take the next call's error** (`pkg/scan.go:81`). The collector of a
  library call looks up the scanner's engine when it starts, and a cancelled call does
  not wait for it. In the next call on the scanner it takes an error that this call then
  does not return, although `pkg/scan_test.go:280` has all errors that were sent in
  what is returned. `ErrorsReachTheirCall` says that nothing else is lost, and that no
  call returns the error of another one.
* **Empty spaces are not named by their keys** (`plugins/confluence.go:555`). The comment
  on `returnedSpaceIDs` (`plugins/confluence.go:72-74`) says that requested IDs and
  resolved keys that returned no pages are warned about, empty ones included;
  `missingKeysFromResolved` names the keys that did not resolve and no others.
  `WarningIsRight` says exactly what is named, and a selection of `confluence` is the
  key of an empty space alone, which is not.
* **Carriage returns** (`engine/engine.go:553`). They are taken out of the line before the
  secret is looked up in it, not out of the secret: one that spans two lines of a CRLF
  file is not found, and its content is the head of the line. `SecretIsShown` excepts
  the secrets with a carriage return.
* **The place of the match** (`engine/detect/detect.go:458-461`). Lines and columns are
  those of the whole match, also when the secret is a group of it:
  `PositionsAreRight` is about the match.
* **Nil after an error**. A request of Paligo's without a response
  (`plugins/paligo.go:269`) and a git log that does not start
  (`plugins/git.go:470-486`) end in a panic, unless the listener ends the process
  first.
* **Additional ignores** (`engine/engine.go:447`) are compared with the name and
  the tags of a rule; the comment says ID.
* **The file of marks** (`webtool/feedback.go:71`). After a crash between the cut
  and the write no server starts until the user removes the file, and the marks are
  lost; two servers on one directory write over each other. `MarksAreAsTold` is about
  one server and files that are whole.

Some properties except a case in which the code gives less than one might expect, and
say so in their comments. A `Scan` without items returns the errors of nobody
(`pkg/scan.go:72-74`). `WarningIsRight` and `NothingIsMissed` exclude a response over
`--max-api-response-megabytes`: pages of such a response are then called missing or
not accessible. A pagination whose cursors come back to where they were never ends:
`ScanEnds` supposes that they do not. After a failure of git `AllWanted` asks for
nothing more. What follows a finding that cannot be built is lost with it
(`engine/engine.go:384`): `ScanReport` has that loss in `Eligible`, and the refinement
says that nothing else is lost. Two more deviations
are modelled but stated by no property: the file type is tested on every window
until the first newline, not "only at the start of the file"
(`engine/chunk/chunk.go:149`), and an empty space selected by ID is reported like
one that does not exist.

Seen while modelling the plugins, and left out of `Plugins`: Paligo's
`listFolders` takes the root folders from the first page of the answer only
(`plugins/paligo.go:306`); a Slack channel
asked for both by name and by ID is read twice; an error at the last request of
a Discord channel loses the messages read before (`AllWanted` excepts a channel
that failed).

## 4. What is proved

Eight modules of proofs, each for every value of the constants that its
component's assumptions admit. TLC evaluates the assumptions in the runs, and has
checked each inductive invariant on a run's instance before it was proved. Most
properties are about the moment something ends ("when `Wait` returns", "when the
channel is closed"), and say nothing of the way there; so their invariants are
accounts that hold at every step: what there was is what is still to come, what is
in a channel or in somebody's hands, and what has arrived.

**`ScanPipelineProofs`**, for every set of items, findings, any fragmentation, any
number of workers, all capacities and limits. The assumptions are
`PipelineAssumption` of `ScanPipeline`, what the code guarantees of its
configuration (at least one worker, capacities of at least one, no negative
weights), and `EachFindingHasOnePlace`.

* `TypeCorrect`: `Spec => []TypeOK`. The invariant is inductive as it is, because
  it ties what a goroutine or worker holds to where it is.
* `SlotsAreAccounted` and `LimitRespected`: `Admitted`, the findings counted, in
  the channel or about to be sent, is the counter up to the limit and the limit
  above it. `SlotsAccounted` is inductive given types. The only actions that touch
  it are `CountMatch`, where one worker joins `Senders` exactly when its slot is
  within the limit, `SendSecret` and `ReceiveSecret`, which hand a finding over;
  a cardinality lemma moves one worker in or out of a finite set.
  `FindingsLimitRespected` alone would not be inductive: it says nothing of the
  slots handed out before the limit is reached.
* `ShutdownInOrder`: `ShutdownOrder` is the inductive strengthening of
  `NoSendAfterClose`: every "done" implies that what fed it is closed and empty.
  The proof goes part by part: what feeds the pool, the pool, and what drains it.
* `TotalIsExact`: when `Wait` returns the report's total is the counter or the
  limit, from the two before: shutdown leaves no sender and an empty channel.
* `MemoryIsReturned`: `MemoryAccounted`. What is free and what is held make up the
  budget, where a sum over workers is written as the size of a set, one element for
  each unit that a worker holds, so that a worker that starts or ends adds or takes an
  interval. Who queues is waiting for memory, and nobody queues twice.
* `SecretsAreComplete`: `SecretsAccounted`. At every step, what one of the two sinks
  has done, holds or has in its channel is what is in the report or further on in
  `processSecrets`. With the shutdown order both channels are empty at the end and
  the sets are equal.
* `TotalsAreRight`: `TotalsAccounted`, the same account for items and for the
  entries of the results map, of which an ID has as many as its list is long; a
  secret is counted before it is appended (`Unfinished`).
* `EveryItemIsTakenOnce`: `ItemsOnce`, inductive given types: the places of an item
  are apart from each other. The four after it use that no two workers have one item.
* `WorkersStayOnTrack`, `OnlyWantedIsSent`, `NothingWantedIsLost`,
  `EverySecretIsSentOnce`: `Wanted` says which matches the report should have (those
  not ignored, with nothing before them that ends the task), `Gone` which ones no worker
  will come to any more. Sent matches are wanted and gone; below the limit wanted and
  gone matches have been sent; none is sent twice.
* `ImplementsReport`: `Spec => Report!Safety`. The one step that is not a stutter or
  the end is `AppendResult`: the finding is new (`SentOnce`), eligible
  (`SentIsWanted`) and within the limit (`SlotsAccounted`). At `WaitReturns` the report
  is full, or, as all workers are done, everything wanted is gone, hence sent, and,
  the channels being empty, reported. `Eligible` of the abstraction is shown to be
  what is wanted.

**`ChunkProofs`**, for every file (no bound on its length is used), chunk size,
look-ahead and buffer (`ChunkAssumption`). The inductive invariant adds three facts
to the properties: types; that nothing has been consumed while there are no chunks;
and that the line counter is the number of newlines up to the end of the last chunk
as long as no bytes were left behind.

* `OrderIsKept`: `ChunksInOrder`. Chunks never overlap and fit their buffer.
* `CutsAreAlwaysSafe`: `CutsAreSafe`. `ChunkEnd` is the least safe boundary from the
  chunk size on, or the end of the window; that a set of places has a least element
  comes from the well-foundedness of the naturals.
* `OffsetsAreRight`: `OffsetsFollowChunks`, by the additivity of the newlines
  in two adjacent stretches.

The same module has `GitChanges`, for every sequence of hunks with lines of any size and
kind and for all limits (`GitAssumption`: a chunk may hold at least one byte). The
inductive invariant is `GitTypes /\ SizesInv /\ LinesInv`.

* `ChunksStayBounded`: `ChunksAreBounded`. The size of what a builder holds is a sum
  over its lines, and the laws of a sum need induction. `SizeOf` is the size of a set
  instead, with one element for each byte of each line: a line that is appended adds an
interval apart from the rest. `SizesInv`: `currentSize` is that size of the two builders,
  which hold a single line if they are over the limit, and so does every packed chunk;
  builders are packed only when they are not empty.
* `LinesAreEmitted`: `EveryLineIsEmitted`. `LinesInv` has the account: what is packed and
  in the builder of a kind, and later emitted or still packed, is in the order of the
  diff's places (`Arranged`) and consists of exactly the places passed so far that are of
  that kind and not overlong (`Gathered`, `Kept`).
* `FirstContentIsExact`: `FirstContentLinesAreExact`. The first content of a kind has the
  places of that kind from the diff's beginning on, so the number of newlines before a
  finding is the number of such places before it; `GetGitStartAndEndLine` walks the hunks
  with that number and stops in the hunk, and at the line, of that place: where a walk
  stops is unique.

**`SecretProofs`**, for any rules, scores, number of secrets and order of
arrival, and any answers of the services. `EvaluationAssumption` says that each
secret arrives once and that validated and paired rules have scores.

* `ExtrasAreKept`: `ExtrasSurvive`. It is not inductive: it needs `AddsDetails`, that
  only the secret of a validated rule gets to the step that makes the map, and
  `InTurn`, that no later secret has been touched. The one race of the two
  goroutines that remains in the code is harmless because no rule both has extras
  and is validated on the spot.
* `ScoresAreFinal`: `ScoreMatchesFinalStatus`. `StatusIsOfRule` says where a status
  can come from, `PairsAreOfPairs` that collected pairs are of pair rules: their
  validation, which runs after the scores, changes no status.
* `LiveRanksHigher`: `LiveSecretsRankHigher`, from the scores being those of the
  status and `RanksFollowStatus`, a lemma about `GetSeverity` and `GetCvssScore`.

The same module has `Detection` with `RuleSelection`, for any rules and
configurations, texts (with or without carriage returns), paths, orders of the rules, allow lists and limits.
`RulesAssumption`: an ID is of one default and of one special rule, and both have
names; `DetectionAssumption`: rules, lists of the user and texts are what they should
be, and the limits are naturals. The inductive invariant is
`DetectTypes /\ RulesInv /\ FoundInv /\ DetectedInv`.

* `RulesFollowTheConfiguration`: `RulesAreAsAsked`, with `NoRuleIsMissing` for its half
  `AskedRulesRun` (the other one is `OnlyAskedRules`). Both halves go through
  `FilterRules` part by part: what completing an override, selecting, ignoring, and
  adding custom rules leave under an ID and, apart from that, what the special rules and
  the additional ignores do (`OfUser`, `OfSpecial`, `FinalRules` for the first;
  `SelectionIsWhole` and `FinalIsWhole` for the second). The last of the user's rules
  under an ID comes from the greatest element of a finite set of places.
* `ReportsAreRight`: `SecretsAreRight`, which is what the next two say together.
* `PlacesAreRight`: `PositionsAreRight`. `FoundInv`: every finding is `Finding` of a rule
  that runs at one of its matches, and every secret is built from one that was left by
  `filter`. What `location` finds by searching the newlines is shown to be what
  `LineOf` and `ColumnOf` count: newlines and lines are matched one to one
  (`LineExists`, `LineFacts`), and the last newline before an offset is the greatest
  of a finite set.
* `SecretsAreShown`: `SecretIsShown`. `MatchPlace` says where the trimmed match lies in
  the text, `PlaceOnLine` where in the line once the newline at its beginning has been
  taken off, and `WithoutFacts` that the line without its carriage returns still has every
  stretch that has none. `GetLineContent` looks the secret up, and `FirstPlace` says that what is in
  the line has a first place, around which it cuts; the cut keeps the whole secret
  (`ContentFacts`).
* `LossesHaveReasons`: what a rule matches is reported or excluded by the allow lists as
  `convertAllowLists` makes them, without any hypothesis. `DetectedInv`: what the rules that
  have run match and do not exclude has been found; of the generic findings that `filter`
  drops, a specific rule on the same line has the secret (`SameLine`, `PartOf`).
* `MatchesAreReported`: `NothingIsLost`, under the hypothesis `ListsAreApart` that no list
  of a rule gets anything from those before it, as in every rule with one list. Without it
  the property is false: that is the run `allow_lists`.

**`WebToolProofs`**, for any jobs, files, findings, rules, options and number of
readers; `WebToolAssumption` says that there are finitely many servers and what the
sets of files are.

* `OneBestRow`: `BestRowIsShown`, also for several servers. `RowsAreOfFindings` (each
  finding of the report has a row or waits for one) and `BestSoFar` (the property
  for the rows made so far) are inductive together with the types; the cases are a row
  that is suppressed, a duplicate, and a better one that takes the place of the
  one held.
* `MarksAreKept`: `MarksAreAsTold`, for one server. `SavedNow` is the
  strengthening: what is being saved is promised to nobody, and is in memory already,
  so that the write makes the file agree. `MemoryAgrees` and `FileAgrees` then
  survive crashes, restarts and failed saves.
* `MarkedStaysHidden`: `MarkedSecretsAreHidden`, for one server, from the two
  others: what a job must respect are marks a user can still rely on, those are in
  the memory a row is looked up in.

**`LibraryCallsProofs`**, for any number of calls, items and errors and all
capacities (`LibraryAssumption`).

* `TypeCorrect`: the types, and that a collector that receives has an engine.
* `EveryReportIsWhole`: `ReportsAreWhole`. `ItemsAccounted`: what a call's engine has
  scanned, has in its channel and is still to be fed make up the items of the call.
* `EveryErrorReachesItsCall`: `ErrorsReachTheirCall`, stray collectors included.
  `ErrorsInPlace`: an error that left its channel was passed on, or is held, by a
  collector that reads from it, in the order they were sent; `CollectorsInOrder`: a
  collector reads from its own call or, if that was cancelled, from a later one. So what
  a call that was not cancelled returns is its own, and what it does not return is with a
  stray. The hand-overs are lemmas about sequences of consecutive numbers.

**`CommandLineProofs`**, for any number of readers, items and report files, either
kind of plugin, and any errors and interrupts (`CommandLineAssumption`).

* `ReportsAreFinal`: `ReportIsFinal`. `PhasesInOrder`: the main goroutine waits for
  the engine only when all has been read, and shows the report only when the engine is
  done. `ItemsAccounted`: without errors what is scanned, in the channel and unread is
  all there was.
* `ZeroIsFinished`: `ZeroMeansFinished`, from the same invariant. It has to say of the main
  goroutine that is about to exit what it has done, and of an error that it is with its
  reader, in the channel or with the listener; the listener and the interrupt
  never exit with 0 when nothing is ignored.

**`ConfluenceProofs`**, for any site, selection, limits and paging and any edits
(`ConfluenceAssumption`: IDs that do not exist are none of the pages' and spaces',
versions count from one).

* `NoVersionTwice`: `EachVersionOnce`. `OnceInv`: what was emitted is of a page that
  was seen, and of the page whose history is being read the versions still pending
  have not been emitted. `returnedPageIDs` alone would not do: it knows pages, not
  versions.
* `NoPageIsMissed`: `NothingIsMissed`. `CompleteInv`: a page that was seen is complete
  or the one being visited, and a version below the visited one is emitted or pending.
  `CoverInv`: a selected page that was not seen is still ahead, in this walk or a later
  one, for each of the ways to select it.
* `WarningsAreRight`: `WarningIsRight`, from the same two and what is in
  `missingSelectors` at the end: which selectors are named and, with them, that a key
  that was resolved never is.

**`PluginsProofs`**, for any guilds, channels, threads, messages, ages and counts,
any tree of folders and any git log, services that answer with pages of any size or
fail at any request. The assumptions: histories are in order of age, as the services
list them, and a thread hangs on one message (`HistoryAssumption`); a component lies
at one place, and below some root (`FolderAssumption`); no file diff comes twice and
no content is of two (`GitAssumption`); the kinds of items differ (`ItemsAssumption`).

* `GoroutinesAreCounted`: `WaitGroupCounts`. The size of the set of goroutines at work
  is followed through every step. For Discord this needs to know where a channel and
  its thread are (`PlaceInv`): control is with one of them at a time, and a channel
  that has not begun has no thread.
* `NothingElseIsSent`: `OnlyWanted`. `TakenInv`: what was taken of a history are its
  first messages, all within the limits, and once the reader has met one outside all
  that follow are outside. `AllowedInv`: only what was asked for and can be read is
  read. `WalkApart`: what was sent, what is handed over, and what lies below the folders
  still to walk have nothing in common. `LogApart` says the same for the log.
* `NothingElseIsLost`: `AllWanted`. `CompleteInv` says of a reader that has ended that it
  took all it should or that an error was sent, and of the main goroutine that it has
  started every reader before it waits. `WalkComplete`: a component is sent, at hand,
  below a folder still to walk, or below one that failed. `Below` is not recursive: it
  is the smallest set closed under `Children`, which is enough to take a folder off the
  queue and put its children on (`BelowFolder`, `BelowTail`, `BelowAppend`) without
  induction, for trees of any depth. `LogComplete` says the same for the log.

Every invariant a run checks is proved. Only model-checked is liveness, which is beyond
the prover: `ScanCompletes`, `ProcessEnds`, `CallsReturn`, `ScanEnds`, `PluginEnds`,
`JobsEnd`, and of `ImplementsScanReport` the part that the report is published in the
end. What holds of `NothingIsLost` without the hypothesis of `MatchesAreReported` is
`LossesHaveReasons`.

## 5. Plan

1. **Core** (done): the scan pipeline with its abstract specification and the
   first proofs; the chunk reader; the git plugin's chunks and lines; the
   evaluation of secrets.
2. **Drivers** (done): the scanner API over an abstract engine, the command line,
   Confluence, Slack, Discord, Paligo, and git's log.
3. **Web tool** (done): jobs, rows, marks, crashes.
4. **Rules and detector** (done): selection and overrides, filters, positions, the line's cut.
5. **Proofs** (done): every safety property of every module, and the safety of the
   pipeline's refinement.

Worth having next: the pool on its own, as a bounded task queue, with `Stop`; two
calls at once on one scanner; Discord's session with its ready timeout; the plugin of
`CommandLine` as what `Plugins` and `Confluence` implement.

## 6. Not modelled

* **Data**: the patterns of the rules, regular expressions (words stand for them),
  the gates of the web tool (each finding says which it fails).
* **Layout**: the output formats, the links to a hosting service
  (`createScmLink`), `printFinding`, the web tool's pages and export.
* **I/O**: the directory walk, the unpacking of an upload, the clone of a
  repository, git's own output, the logger, flag binding, the choice of the memory
  budget from host and cgroup.
* **Of the detector**, what 2ms never uses: decoding passes (`MaxDecodeDepth` stays
  zero, the loop ends after the first, `engine/detect/detect.go:324`), required rules
  and rules of a path only (`TwomsToGitleaksRule` sets none of the former and always
  sets an expression), baselines, ignore files, `DetectSource`.
* **Of the pool**: `Stop` and its timeout (nothing calls it while a scan runs), the
  recovery of panics.
* **Of the plugins**: Discord's session and its goroutines (ready or not is one
  outcome), the rate limiters' tokens, the pools of buffers.
* **Of the library**: two calls at once on one scanner, which its type does not
  protect.
* **Development tools**: benchmarks, the rule converter, scripts.
