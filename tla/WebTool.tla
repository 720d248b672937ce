------------------------------- MODULE WebTool -------------------------------
(***************************************************************************)
(* The web tool (webtool/): servers on one data directory, their jobs, and *)
(* the file of findings the users marked as false positives.               *)
(*                                                                         *)
(* A job collects files, has the engine scan them, and turns the report    *)
(* into rows: gates suppress what does not look like a secret, the learned *)
(* marks what the user has rejected, and of several rows at one spot the   *)
(* best is shown.  A mark goes to memory and then to the file, which is    *)
(* cut before it is written.  A server may crash at any point and be       *)
(* started again.                                                          *)
(***************************************************************************)
EXTENDS Integers, FiniteSets

CONSTANTS
    Servers, Jobs, None,
    Files,
    InExcludedDir, ExcludedName,    \* files below an excluded directory, with an excluded name
    Unfit,                          \* empty, too large, unreadable or binary files
    Minified,
    Findings,                       \* what the engine would report
    FileOf, LineOf, RuleOf, ValueOf,
    Fails,                          \* Fails[f]: the gates that f fails
    LowRules, AggressiveRules,      \* broad rules; rules only AggressiveRecall has
    Options,                        \* bound: the options each job may be given, records
                                    \* [source, excludes, filters, feedback, aggressive]
    MaxReaders                      \* bound: answers written at a time

ASSUME WebToolAssumption ==
    /\ IsFiniteSet(Servers)
    /\ InExcludedDir \cup ExcludedName \cup Unfit \cup Minified \subseteq Files
    /\ FileOf \in [Findings -> Files]

VARIABLES
    up,             \* the servers that run
    disk,           \* feedback.json: [is |-> "absent", "cut", "broken" or "whole", sigs]
    sigs,           \* FeedbackStore.sigs of each server
    saving,         \* the request whose signature is being saved, under the store's mutex
    job,            \* [server, opts, step, temp, unscored, rows, marked] of each job, or None
    waiting,        \* jobs whose goroutine waits for the server's lock
    reading,        \* answers each server is writing to clients, under the read lock
    told            \* what users were told last of each mark: "marked", "unmarked" or "unsure"

storeVars == <<sigs, saving, disk, told>>
vars == <<up, storeVars, job, waiting, reading>>

NoFile == [is |-> "absent", sigs |-> {}]
Cut == [is |-> "cut", sigs |-> {}]          \* truncated, nothing written yet
Broken == [is |-> "broken", sigs |-> {}]    \* not valid JSON
Whole(set) == [is |-> "whole", sigs |-> set]

Secret(f) == <<RuleOf[f], ValueOf[f]>>
Secrets == {Secret(f) : f \in Findings}

signature(f) == <<RuleOf[f], ValueOf[f]>>

Init ==
    /\ up = {} /\ disk = NoFile
    /\ sigs = [s \in Servers |-> {}] /\ saving = [s \in Servers |-> None]
    /\ job = [j \in Jobs |-> None] /\ waiting = {} /\ reading = [s \in Servers |-> 0]
    /\ told = [x \in Secrets |-> "unmarked"]

JobsOf(s) == {j \in Jobs : job[j] # None /\ job[j].server = s}
Up(j) == job[j] # None /\ job[j].server \in up

\* s.mu.Lock(): no client of this server is being written to
MayLock(s) == reading[s] = 0

-----------------------------------------------------------------------------
(* The process.                                                            *)

\* NewFeedbackStore: a file that is missing is an empty one, one that is not JSON
\* keeps the server from starting
load(s) == disk \notin {Cut, Broken} /\ sigs' = [sigs EXCEPT ![s] = disk.sigs]

\* there is always a free port, also for a second server
Start(s) ==
    /\ s \notin up /\ load(s)
    /\ up' = up \cup {s}
    /\ UNCHANGED <<saving, disk, told, job, waiting, reading>>

\* memory is lost, files are not (nor are directories of uploads and clones)
Crash(s) ==
    /\ s \in up /\ up' = up \ {s}
    /\ job' = [j \in Jobs |-> IF j \in JobsOf(s)
                              THEN None ELSE job[j]]
    /\ waiting' = waiting \ JobsOf(s) /\ reading' = [reading EXCEPT ![s] = 0]
    /\ saving' = [saving EXCEPT ![s] = None]
    /\ UNCHANGED <<sigs, disk, told>>

\* the user removes a file no server starts with
RemoveFile ==
    /\ up = {} /\ disk \in {Cut, Broken} /\ disk' = NoFile
    /\ told' = [x \in Secrets |-> "unsure"]
    /\ UNCHANGED <<up, sigs, saving, job, waiting, reading>>

-----------------------------------------------------------------------------
(* A job.                                                                  *)

\* ingestSource, ingestUpload: a path of the user's, a clone or an unpacked upload.
\* When this fails nothing is left, and there is no job.
Temporary(opts) == opts.source \in {"git", "upload"}

handleScan(s, j, opts) ==
    /\ s \in up /\ job[j] = None /\ MayLock(s)
    /\ job' = [job EXCEPT ![j] = [server |-> s, opts |-> opts, step |-> "queued",
                                  temp |-> Temporary(opts), unscored |-> {}, rows |-> <<>>, marked |-> {}]]
    /\ UNCHANGED <<up, storeVars, waiting, reading>>

At(j, step) == Up(j) /\ job[j].step = step
Goto(j, step) == job' = [job EXCEPT ![j].step = step]

\* s.mu.Lock() is called, and is granted when no client is written to
CallLock(j) ==
    /\ j \notin waiting /\ waiting' = waiting \cup {j}
    /\ \/ \E step \in {"queued", "collect", "scan"} : At(j, step)
       \/ At(j, "build") /\ job[j].unscored = {}
    /\ UNCHANGED <<up, storeVars, job, reading>>

Locked(j) ==
    /\ j \in waiting /\ waiting' = waiting \ {j} /\ MayLock(job[j].server)
    /\ UNCHANGED <<up, storeVars, reading>>

StartCollecting(j) ==
    /\ At(j, "queued") /\ Locked(j) /\ Goto(j, "collect")

\* isExcludedDir, isExcludedFile
ExcludedByPath(opts) == IF opts.excludes THEN InExcludedDir \cup ExcludedName ELSE {}

ExcludedByContent(opts) == Unfit \cup IF opts.excludes THEN Minified ELSE {}

\* unreadable entries are left out: this cannot fail
collectScanItems(opts) == Files \ (ExcludedByPath(opts) \cup ExcludedByContent(opts))

\* the files have been read into memory
StartScanning(j) ==
    /\ At(j, "collect") /\ Locked(j) /\ Goto(j, "scan")

aggressiveRecallRules(opts) == IF opts.aggressive THEN AggressiveRules ELSE {}

runEngine(opts) ==
    {f \in Findings : /\ FileOf[f] \in collectScanItems(opts)
                      /\ RuleOf[f] \in AggressiveRules => RuleOf[f] \in aggressiveRecallRules(opts)}

\* what is marked now and stays so is what the job has to respect
StartBuilding(j) ==
    /\ At(j, "scan") /\ Locked(j)
    /\ job' = [job EXCEPT ![j].step = "build", ![j].unscored = runEngine(job[j].opts),
                          ![j].marked = {x \in Secrets : told[x] = "marked"}]

\* mutant: the error is logged only
EngineFailsSilently(j) ==
    /\ At(j, "scan") /\ Locked(j) /\ job' = [job EXCEPT ![j].temp = FALSE]

EngineFails(j) == At(j, "scan") /\ Locked(j) /\ Goto(j, "error")

AnyRuleGates == {"placeholder", "template", "marker without key"}
KeywordGates == {"version", "uuid", "identifier", "whitespace", "comment", "word", "entropy"}

\* scoreFinding
Suppresses(f) ==
    Fails[f] \cap (AnyRuleGates \cup (IF RuleOf[f] \in LowRules THEN KeywordGates ELSE {})) # {}

Confidence(opts, f) ==
    IF ~opts.filters THEN "high"
    ELSE IF Suppresses(f) THEN "low"
    ELSE IF RuleOf[f] \in LowRules THEN "medium" ELSE "high"

confRank(c) == CASE c = "high" -> 0 [] c = "medium" -> 1 [] OTHER -> 2

Rank(j, f) == confRank(Confidence(job[j].opts, f))

SameSpot(f, g) ==
    ValueOf[f] = ValueOf[g] /\ FileOf[f] = FileOf[g] /\ LineOf[f] = LineOf[g]

\* what is kept for the spot of f
Kept(j, f) == {g \in DOMAIN job[j].rows : SameSpot(f, g) /\ job[j].rows[g] = "shown"}

\* mutant: the marks are looked up with the filters only
ContainsIfFiltered(j, f) ==
    job[j].opts.filters /\ job[j].opts.feedback /\ signature(f) \in sigs[job[j].server]

Contains(j, f) == job[j].opts.feedback /\ signature(f) \in sigs[job[j].server]

AddRow(j, f, new) ==
    job' = [job EXCEPT ![j].unscored = @ \ {f},
                       ![j].rows = [g \in {f} \cup DOMAIN @ |->
                                        IF g \in DOMAIN new THEN new[g] ELSE @[g]]]

Row(f, what) == [g \in {f} |-> what]

\* the map of results is walked in any order
Scores(j, f) ==
    /\ At(j, "build") /\ f \in job[j].unscored
    /\ job[j].opts.feedback => saving[job[j].server] = None     \* the store's read lock
    /\ UNCHANGED <<up, storeVars, waiting, reading>>

AddSuppressed(j, f) ==
    /\ Scores(j, f)
    /\ \/ Contains(j, f) /\ AddRow(j, f, Row(f, "learned"))
       \/ /\ ~Contains(j, f) /\ job[j].opts.filters /\ Suppresses(f)
          /\ AddRow(j, f, Row(f, "filtered"))

Shows(j, f) == Scores(j, f) /\ ~Contains(j, f) /\ ~(job[j].opts.filters /\ Suppresses(f))

\* mutant: the row held before stays shown
ShowBesides(j, f) ==
    /\ Shows(j, f) /\ \A g \in Kept(j, f) : Rank(j, f) < Rank(j, g)
    /\ AddRow(j, f, Row(f, "shown"))

\* the first at its spot, or better than the one held, which becomes a duplicate
ShowRow(j, f) ==
    /\ Shows(j, f) /\ \A g \in Kept(j, f) : Rank(j, f) < Rank(j, g)
    /\ AddRow(j, f, [g \in {f} \cup Kept(j, f) |-> IF g = f THEN "shown" ELSE "duplicate"])

AddDuplicate(j, f) ==
    /\ Shows(j, f) /\ \E g \in Kept(j, f) : Rank(j, f) >= Rank(j, g)
    /\ AddRow(j, f, Row(f, "duplicate"))

Finish(j) ==
    /\ At(j, "build") /\ job[j].unscored = {} /\ Locked(j)
    /\ job' = [job EXCEPT ![j].step = "done", ![j].marked = {}]

\* defer cleanup()
CleanUp(j) ==
    /\ At(j, "done") \/ At(j, "error")
    /\ job[j].temp /\ job' = [job EXCEPT ![j].temp = FALSE]
    /\ UNCHANGED <<up, storeVars, waiting, reading>>

-----------------------------------------------------------------------------
(* The clients.                                                            *)

\* The answer is written under the read lock, as fast as the client reads.  A
\* waiting writer keeps new readers out.
handleJob(j) ==
    LET s == job[j].server
    IN  /\ Up(j) /\ JobsOf(s) \cap waiting = {} /\ reading[s] < MaxReaders
        /\ reading' = [reading EXCEPT ![s] = @ + 1]
        /\ UNCHANGED <<up, storeVars, job, waiting>>

Answered(s) ==
    /\ reading[s] > 0 /\ reading' = [reading EXCEPT ![s] = @ - 1]
    /\ UNCHANGED <<up, storeVars, job, waiting>>

\* handleFeedback and handleExport: the rows, once the job has a result
Result(j) == IF At(j, "done") THEN DOMAIN job[j].rows ELSE {}

\* Add, Remove: memory first; from now on nobody can rely on the mark
handleFeedback(j, f, undo) ==
    LET s == job[j].server
    IN  /\ f \in Result(j) /\ saving[s] = None
        /\ sigs' = [sigs EXCEPT ![s] = IF undo THEN @ \ {signature(f)} ELSE @ \cup {signature(f)}]
        /\ saving' = [saving EXCEPT ![s] = [secret |-> Secret(f), undo |-> undo, cut |-> FALSE]]
        /\ told' = [told EXCEPT ![Secret(f)] = "unsure"]
        /\ job' = [k \in Jobs |-> IF job[k] = None THEN None
                                  ELSE [job[k] EXCEPT !.marked = @ \ {Secret(f)}]]
        /\ UNCHANGED <<up, disk, waiting, reading>>

\* os.WriteFile: open with O_TRUNC, then write
CutFile(s) ==
    /\ saving[s] # None /\ ~saving[s].cut
    /\ saving' = [saving EXCEPT ![s].cut = TRUE] /\ disk' = Cut
    /\ UNCHANGED <<up, sigs, told, job, waiting, reading>>

Answer(s, what) ==
    /\ told' = [told EXCEPT ![saving[s].secret] = what]
    /\ saving' = [saving EXCEPT ![s] = None]
    /\ UNCHANGED <<up, sigs, job, waiting, reading>>

\* mutant: what was loaded at the start is never written again
WriteNewOnly(s) ==
    /\ saving[s] # None /\ saving[s].cut
    /\ disk' = Whole(IF saving[s].undo THEN {} ELSE {saving[s].secret})
    /\ Answer(s, IF saving[s].undo THEN "unmarked" ELSE "marked")

\* over what another server has written since the cut; signatures are equally long
WriteFile(s) ==
    /\ saving[s] # None /\ saving[s].cut
    /\ disk' = IF disk # Broken /\ Cardinality(sigs[s]) >= Cardinality(disk.sigs)
               THEN Whole(sigs[s]) ELSE Broken
    /\ Answer(s, IF saving[s].undo THEN "unmarked" ELSE "marked")

\* the answer is an error, and memory keeps the change
SaveFails(s) ==
    /\ saving[s] # None
    /\ disk' = IF saving[s].cut THEN Broken ELSE disk
    /\ Answer(s, "unsure")

-----------------------------------------------------------------------------
JobStep(j) ==
    \/ CallLock(j) \/ StartCollecting(j) \/ StartScanning(j)
    \/ StartBuilding(j) \/ EngineFails(j) \/ Finish(j) \/ CleanUp(j)

AddRows(j) == \E f \in Findings : AddSuppressed(j, f) \/ ShowRow(j, f) \/ AddDuplicate(j, f)

Save(s) == CutFile(s) \/ WriteFile(s) \/ SaveFails(s)

Process(s) == Start(s) \/ Crash(s) \/ \E j \in Jobs : \E opts \in Options[j] : handleScan(s, j, opts)

Client(j) ==
    handleJob(j) \/ \E f \in Findings, undo \in BOOLEAN : handleFeedback(j, f, undo)

Next ==
    \/ RemoveFile
    \/ \E s \in Servers : Process(s) \/ Save(s) \/ Answered(s)
    \/ \E j \in Jobs : JobStep(j) \/ AddRows(j) \/ Client(j)

\* Every goroutine runs.  A job gets at the marks between two saves: a reader that
\* waits goes before the next writer.  A client may stop reading its answer: the
\* server limits only the time for a request's header (ReadHeaderTimeout).
Fairness ==
    /\ \A j \in Jobs : WF_vars(JobStep(j)) /\ SF_vars(AddRows(j))
    /\ \A s \in Servers : WF_vars(Save(s))

Spec == Init /\ [][Next]_vars /\ Fairness

-----------------------------------------------------------------------------
Built(j) == job[j] # None /\ job[j].step = "build" /\ job[j].unscored = {}
ShownRows(j) == {f \in DOMAIN job[j].rows : job[j].rows[f] = "shown"}

\* Of the findings at one spot that are neither filtered nor learned exactly one
\* is shown, one of the best, in whatever order the report was walked; and every
\* finding has its row (buildResult).
BestRowIsShown ==
    \A j \in Jobs : Built(j) =>
        /\ DOMAIN job[j].rows = runEngine(job[j].opts)
        /\ \A f \in DOMAIN job[j].rows : job[j].rows[f] \in {"shown", "duplicate"} =>
              \E g \in ShownRows(j) :
                  /\ SameSpot(f, g) /\ Rank(j, g) <= Rank(j, f)
                  /\ \A h \in ShownRows(j) : SameSpot(f, h) => h = g

\* A secret that was marked before the rows were built and has stayed so is not
\* shown, wherever it is found (signature, FeedbackStore.Contains).
MarkedSecretsAreHidden ==
    Cardinality(Servers) = 1 => \A j \in Jobs : Built(j) /\ job[j].opts.feedback =>
        \A f \in ShownRows(j) : Secret(f) \notin job[j].marked

\* What a user was told of a mark is what holds: in memory while no request is
\* being saved, and in the file unless a failed or interrupted save has damaged
\* it, also after a restart.  For a server that has its data directory for itself.
MarksAreAsTold ==
    Cardinality(Servers) = 1 =>
        \A x \in Secrets :
            /\ \A s \in up : saving[s] = None =>
                  (told[x] = "marked" => x \in sigs[s]) /\ (told[x] = "unmarked" => x \notin sigs[s])
            /\ disk.is = "whole" /\ (\A s \in Servers : saving[s] = None) =>
                  (told[x] = "marked" => x \in disk.sigs) /\ (told[x] = "unmarked" => x \notin disk.sigs)

Ended(j) == job[j] = None \/ (job[j].step \in {"done", "error"} /\ ~job[j].temp)

\* a client of the job's server is being written to
HeldUp(j) == job[j] # None /\ reading[job[j].server] > 0

\* A job that was accepted ends, with a result or an error and its directory
\* removed, or is lost with its server - unless from some time on the server is always
\* writing to a client: one that stops reading keeps the lock for good (runScan;
\* handleJob writes under the read lock, without a time limit).
JobsEnd == \A j \in Jobs : job[j] # None ~> (Ended(j) \/ []HeldUp(j))
=============================================================================
