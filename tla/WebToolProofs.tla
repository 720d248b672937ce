---------------------------- MODULE WebToolProofs ----------------------------
(* Proofs about WebTool, for all jobs, files, findings and options.        *)
EXTENDS WebTool, FiniteSetTheorems, TLAPS

Steps == {"queued", "collect", "scan", "build", "done", "error"}
Rows == UNION {[D -> {"learned", "filtered", "shown", "duplicate"}] : D \in SUBSET Findings}
JobRecords == [server : Servers, opts : UNION {Options[j] : j \in Jobs}, step : Steps,
               temp : BOOLEAN, unscored : SUBSET Findings, rows : Rows, marked : SUBSET Secrets]

\* A job is a record while its server runs.
JobTypes == job \in [Jobs -> JobRecords \cup {None}]
JobsHaveServers == \A j \in Jobs : job[j] # None => job[j].server \in up

\* A job is a record again after each change of it.
LEMMA JobUpdates ==
    ASSUME NEW r \in JobRecords
    PROVE  /\ \A step \in Steps : [r EXCEPT !.step = step] \in JobRecords
           /\ \A set \in SUBSET Secrets : [r EXCEPT !.marked = set] \in JobRecords
           /\ [r EXCEPT !.temp = FALSE] \in JobRecords
           /\ \A step \in Steps, set \in SUBSET Findings, marks \in SUBSET Secrets :
                 [r EXCEPT !.step = step, !.unscored = set, !.marked = marks] \in JobRecords
           /\ \A set \in SUBSET Findings, rows \in Rows :
                 [r EXCEPT !.unscored = set, !.rows = rows] \in JobRecords
  BY DEF JobRecords

\* The rows with f, whatever becomes of the ones in new.
LEMMA RowUpdates ==
    ASSUME NEW rows \in Rows, NEW f \in Findings, NEW new,
           \A g \in DOMAIN new : new[g] \in {"learned", "filtered", "shown", "duplicate"},
           f \in DOMAIN new
    PROVE  [g \in {f} \cup DOMAIN rows |-> IF g \in DOMAIN new THEN new[g] ELSE rows[g]] \in Rows
  <1>1. PICK D \in SUBSET Findings : rows \in [D -> {"learned", "filtered", "shown", "duplicate"}]
    BY DEF Rows
  <1>2. [g \in {f} \cup DOMAIN rows |-> IF g \in DOMAIN new THEN new[g] ELSE rows[g]]
            \in [{f} \cup D -> {"learned", "filtered", "shown", "duplicate"}]
    BY <1>1
  <1> QED
    BY <1>2 DEF Rows

LEMMA NoRows == <<>> \in Rows
  <1>1. <<>> \in [{} -> {"learned", "filtered", "shown", "duplicate"}]
    OBVIOUS
  <1> QED
    BY <1>1 DEF Rows

-----------------------------------------------------------------------------
(* Jobs and their rows.                                                    *)

\* No row is made before all findings are there; then each finding has a row or
\* waits for one.
RowsAreOfFindings ==
    \A j \in Jobs : job[j] # None =>
        /\ job[j].step \in {"queued", "collect", "scan"} => job[j].rows = <<>>
        /\ job[j].step = "build" =>
               /\ job[j].unscored \subseteq runEngine(job[j].opts)
               /\ DOMAIN job[j].rows = runEngine(job[j].opts) \ job[j].unscored

\* what is shown of two findings of one spot
BestSoFar ==
    \A j \in Jobs : job[j] # None =>
        \A f \in DOMAIN job[j].rows : job[j].rows[f] \in {"shown", "duplicate"} =>
            \E g \in ShownRows(j) :
                /\ SameSpot(f, g) /\ Rank(j, g) <= Rank(j, f)
                /\ \A h \in ShownRows(j) : SameSpot(f, h) => h = g

RowInv == JobTypes /\ JobsHaveServers /\ RowsAreOfFindings /\ BestSoFar

LEMMA RowInit == Init => RowInv
  BY DEF Init, RowInv, JobTypes, JobsHaveServers, RowsAreOfFindings, BestSoFar

LEMMA RanksAreNumbers == \A j \in Jobs, f \in Findings : Rank(j, f) \in 0..2
  BY DEF Rank, confRank

\* What a step must do to the other jobs, and to its own: leave the rows alone.
LEMMA RowsLeftAlone ==
  ASSUME RowInv, JobTypes', JobsHaveServers',
         \A j \in Jobs : job'[j] # None =>
             \/ /\ job[j] # None /\ job'[j].opts = job[j].opts /\ job'[j].rows = job[j].rows
                /\ \/ job'[j].step = job[j].step /\ job'[j].unscored = job[j].unscored
                   \/ job'[j].step \notin {"queued", "collect", "scan", "build"}
                   \/ /\ job[j].step \in {"queued", "collect", "scan"}
                      /\ job'[j].step \in {"collect", "scan"}
                   \/ /\ job[j].step \in {"queued", "collect", "scan"}
                      /\ job'[j].step = "build"
                      /\ job'[j].unscored = runEngine(job'[j].opts)
             \/ job'[j].rows = <<>> /\ job'[j].step = "queued"
  PROVE  RowInv'
  <1>1. RowsAreOfFindings'
    <2> SUFFICES ASSUME NEW j \in Jobs, job'[j] # None
                 PROVE  /\ job'[j].step \in {"queued", "collect", "scan"} => job'[j].rows = <<>>
                        /\ job'[j].step = "build" =>
                               /\ job'[j].unscored \subseteq runEngine(job'[j].opts)
                               /\ DOMAIN job'[j].rows = runEngine(job'[j].opts) \ job'[j].unscored
      BY DEF RowsAreOfFindings, runEngine, collectScanItems, ExcludedByPath, ExcludedByContent,
             aggressiveRecallRules
    <2>1. DOMAIN <<>> = {}
      OBVIOUS
    <2> QED
      BY <2>1 DEF RowInv, RowsAreOfFindings
  <1>2. BestSoFar'
    <2> SUFFICES ASSUME NEW j \in Jobs, job'[j] # None, NEW f \in DOMAIN job'[j].rows,
                        job'[j].rows[f] \in {"shown", "duplicate"}
                 PROVE  \E g \in ShownRows(j)' :
                            /\ SameSpot(f, g) /\ Rank(j, g)' <= Rank(j, f)'
                            /\ \A h \in ShownRows(j)' : SameSpot(f, h) => h = g
      BY DEF BestSoFar, SameSpot
    <2>1. job[j] # None /\ job'[j].opts = job[j].opts /\ job'[j].rows = job[j].rows
      OBVIOUS
    <2>2. ShownRows(j)' = ShownRows(j) /\ \A g : Rank(j, g)' = Rank(j, g)
      BY <2>1 DEF ShownRows, Rank, Confidence, Suppresses
    <2> QED
      BY <2>1, <2>2 DEF RowInv, BestSoFar
  <1> QED
    BY <1>1, <1>2 DEF RowInv
\* The same for a step that changes one job.
LEMMA OneJobsRowsLeftAlone ==
    ASSUME RowInv, NEW j \in Jobs, At(j, job[j].step), up' = up,
           NEW r \in JobRecords, job' = [job EXCEPT ![j] = r],
           r.server = job[j].server, r.opts = job[j].opts, r.rows = job[j].rows,
           \/ r.step = job[j].step /\ r.unscored = job[j].unscored
           \/ r.step \in {"done", "error"}
           \/ /\ job[j].step \in {"queued", "collect", "scan"}
              /\ \/ r.step \in {"collect", "scan"}
                 \/ r.step = "build" /\ r.unscored = runEngine(r.opts)
    PROVE  RowInv'
  <1>1. JobTypes'
    BY DEF RowInv, JobTypes
  <1>2. JobsHaveServers'
    BY DEF RowInv, JobTypes, JobsHaveServers, At, Up
  <1>3. job[j] # None /\ job'[j] = r /\ \A k \in Jobs \ {j} : job'[k] = job[k]
    BY DEF RowInv, JobTypes, At, Up
  <1> QED
    BY <1>1, <1>2, <1>3, RowsLeftAlone

LEMMA RowsOfOtherSteps ==
    ASSUME RowInv, [Next]_vars, ~ \E j \in Jobs : AddRows(j)
    PROVE  RowInv'
  <1> USE DEF RowInv
  <1>1. ASSUME job' = job, \A j \in Jobs : job[j] # None => job[j].server \in up'
        PROVE  RowInv'
    <2>1. JobTypes' /\ JobsHaveServers'
      BY <1>1 DEF JobTypes, JobsHaveServers
    <2> QED
      BY <1>1, <2>1, RowsLeftAlone
  <1>2. ASSUME NEW s \in Servers, Crash(s)
        PROVE  RowInv'
    <2>1. JobTypes' /\ JobsHaveServers'
      BY <1>2 DEF Crash, JobTypes, JobsHaveServers, JobsOf
    <2>2. \A j \in Jobs : job'[j] # None => job'[j] = job[j]
      BY <1>2 DEF Crash
    <2> QED
      BY <2>1, <2>2, RowsLeftAlone
  <1>3. ASSUME NEW s \in Servers, NEW j \in Jobs, NEW opts \in Options[j], handleScan(s, j, opts)
        PROVE  RowInv'
    <2> DEFINE r == [server |-> s, opts |-> opts, step |-> "queued", temp |-> Temporary(opts),
                     unscored |-> {}, rows |-> <<>>, marked |-> {}]
    <2>1. r \in JobRecords
      BY NoRows DEF JobRecords, Steps, Temporary
    <2>2. job' = [job EXCEPT ![j] = r] /\ up' = up /\ s \in up
      BY <1>3 DEF handleScan
    <2>3. r.server = s /\ r.rows = <<>> /\ r.step = "queued"
      OBVIOUS
    <2> HIDE DEF r
    <2>4. JobTypes' /\ JobsHaveServers'
      BY <2>1, <2>2, <2>3 DEF JobTypes, JobsHaveServers
    <2>5. job'[j] = r /\ \A k \in Jobs \ {j} : job'[k] = job[k]
      BY <2>2 DEF JobTypes
    <2> QED
      BY <2>3, <2>4, <2>5, RowsLeftAlone
  <1>4. ASSUME NEW j \in Jobs, NEW step \in {"collect", "scan"}, Goto(j, step), up' = up,
               At(j, "queued") \/ At(j, "collect")
        PROVE  RowInv'
    <2>1. PICK r \in JobRecords : r = job[j]
      BY <1>4 DEF JobTypes, At, Up
    <2> DEFINE q == [r EXCEPT !.step = step]
    <2>2. q \in JobRecords
      BY JobUpdates DEF Steps
    <2>3. job' = [job EXCEPT ![j] = q]
      BY <1>4, <2>1 DEF Goto
    <2>4. q.server = r.server /\ q.opts = r.opts /\ q.rows = r.rows /\ q.step = step
      BY DEF JobRecords
    <2> HIDE DEF q
    <2> QED
      BY <1>4, <2>1, <2>2, <2>3, <2>4, OneJobsRowsLeftAlone DEF At
  <1>5. ASSUME NEW j \in Jobs, StartBuilding(j)
        PROVE  RowInv'
    <2>1. PICK r \in JobRecords : r = job[j]
      BY <1>5 DEF JobTypes, StartBuilding, At, Up
    <2> DEFINE q == [r EXCEPT !.step = "build", !.unscored = runEngine(r.opts),
                              !.marked = {x \in Secrets : told[x] = "marked"}]
    <2>2. q \in JobRecords
      BY JobUpdates DEF Steps, runEngine
    <2>3. job' = [job EXCEPT ![j] = q] /\ up' = up
      BY <1>5, <2>1 DEF StartBuilding, Locked
    <2>4. /\ q.server = r.server /\ q.opts = r.opts /\ q.rows = r.rows /\ q.step = "build"
          /\ q.unscored = runEngine(r.opts)
      BY DEF JobRecords
    <2> HIDE DEF q
    <2> QED
      BY <1>5, <2>1, <2>2, <2>3, <2>4, OneJobsRowsLeftAlone DEF StartBuilding, At
  <1>6. ASSUME NEW j \in Jobs, EngineFails(j)
        PROVE  RowInv'
    <2>1. PICK r \in JobRecords : r = job[j]
      BY <1>6 DEF JobTypes, EngineFails, At, Up
    <2> DEFINE q == [r EXCEPT !.step = "error"]
    <2>2. q \in JobRecords
      BY JobUpdates DEF Steps
    <2>3. job' = [job EXCEPT ![j] = q] /\ up' = up
      BY <1>6, <2>1 DEF EngineFails, Goto, Locked
    <2>4. q.server = r.server /\ q.opts = r.opts /\ q.rows = r.rows /\ q.step = "error"
      BY DEF JobRecords
    <2> HIDE DEF q
    <2> QED
      BY <1>6, <2>1, <2>2, <2>3, <2>4, OneJobsRowsLeftAlone DEF EngineFails, At
  <1>7. ASSUME NEW j \in Jobs, Finish(j)
        PROVE  RowInv'
    <2>1. PICK r \in JobRecords : r = job[j]
      BY <1>7 DEF JobTypes, Finish, At, Up
    <2> DEFINE q == [r EXCEPT !.step = "done", !.marked = {}]
    <2>2. q \in JobRecords
      BY DEF JobRecords, Steps
    <2>3. job' = [job EXCEPT ![j] = q] /\ up' = up
      BY <1>7, <2>1 DEF Finish, Locked
    <2>4. q.server = r.server /\ q.opts = r.opts /\ q.rows = r.rows /\ q.step = "done"
      BY DEF JobRecords
    <2> HIDE DEF q
    <2> QED
      BY <1>7, <2>1, <2>2, <2>3, <2>4, OneJobsRowsLeftAlone DEF Finish, At
  <1>8. ASSUME NEW j \in Jobs, CleanUp(j)
        PROVE  RowInv'
    <2>1. PICK r \in JobRecords : r = job[j]
      BY <1>8 DEF JobTypes, CleanUp, At, Up
    <2> DEFINE q == [r EXCEPT !.temp = FALSE]
    <2>2. q \in JobRecords
      BY JobUpdates
    <2>3. job' = [job EXCEPT ![j] = q] /\ up' = up
      BY <1>8, <2>1 DEF CleanUp
    <2>4. /\ q.server = r.server /\ q.opts = r.opts /\ q.rows = r.rows /\ q.step = r.step
          /\ q.unscored = r.unscored
      BY DEF JobRecords
    <2> HIDE DEF q
    <2> QED
      BY <1>8, <2>1, <2>2, <2>3, <2>4, OneJobsRowsLeftAlone DEF CleanUp, At
  <1>9. ASSUME NEW j \in Jobs, NEW f \in Findings, NEW undo \in BOOLEAN, handleFeedback(j, f, undo)
        PROVE  RowInv'
    <2>1. ASSUME NEW k \in Jobs, job'[k] # None
          PROVE  /\ job[k] # None /\ job'[k] \in JobRecords
                 /\ job'[k].server = job[k].server /\ job'[k].opts = job[k].opts
                 /\ job'[k].rows = job[k].rows /\ job'[k].step = job[k].step
                 /\ job'[k].unscored = job[k].unscored
      <3>1. job'[k] = IF job[k] = None THEN None
                      ELSE [job[k] EXCEPT !.marked = job[k].marked \ {Secret(f)}]
        BY <1>9 DEF handleFeedback
      <3>2. PICK r \in JobRecords : r = job[k]
        BY <2>1, <3>1 DEF JobTypes
      <3>3. job'[k] = [r EXCEPT !.marked = r.marked \ {Secret(f)}]
        BY <2>1, <3>1, <3>2
      <3>4. r.marked \ {Secret(f)} \in SUBSET Secrets
        BY DEF JobRecords
      <3>5. job'[k] \in JobRecords
        BY <3>3, <3>4, JobUpdates
      <3>6. /\ job'[k].server = r.server /\ job'[k].opts = r.opts /\ job'[k].rows = r.rows
            /\ job'[k].step = r.step /\ job'[k].unscored = r.unscored
        BY <3>3 DEF JobRecords
      <3> QED
        BY <2>1, <3>1, <3>2, <3>5, <3>6
    <2>2. JobTypes' /\ JobsHaveServers'
      <3>1. job' = [k \in Jobs |-> job'[k]] /\ up' = up
        BY <1>9 DEF handleFeedback
      <3> QED
        BY <2>1, <3>1 DEF JobTypes, JobsHaveServers
    <2> QED
      BY <2>1, <2>2, RowsLeftAlone
  <1>10. CASE UNCHANGED vars
    BY <1>1, <1>10 DEF vars, JobsHaveServers
  <1>11. CASE RemoveFile
    BY <1>1, <1>11 DEF RemoveFile, JobsHaveServers
  <1>12. ASSUME NEW s \in Servers, Start(s) \/ Save(s) \/ Answered(s)
         PROVE  RowInv'
    BY <1>1, <1>12 DEF Start, Save, CutFile, WriteFile, SaveFails, Answer, Answered, JobsHaveServers
  <1>13. ASSUME NEW j \in Jobs, CallLock(j) \/ handleJob(j)
         PROVE  RowInv'
    BY <1>1, <1>13 DEF CallLock, handleJob, JobsHaveServers
  <1>14. ASSUME NEW j \in Jobs, StartCollecting(j) \/ StartScanning(j)
         PROVE  RowInv'
    BY <1>4, <1>14 DEF StartCollecting, StartScanning, Locked
  <1> QED
    BY <1>2, <1>3, <1>5, <1>6, <1>7, <1>8, <1>9, <1>10, <1>11, <1>12, <1>13, <1>14
       DEF Next, Process, JobStep, Client

\* A row is added: each finding still has its row or waits for one.
LEMMA AddedRow ==
    ASSUME RowInv, NEW j \in Jobs, NEW f \in Findings, Scores(j, f), NEW new, AddRow(j, f, new),
           f \in DOMAIN new, DOMAIN new \subseteq {f} \cup DOMAIN job[j].rows,
           \A g \in DOMAIN new : new[g] \in {"learned", "filtered", "shown", "duplicate"}
    PROVE  /\ JobTypes' /\ JobsHaveServers' /\ RowsAreOfFindings'
           /\ job[j] # None /\ f \notin DOMAIN job[j].rows
           /\ \A k \in Jobs \ {j} : job'[k] = job[k]
           /\ job'[j] \in JobRecords /\ job'[j].opts = job[j].opts
           /\ job'[j].server = job[j].server /\ job'[j].marked = job[j].marked
           /\ job'[j].step = "build"
           /\ job'[j].rows = [g \in {f} \cup DOMAIN job[j].rows |->
                                  IF g \in DOMAIN new THEN new[g] ELSE job[j].rows[g]]
  <1>1. PICK r \in JobRecords : r = job[j]
    BY DEF RowInv, JobTypes, Scores, At, Up
  <1>2. f \in r.unscored /\ r.step = "build" /\ up' = up /\ job[j] # None
    BY <1>1 DEF Scores, At, Up
  <1> DEFINE rows == [g \in {f} \cup DOMAIN r.rows |->
                          IF g \in DOMAIN new THEN new[g] ELSE r.rows[g]]
             q == [r EXCEPT !.unscored = r.unscored \ {f}, !.rows = rows]
  <1>3. r.rows \in Rows /\ r.unscored \in SUBSET Findings
    BY DEF JobRecords
  <1>4. rows \in Rows
    BY <1>3, RowUpdates
  <1>5. job' = [job EXCEPT ![j] = q]
    BY <1>1 DEF AddRow
  <1> DOMAIN rows = {f} \cup DOMAIN r.rows
    OBVIOUS
  <1> HIDE DEF rows
  <1>6. q \in JobRecords
    BY <1>3, <1>4, JobUpdates
  <1>7. /\ q.server = r.server /\ q.opts = r.opts /\ q.step = r.step /\ q.marked = r.marked
        /\ q.rows = rows /\ q.unscored = r.unscored \ {f}
    BY DEF JobRecords
  <1> HIDE DEF q
  <1>8. job'[j] = q /\ \A k \in Jobs \ {j} : job'[k] = job[k]
    BY <1>5 DEF RowInv, JobTypes
  <1>9. JobTypes'
    BY <1>5, <1>6 DEF RowInv, JobTypes
  <1>10. JobsHaveServers'
    BY <1>1, <1>2, <1>7, <1>8 DEF RowInv, JobsHaveServers
  <1>11. DOMAIN r.rows = runEngine(r.opts) \ r.unscored
    BY <1>1, <1>2 DEF RowInv, RowsAreOfFindings
  <1>12. f \in runEngine(r.opts) => RowsAreOfFindings'
    <2> SUFFICES ASSUME f \in runEngine(r.opts), NEW k \in Jobs, job'[k] # None
                 PROVE  /\ job'[k].step \in {"queued", "collect", "scan"} => job'[k].rows = <<>>
                        /\ job'[k].step = "build" =>
                               /\ job'[k].unscored \subseteq runEngine(job'[k].opts)
                               /\ DOMAIN job'[k].rows = runEngine(job'[k].opts) \ job'[k].unscored
      BY DEF RowsAreOfFindings, runEngine, collectScanItems, ExcludedByPath, ExcludedByContent,
             aggressiveRecallRules
    <2>1. CASE k = j
      <3>1. /\ DOMAIN q.rows = {f} \cup DOMAIN r.rows /\ q.opts = r.opts /\ q.step = "build"
            /\ q.unscored = r.unscored \ {f}
        BY <1>2, <1>7
      <3>2. r.unscored \subseteq runEngine(r.opts)
        BY <1>1, <1>2 DEF RowInv, RowsAreOfFindings
      <3>3. /\ r.unscored \ {f} \subseteq runEngine(r.opts)
            /\ {f} \cup DOMAIN r.rows = runEngine(r.opts) \ (r.unscored \ {f})
        BY <1>11, <3>2
      <3> QED
        BY <2>1, <1>8, <3>1, <3>3
    <2>2. CASE k # j
      BY <2>2, <1>8 DEF RowInv, RowsAreOfFindings
    <2> QED
      BY <2>1, <2>2
  <1>13. f \in runEngine(r.opts)
    BY <1>1, <1>2 DEF RowInv, RowsAreOfFindings
  <1> QED
    BY <1>1, <1>2, <1>6, <1>7, <1>8, <1>9, <1>10, <1>11, <1>12, <1>13 DEF rows

\* It is enough to look at the job that gets the row.
LEMMA BestOfOneJob ==
    ASSUME RowInv, NEW j \in Jobs, \A k \in Jobs \ {j} : job'[k] = job[k],
           \A f \in DOMAIN job'[j].rows : job'[j].rows[f] \in {"shown", "duplicate"} =>
               \E g \in ShownRows(j)' :
                   /\ SameSpot(f, g) /\ Rank(j, g)' <= Rank(j, f)'
                   /\ \A h \in ShownRows(j)' : SameSpot(f, h) => h = g
    PROVE  BestSoFar'
  <1> SUFFICES ASSUME NEW k \in Jobs \ {j}, job'[k] # None, NEW f \in DOMAIN job'[k].rows,
                      job'[k].rows[f] \in {"shown", "duplicate"}
               PROVE  \E g \in ShownRows(k)' :
                          /\ SameSpot(f, g) /\ Rank(k, g)' <= Rank(k, f)'
                          /\ \A h \in ShownRows(k)' : SameSpot(f, h) => h = g
    BY DEF BestSoFar, SameSpot
  <1>1. ShownRows(k)' = ShownRows(k) /\ \A g : Rank(k, g)' = Rank(k, g)
    BY DEF ShownRows, Rank, Confidence, Suppresses
  <1> QED
    BY <1>1 DEF RowInv, BestSoFar

LEMMA RowsOfAddedRows ==
    ASSUME RowInv, NEW j \in Jobs, AddRows(j)
    PROVE  RowInv'
  <1>1. PICK f \in Findings : AddSuppressed(j, f) \/ ShowRow(j, f) \/ AddDuplicate(j, f)
    BY DEF AddRows
  <1> DEFINE Best(e) == \E g \in ShownRows(j)' :
                            /\ SameSpot(e, g) /\ Rank(j, g)' <= Rank(j, e)'
                            /\ \A h \in ShownRows(j)' : SameSpot(e, h) => h = g
             Before(e) == \E g \in ShownRows(j) :
                              /\ SameSpot(e, g) /\ Rank(j, g) <= Rank(j, e)
                              /\ \A h \in ShownRows(j) : SameSpot(e, h) => h = g
  <1>2. CASE AddSuppressed(j, f)
    <2>1. PICK what \in {"learned", "filtered"} : AddRow(j, f, Row(f, what))
      BY <1>2 DEF AddSuppressed
    <2>2. Scores(j, f)
      BY <1>2 DEF AddSuppressed
    <2>3. /\ JobTypes' /\ JobsHaveServers' /\ RowsAreOfFindings'
          /\ job[j] # None /\ f \notin DOMAIN job[j].rows
          /\ \A k \in Jobs \ {j} : job'[k] = job[k]
          /\ job'[j].opts = job[j].opts
          /\ job'[j].rows = [g \in {f} \cup DOMAIN job[j].rows |->
                                 IF g \in {f} THEN what ELSE job[j].rows[g]]
      BY <2>1, <2>2, AddedRow DEF Row
    <2>4. ShownRows(j)' = ShownRows(j)
      BY <2>3 DEF ShownRows
    <2>5. \A g : Rank(j, g)' = Rank(j, g)
      BY <2>3 DEF Rank, Confidence, Suppresses
    <2>6. ASSUME NEW e \in DOMAIN job'[j].rows, job'[j].rows[e] \in {"shown", "duplicate"}
          PROVE  Best(e)
      <3>1. e \in DOMAIN job[j].rows /\ job[j].rows[e] \in {"shown", "duplicate"}
        BY <2>3, <2>6
      <3>2. Before(e)
        BY <2>3, <3>1 DEF RowInv, BestSoFar
      <3> QED
        BY <2>4, <2>5, <3>2 DEF SameSpot
    <2> QED
      BY <2>3, <2>6, BestOfOneJob DEF RowInv
  <1>3. CASE AddDuplicate(j, f)
    <2>1. Scores(j, f) /\ AddRow(j, f, Row(f, "duplicate"))
      BY <1>3 DEF AddDuplicate, Shows
    <2>2. PICK top \in Kept(j, f) : Rank(j, f) >= Rank(j, top)
      BY <1>3 DEF AddDuplicate
    <2>3. /\ JobTypes' /\ JobsHaveServers' /\ RowsAreOfFindings'
          /\ job[j] # None /\ f \notin DOMAIN job[j].rows
          /\ \A k \in Jobs \ {j} : job'[k] = job[k]
          /\ job'[j].opts = job[j].opts
          /\ job'[j].rows = [g \in {f} \cup DOMAIN job[j].rows |->
                                 IF g \in {f} THEN "duplicate" ELSE job[j].rows[g]]
      BY <2>1, AddedRow DEF Row
    <2>4. ShownRows(j)' = ShownRows(j)
      BY <2>3 DEF ShownRows
    <2>5. \A g : Rank(j, g)' = Rank(j, g)
      BY <2>3 DEF Rank, Confidence, Suppresses
    <2>6. ASSUME NEW e \in DOMAIN job'[j].rows, job'[j].rows[e] \in {"shown", "duplicate"}
          PROVE  Best(e)
      <3>1. CASE e = f
        <4>1. top \in ShownRows(j) /\ SameSpot(f, top) /\ top \in DOMAIN job[j].rows
          BY <2>2 DEF Kept, ShownRows
        <4>2. Before(top)
          BY <2>3, <4>1 DEF RowInv, BestSoFar, ShownRows
        <4>3. \A h \in ShownRows(j) : SameSpot(f, h) => h = top
          BY <4>1, <4>2 DEF SameSpot
        <4>4. top \in Findings
          BY <4>1, <2>3 DEF RowInv, JobTypes, JobRecords, Rows
        <4>5. Rank(j, top) <= Rank(j, f)
          BY <2>2, <4>4, RanksAreNumbers
        <4> QED
          BY <2>4, <2>5, <3>1, <4>1, <4>3, <4>5
      <3>2. CASE e # f
        <4>1. Before(e)
          BY <2>3, <2>6, <3>2 DEF RowInv, BestSoFar
        <4> QED
          BY <2>4, <2>5, <4>1 DEF SameSpot
      <3> QED
        BY <3>1, <3>2
    <2> QED
      BY <2>3, <2>6, BestOfOneJob DEF RowInv
  <1>4. CASE ShowRow(j, f)
    <2> DEFINE new == [g \in {f} \cup Kept(j, f) |-> IF g = f THEN "shown" ELSE "duplicate"]
    <2>1. Scores(j, f) /\ AddRow(j, f, new) /\ \A g \in Kept(j, f) : Rank(j, f) < Rank(j, g)
      BY <1>4 DEF ShowRow, Shows
    <2>2. Kept(j, f) \subseteq DOMAIN job[j].rows
      BY DEF Kept
    <2>3. /\ JobTypes' /\ JobsHaveServers' /\ RowsAreOfFindings'
          /\ job[j] # None /\ f \notin DOMAIN job[j].rows
          /\ \A k \in Jobs \ {j} : job'[k] = job[k]
          /\ job'[j].opts = job[j].opts
          /\ job'[j].rows = [g \in {f} \cup DOMAIN job[j].rows |->
                                 IF g \in DOMAIN new THEN new[g] ELSE job[j].rows[g]]
      BY <2>1, <2>2, AddedRow
    <2>4. ShownRows(j)' = {f} \cup (ShownRows(j) \ Kept(j, f))
      BY <2>2, <2>3 DEF ShownRows
    <2>5. \A g : Rank(j, g)' = Rank(j, g)
      BY <2>3 DEF Rank, Confidence, Suppresses
    <2>6. DOMAIN job[j].rows \subseteq Findings
      BY <2>3 DEF RowInv, JobTypes, JobRecords, Rows
    <2>7. \A h \in ShownRows(j)' : SameSpot(f, h) => h = f
      BY <2>4 DEF ShownRows, Kept
    <2>8. ASSUME NEW e \in DOMAIN job'[j].rows, job'[j].rows[e] \in {"shown", "duplicate"}
          PROVE  Best(e)
      <3>1. CASE e = f
        <4>1. f \in ShownRows(j)' /\ SameSpot(f, f) /\ Rank(j, f)' <= Rank(j, f)'
          BY <2>4, <2>5, RanksAreNumbers DEF SameSpot
        <4> QED
          BY <2>7, <3>1, <4>1
      <3>2. CASE e # f
        <4>1. e \in DOMAIN job[j].rows /\ job[j].rows[e] \in {"shown", "duplicate"}
          BY <2>2, <2>3, <2>8, <3>2 DEF Kept
        <4>2. PICK g \in ShownRows(j) :
                  /\ SameSpot(e, g) /\ Rank(j, g) <= Rank(j, e)
                  /\ \A h \in ShownRows(j) : SameSpot(e, h) => h = g
          BY <2>3, <4>1 DEF RowInv, BestSoFar
        <4>3. g \in DOMAIN job[j].rows /\ job[j].rows[g] = "shown"
          BY DEF ShownRows
        <4>4. CASE SameSpot(e, f)
          <5>1. g \in Kept(j, f)
            BY <4>2, <4>3, <4>4 DEF Kept, SameSpot
          <5>2. Rank(j, f) <= Rank(j, e)
            BY <2>1, <2>6, <4>1, <4>2, <4>3, <5>1, RanksAreNumbers
          <5>3. \A h \in ShownRows(j)' : SameSpot(e, h) => h = f
            BY <2>7, <4>4 DEF SameSpot
          <5> QED
            BY <2>4, <2>5, <4>4, <5>2, <5>3
        <4>5. CASE ~SameSpot(e, f)
          <5>1. g \notin Kept(j, f)
            BY <4>2, <4>5 DEF Kept, SameSpot
          <5>2. g \in ShownRows(j)' /\ \A h \in ShownRows(j)' : SameSpot(e, h) => h = g
            BY <2>4, <4>2, <4>5, <5>1
          <5> QED
            BY <2>5, <4>2, <5>2
        <4> QED
          BY <4>4, <4>5
      <3> QED
        BY <3>1, <3>2
    <2> QED
      BY <2>3, <2>8, BestOfOneJob DEF RowInv
  <1> QED
    BY <1>1, <1>2, <1>3, <1>4

LEMMA RowStep == RowInv /\ [Next]_vars => RowInv'
  BY RowsOfOtherSteps, RowsOfAddedRows

\* Whatever the order in which the report was walked, of the findings at one spot
\* one of the best is shown and no other, and each has its row (buildResult).
THEOREM OneBestRow == Spec => []BestRowIsShown
  <1>1. RowInv => BestRowIsShown
    <2> SUFFICES ASSUME RowInv, NEW j \in Jobs, Built(j)
                 PROVE  DOMAIN job[j].rows = runEngine(job[j].opts)
      BY DEF RowInv, BestSoFar, BestRowIsShown, Built
    <2> QED
      BY DEF RowInv, RowsAreOfFindings, Built
  <1> QED
    BY <1>1, RowInit, RowStep, PTL DEF Spec

-----------------------------------------------------------------------------
(* The marks.                                                              *)

\* What users were told agrees with a set of signatures.
Agrees(set) ==
    \A x \in Secrets : /\ told[x] = "marked" => x \in set
                       /\ told[x] = "unmarked" => x \notin set

MarkTypes ==
    /\ up \subseteq Servers
    /\ told \in [Secrets -> {"marked", "unmarked", "unsure"}]
    /\ sigs \in [Servers -> SUBSET Secrets]
    /\ saving \in [Servers -> {None} \cup [secret : Secrets, undo : BOOLEAN, cut : BOOLEAN]]
    /\ disk \in {NoFile, Cut, Broken} \cup {Whole(set) : set \in SUBSET Secrets}

\* a mark that is being saved is promised to nobody, and is in memory already
SavedNow ==
    \A s \in Servers : saving[s] # None =>
        /\ s \in up /\ told[saving[s].secret] = "unsure"
        /\ saving[s].secret \in sigs[s] <=> ~saving[s].undo

MemoryAgrees == \A s \in up : Agrees(sigs[s])
FileAgrees == disk.is \in {"absent", "whole"} => Agrees(disk.sigs)

MarkInv == MarkTypes /\ SavedNow /\ MemoryAgrees /\ FileAgrees

LEMMA SignaturesAreSecrets ==
    \A f \in Findings : signature(f) = Secret(f) /\ Secret(f) \in Secrets
  BY DEF signature, Secret, Secrets

LEMMA MarkInit == Init => MarkInv
  BY DEF Init, MarkInv, MarkTypes, SavedNow, MemoryAgrees, FileAgrees, Agrees, NoFile

\* Few actions have to do with the marks.
LEMMA StoreSteps ==
    ASSUME [Next]_vars
    PROVE  \/ RemoveFile
           \/ \E s \in Servers : \/ Start(s) \/ Crash(s) \/ CutFile(s) \/ WriteFile(s) \/ SaveFails(s)
           \/ \E j \in Jobs, f \in Findings, undo \in BOOLEAN : handleFeedback(j, f, undo)
           \/ UNCHANGED <<up, storeVars>>
  <1>1. CASE UNCHANGED vars
    BY <1>1 DEF vars
  <1>2. CASE \E s \in Servers, j \in Jobs : \E opts \in Options[j] : handleScan(s, j, opts)
    BY <1>2 DEF handleScan
  <1>3. CASE \E j \in Jobs : JobStep(j)
    BY <1>3 DEF JobStep, CallLock, Locked, StartCollecting, StartScanning, StartBuilding, EngineFails,
                Finish, CleanUp
  <1>4. CASE \E j \in Jobs : AddRows(j)
    BY <1>4 DEF AddRows, AddSuppressed, ShowRow, AddDuplicate, Shows, Scores
  <1>5. CASE \E j \in Jobs : handleJob(j)
    BY <1>5 DEF handleJob
  <1>6. CASE \E s \in Servers : Answered(s)
    BY <1>6 DEF Answered
  <1> QED
    BY <1>1, <1>2, <1>3, <1>4, <1>5, <1>6 DEF Next, Process, Save, Client

LEMMA MarkStep ==
    ASSUME MarkInv, [Next]_vars, Cardinality(Servers) = 1
    PROVE  MarkInv'
  <1> USE DEF MarkInv, MarkTypes, SavedNow, MemoryAgrees, FileAgrees, Agrees
  <1>0. \A s, t \in Servers : s = t
    BY FS_Singleton, WebToolAssumption DEF WebToolAssumption
  <1>1. CASE RemoveFile
    BY <1>1 DEF RemoveFile, NoFile
  <1>2. ASSUME NEW s \in Servers, Start(s)
        PROVE  MarkInv'
    BY <1>2 DEF Start, load, NoFile, Cut, Broken, Whole
  <1>3. ASSUME NEW s \in Servers, Crash(s)
        PROVE  MarkInv'
    BY <1>3 DEF Crash
  <1>4. ASSUME NEW s \in Servers, CutFile(s)
        PROVE  MarkInv'
    <2>1. PICK r \in [secret : Secrets, undo : BOOLEAN, cut : BOOLEAN] :
             r = saving[s] /\ saving' = [saving EXCEPT ![s] = [r EXCEPT !.cut = TRUE]]
      BY <1>4 DEF CutFile
    <2>2. MarkTypes'
      <3>1. [r EXCEPT !.cut = TRUE] \in [secret : Secrets, undo : BOOLEAN, cut : BOOLEAN]
        OBVIOUS
      <3>2. saving' \in [Servers -> {None} \cup [secret : Secrets, undo : BOOLEAN, cut : BOOLEAN]]
        BY <2>1, <3>1
      <3> QED
        BY <1>4, <3>2 DEF CutFile
    <2>3. SavedNow'
      BY <1>4, <2>1 DEF CutFile
    <2>4. MemoryAgrees' /\ FileAgrees'
      BY <1>4 DEF CutFile, Cut
    <2> QED
      BY <2>2, <2>3, <2>4
  <1>5. ASSUME NEW s \in Servers, WriteFile(s)
        PROVE  MarkInv'
    BY <1>0, <1>5 DEF WriteFile, Answer, Whole, Broken
  <1>6. ASSUME NEW s \in Servers, SaveFails(s)
        PROVE  MarkInv'
    BY <1>6 DEF SaveFails, Answer, Broken
  <1>7. ASSUME NEW j \in Jobs, NEW f \in Findings, NEW undo \in BOOLEAN, handleFeedback(j, f, undo)
        PROVE  MarkInv'
    BY <1>7, SignaturesAreSecrets DEF handleFeedback, Result, At, Up
  <1>8. CASE UNCHANGED <<up, storeVars>>
    BY <1>8 DEF storeVars
  <1> QED
    BY <1>1, <1>2, <1>3, <1>4, <1>5, <1>6, <1>7, <1>8, StoreSteps

\* With one server on the data directory, what users were told of their marks
\* holds in memory and in a file that is not damaged (FeedbackStore.Add, Remove,
\* NewFeedbackStore): whatever the number of jobs, findings and restarts.
THEOREM MarksAreKept == Spec => []MarksAreAsTold
  <1>1. MarkInv => MarksAreAsTold
    BY DEF MarkInv, MarksAreAsTold, MemoryAgrees, FileAgrees, Agrees
  <1>2. CASE Cardinality(Servers) = 1
    BY <1>1, <1>2, MarkInit, MarkStep, PTL DEF Spec
  <1>3. CASE Cardinality(Servers) # 1
    <2>1. MarksAreAsTold
      BY <1>3 DEF MarksAreAsTold
    <2> QED
      BY <2>1, PTL
  <1> QED
    BY <1>2, <1>3
-----------------------------------------------------------------------------
(* Rows and marks together.                                                *)

\* What a job has to respect are marks a user can still rely on, and no row it
\* shows is of one.
RowsRespectMarks ==
    \A j \in Jobs : job[j] # None =>
        /\ \A x \in job[j].marked : told[x] = "marked"
        /\ job[j].opts.feedback => \A f \in ShownRows(j) : Secret(f) \notin job[j].marked

HiddenInv == RowInv /\ MarkInv /\ RowsRespectMarks

\* Steps that promise no less than before.
LEMMA MarksStay ==
    ASSUME RowInv, RowsRespectMarks,
           \A j \in Jobs : job'[j] # None =>
               \/ /\ job[j] # None /\ job'[j].opts = job[j].opts /\ job'[j].rows = job[j].rows
                  /\ job'[j].marked \subseteq job[j].marked
                  /\ \A x \in job'[j].marked : told'[x] = told[x]
               \/ /\ job'[j].rows = <<>>
                  /\ \A x \in job'[j].marked : told'[x] = "marked"
    PROVE  RowsRespectMarks'
  <1> SUFFICES ASSUME NEW j \in Jobs, job'[j] # None
               PROVE  /\ \A x \in job'[j].marked : told'[x] = "marked"
                      /\ job'[j].opts.feedback =>
                             \A f \in ShownRows(j)' : Secret(f) \notin job'[j].marked
    BY DEF RowsRespectMarks, Secret
  <1>1. CASE job'[j].rows = <<>>
    <2>1. ShownRows(j)' = {}
      BY <1>1 DEF ShownRows
    <2> QED
      BY <2>1 DEF RowsRespectMarks
  <1>2. CASE job'[j].rows # <<>>
    BY <1>2 DEF RowsRespectMarks, ShownRows
  <1> QED
    BY <1>1, <1>2

LEMMA HiddenStep ==
    ASSUME HiddenInv, [Next]_vars
    PROVE  RowsRespectMarks'
  <1> USE DEF HiddenInv
  <1>1. ASSUME job' = job, \A j \in Jobs : job[j] # None => \A x \in job[j].marked : told'[x] = told[x]
        PROVE  RowsRespectMarks'
    BY <1>1, MarksStay
  <1>2. ASSUME NEW s \in Servers, Crash(s)
        PROVE  RowsRespectMarks'
    <2>1. told' = told /\ \A j \in Jobs : job'[j] # None => job'[j] = job[j]
      BY <1>2 DEF Crash
    <2> QED
      BY <2>1, MarksStay
  <1>3. ASSUME NEW s \in Servers, NEW j \in Jobs, NEW opts \in Options[j], handleScan(s, j, opts)
        PROVE  RowsRespectMarks'
    <2> DEFINE r == [server |-> s, opts |-> opts, step |-> "queued", temp |-> Temporary(opts),
                     unscored |-> {}, rows |-> <<>>, marked |-> {}]
    <2>1. job' = [job EXCEPT ![j] = r] /\ told' = told
      BY <1>3 DEF handleScan, storeVars
    <2>2. r.rows = <<>> /\ r.marked = {}
      OBVIOUS
    <2> HIDE DEF r
    <2>3. job'[j] = r /\ \A k \in Jobs \ {j} : job'[k] = job[k]
      BY <2>1 DEF RowInv, JobTypes
    <2> QED
      BY <2>1, <2>2, <2>3, MarksStay
  <1>4. ASSUME NEW j \in Jobs, StartCollecting(j) \/ StartScanning(j) \/ EngineFails(j)
                                   \/ Finish(j) \/ CleanUp(j)
        PROVE  RowsRespectMarks'
    <2>1. PICK r \in JobRecords : r = job[j]
      BY <1>4 DEF RowInv, JobTypes, StartCollecting, StartScanning, EngineFails, Finish, CleanUp, At, Up
    <2>2. told' = told /\ job[j] # None
      BY <1>4 DEF StartCollecting, StartScanning, EngineFails, Finish, CleanUp, Locked, At, Up, storeVars
    <2>3. \/ \E step \in Steps : job' = [job EXCEPT ![j] = [r EXCEPT !.step = step]]
          \/ job' = [job EXCEPT ![j] = [r EXCEPT !.step = "done", !.marked = {}]]
          \/ job' = [job EXCEPT ![j] = [r EXCEPT !.temp = FALSE]]
      BY <1>4, <2>1 DEF StartCollecting, StartScanning, EngineFails, Finish, CleanUp, Goto, Steps
    <2>4. \A k \in Jobs \ {j} : job'[k] = job[k]
      BY <2>3 DEF RowInv, JobTypes
    <2>5. job'[j].opts = r.opts /\ job'[j].rows = r.rows /\ job'[j].marked \subseteq r.marked
      BY <2>3 DEF RowInv, JobTypes, JobRecords
    <2> QED
      BY <2>1, <2>2, <2>4, <2>5, MarksStay
  <1>5. ASSUME NEW j \in Jobs, StartBuilding(j)
        PROVE  RowsRespectMarks'
    <2>1. PICK r \in JobRecords : r = job[j]
      BY <1>5 DEF RowInv, JobTypes, StartBuilding, At, Up
    <2> DEFINE q == [r EXCEPT !.step = "build", !.unscored = runEngine(r.opts),
                              !.marked = {x \in Secrets : told[x] = "marked"}]
    <2>2. job' = [job EXCEPT ![j] = q] /\ told' = told
      BY <1>5, <2>1 DEF StartBuilding, Locked, storeVars
    <2>3. q.rows = r.rows /\ q.marked = {x \in Secrets : told[x] = "marked"}
      BY DEF JobRecords
    <2>4. r.rows = <<>>
      BY <1>5, <2>1 DEF StartBuilding, At, Up, RowInv, RowsAreOfFindings
    <2> HIDE DEF q
    <2>5. job'[j] = q /\ \A k \in Jobs \ {j} : job'[k] = job[k]
      BY <2>2 DEF RowInv, JobTypes
    <2> QED
      BY <2>2, <2>3, <2>4, <2>5, MarksStay
  <1>6. ASSUME NEW j \in Jobs, NEW f \in Findings, NEW undo \in BOOLEAN, handleFeedback(j, f, undo)
        PROVE  RowsRespectMarks'
    <2>1. told' = [told EXCEPT ![Secret(f)] = "unsure"]
      BY <1>6 DEF handleFeedback
    <2>2. ASSUME NEW k \in Jobs, job'[k] # None
          PROVE  /\ job[k] # None /\ job'[k].opts = job[k].opts /\ job'[k].rows = job[k].rows
                 /\ job'[k].marked = job[k].marked \ {Secret(f)}
                 /\ job[k].marked \subseteq Secrets
      <3>1. job'[k] = IF job[k] = None THEN None
                      ELSE [job[k] EXCEPT !.marked = job[k].marked \ {Secret(f)}]
        BY <1>6 DEF handleFeedback
      <3>2. PICK r \in JobRecords : r = job[k]
        BY <2>2, <3>1 DEF RowInv, JobTypes
      <3>3. job'[k] = [r EXCEPT !.marked = r.marked \ {Secret(f)}]
        BY <2>2, <3>1, <3>2
      <3> QED
        BY <2>2, <3>1, <3>2, <3>3 DEF JobRecords
    <2>3. \A k \in Jobs : job'[k] # None => \A x \in job'[k].marked : told'[x] = told[x]
      BY <2>1, <2>2 DEF MarkInv, MarkTypes
    <2> QED
      BY <2>2, <2>3, MarksStay
  <1>7. ASSUME NEW s \in Servers, saving[s] # None, NEW what, Answer(s, what)
        PROVE  RowsRespectMarks'
    <2>1. job' = job /\ told' = [told EXCEPT ![saving[s].secret] = what]
      BY <1>7 DEF Answer
    <2>2. told[saving[s].secret] = "unsure"
      BY <1>7 DEF MarkInv, SavedNow
    <2>3. ASSUME NEW j \in Jobs, job[j] # None, NEW x \in job[j].marked
          PROVE  told'[x] = told[x]
      <3>1. told[x] = "marked"
        BY <2>3 DEF RowsRespectMarks
      <3> QED
        BY <2>1, <2>2, <3>1 DEF MarkInv, MarkTypes
    <2> QED
      BY <1>1, <2>1, <2>3
  <1>8. CASE RemoveFile
    <2>1. job' = job /\ \A j \in Jobs : job[j] = None
      BY <1>8 DEF RemoveFile, RowInv, JobsHaveServers
    <2> QED
      BY <1>1, <2>1
  <1>9. ASSUME NEW j \in Jobs, NEW f \in Findings, NEW new, Scores(j, f), AddRow(j, f, new),
               f \in DOMAIN new, DOMAIN new \subseteq {f} \cup DOMAIN job[j].rows,
               \A g \in DOMAIN new : new[g] \in {"learned", "filtered", "shown", "duplicate"},
               \A g \in DOMAIN new : new[g] = "shown" => g = f /\ ~Contains(j, f)
        PROVE  RowsRespectMarks'
    <2>1. /\ job[j] # None /\ \A k \in Jobs \ {j} : job'[k] = job[k]
          /\ job'[j].opts = job[j].opts /\ job'[j].marked = job[j].marked
          /\ job'[j].rows = [g \in {f} \cup DOMAIN job[j].rows |->
                                 IF g \in DOMAIN new THEN new[g] ELSE job[j].rows[g]]
      BY <1>9, AddedRow
    <2>2. told' = told /\ job[j].server \in up
      BY <1>9 DEF Scores, storeVars, At, Up
    <2>3. job[j].opts.feedback /\ ~Contains(j, f) => Secret(f) \notin job[j].marked
      BY <2>1, <2>2, SignaturesAreSecrets DEF Contains, MarkInv, MemoryAgrees, Agrees, RowsRespectMarks
    <2>4. ASSUME job'[j].opts.feedback, NEW g \in ShownRows(j)'
          PROVE  Secret(g) \notin job'[j].marked
      <3>1. CASE g \in DOMAIN new
        BY <1>9, <2>1, <2>3, <2>4, <3>1 DEF ShownRows
      <3>2. CASE g \notin DOMAIN new
        <4>1. g \in ShownRows(j)
          BY <1>9, <2>1, <3>2 DEF ShownRows
        <4> QED
          BY <2>1, <2>4, <4>1 DEF RowsRespectMarks
      <3> QED
        BY <3>1, <3>2
    <2>5. ASSUME NEW k \in Jobs \ {j}, job'[k] # None
          PROVE  /\ \A x \in job'[k].marked : told'[x] = "marked"
                 /\ job'[k].opts.feedback => \A g \in ShownRows(k)' : Secret(g) \notin job'[k].marked
      BY <2>1, <2>2, <2>5 DEF RowsRespectMarks, ShownRows
    <2> QED
      BY <2>1, <2>2, <2>4, <2>5 DEF RowsRespectMarks, Secret
  <1>10. ASSUME NEW j \in Jobs, NEW f \in Findings, AddSuppressed(j, f) \/ AddDuplicate(j, f)
         PROVE  RowsRespectMarks'
    <2>1. PICK what \in {"learned", "filtered", "duplicate"} : AddRow(j, f, Row(f, what))
      BY <1>10 DEF AddSuppressed, AddDuplicate
    <2>2. Scores(j, f)
      BY <1>10 DEF AddSuppressed, AddDuplicate, Shows
    <2> QED
      BY <1>9, <2>1, <2>2 DEF Row
  <1>11. ASSUME NEW j \in Jobs, NEW f \in Findings, ShowRow(j, f)
         PROVE  RowsRespectMarks'
    <2> DEFINE new == [g \in {f} \cup Kept(j, f) |-> IF g = f THEN "shown" ELSE "duplicate"]
    <2>1. Scores(j, f) /\ AddRow(j, f, new) /\ ~Contains(j, f)
      BY <1>11 DEF ShowRow, Shows
    <2>2. DOMAIN new \subseteq {f} \cup DOMAIN job[j].rows
      BY DEF Kept
    <2> QED
      BY <1>9, <2>1, <2>2
  <1>12. CASE UNCHANGED vars
    BY <1>1, <1>12 DEF vars, storeVars
  <1>13. ASSUME NEW s \in Servers, Start(s) \/ CutFile(s) \/ Answered(s)
         PROVE  RowsRespectMarks'
    BY <1>1, <1>13 DEF Start, CutFile, Answered, storeVars
  <1>14. ASSUME NEW s \in Servers, WriteFile(s) \/ SaveFails(s)
         PROVE  RowsRespectMarks'
    BY <1>7, <1>14 DEF WriteFile, SaveFails
  <1>15. ASSUME NEW j \in Jobs, CallLock(j) \/ handleJob(j)
         PROVE  RowsRespectMarks'
    BY <1>1, <1>15 DEF CallLock, handleJob, storeVars
  <1> QED
    BY <1>2, <1>3, <1>4, <1>5, <1>6, <1>8, <1>10, <1>11, <1>12, <1>13, <1>14, <1>15
       DEF Next, Process, JobStep, AddRows, Save, Client

\* A secret that was marked before a job's rows were built, and stays marked, is in
\* no row the job shows (FeedbackStore.Contains, buildResult).
THEOREM MarkedStaysHidden == Spec => []MarkedSecretsAreHidden
  <1>1. HiddenInv => MarkedSecretsAreHidden
    BY DEF HiddenInv, RowsRespectMarks, MarkedSecretsAreHidden, Built
  <1>2. CASE Cardinality(Servers) = 1
    <2>1. Init => HiddenInv
      BY RowInit, MarkInit DEF HiddenInv, RowsRespectMarks, Init
    <2>2. HiddenInv /\ [Next]_vars => HiddenInv'
      BY <1>2, RowStep, MarkStep, HiddenStep DEF HiddenInv
    <2> QED
      BY <1>1, <2>1, <2>2, PTL DEF Spec
  <1>3. CASE Cardinality(Servers) # 1
    <2>1. MarkedSecretsAreHidden
      BY <1>3 DEF MarkedSecretsAreHidden
    <2> QED
      BY <2>1, PTL
  <1> QED
    BY <1>2, <1>3
=============================================================================
