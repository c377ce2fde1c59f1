---------------------------- MODULE ScrapeProofs ----------------------------
(***************************************************************************)
(* Proofs about ScrapeRuns under WatchHandle and under WatchService, for   *)
(* every number of coroutines on the handle, other callers, watches,       *)
(* intervals, versions of the page, routes, policies, requests and faults. *)
(*                                                                         *)
(* The two are composed with the same runs and not with each other: a      *)
(* theorem is about one of the specifications.  HandleAssumption says who  *)
(* the callers of the one are and WatchAssumption those of the other, and  *)
(* neither restricts the other's theorems: let Task = {} and Other = Caller*)
(* in the second half, and Daemon be any caller in the first (without      *)
(* callers nothing happens).                                               *)
(***************************************************************************)
EXTENDS WatchHandle, WatchService, DistinctSeqsTheorems

(* The runs there are.                                                      *)
RunNo == 1..Len(runs)

(* Everybody's scrape has a run of its own, until it is recorded.           *)
JobsOwn ==
  /\ \A x \in Caller : job[x].stage = "none" => job[x] = NoJob
  /\ \A x \in Caller : job[x].stage # "none" => job[x].run \in RunNo
  /\ \A x, y \in Caller :
       job[x].stage # "none" /\ job[x].run = job[y].run => x = y

(* A request is conditional on a run without an error that has an archive.  *)
Settled(r) == r \in RunNo /\ runs[r].row /\ runs[r].ok /\ runs[r].path # 0

Priors ==
  \A x \in Caller :
    job[x].stage \in {"fetching", "archived"} /\ job[x].prior # 0 =>
      Settled(job[x].prior)

(* Archives belong to recorded runs, which point to their own or to the one *)
(* they took over; they go only by a loss.                                  *)
PathOK(r) ==
  /\ ~runs[r].row => runs[r].path = 0
  /\ runs[r].row /\ runs[r].ok => runs[r].path # 0
  /\ runs[r].path # 0 =>
       /\ runs[r].path \in RunNo /\ runs[runs[r].path].row
       /\ runs[runs[r].path].path = runs[r].path
       /\ Archive(r) = <<>> => runs[runs[r].path].lost

(* Only redact_snapshots masks, and only text.                              *)
FairlyMasked(t) == t.form = "masked" => Redacts /\ t.of \notin Binary

(* A run that saw this got it from that archived text.                      *)
Sees(saw, t) ==
  /\ FairlyMasked(t)
  /\ saw \in IF t.of \in Binary THEN {t, Redact(t), Loaded(t)} ELSE {t}

Presentable(t) == t.form # "raw" \/ t.of \in Binary

RowOK(r) ==
  runs[r].row =>
    /\ runs[r].path # 0 /\ Archive(r) # <<>> => Sees(runs[r].saw, Archive(r)[1])
    /\ Redacts /\ runs[r].ok /\ Archive(r) # <<>> => Presentable(Archive(r)[1])
    /\ runs[r].ok /\ runs[r].req.geo = "strict" => runs[r].region \in Allowed
    /\ runs[r].ok /\ runs[r].req.geo = "lenient" =>
         runs[r].region \in Allowed \cup {nowhere} \/ runs[r].path # r

(* A run that is not recorded yet, before the answer and after it.          *)
Begun(x) ==
  job[x].stage \in {"started", "fetching"} =>
    ~RunOf(x).row /\ ~RunOf(x).ok /\ RunOf(x).path = 0 /\ RunOf(x).file = <<>>

Reused(j) == j.notModified /\ ~j.refused

(* What job j, its run own and the archive of its prior run are to each     *)
(* other then.                                                              *)
Fits(j, own, archive) ==
  /\ ~own.row /\ own.path = 0
  /\ j.notModified => j.prior # 0
  /\ Reused(j) /\ archive # <<>> => j.text = Loaded(archive[1])
  /\ ~Reused(j) /\ own.file = <<>> => own.lost
  /\ ~Reused(j) /\ own.file # <<>> => Sees(j.text, own.file[1])
  /\ ~Reused(j) /\ ~j.refused /\ Redacts /\ own.file # <<>> =>
       Presentable(own.file[1])
  /\ ~j.refused /\ own.req.geo = "strict" => ~j.notModified /\ j.region \in Allowed
  /\ ~j.refused /\ own.req.geo = "lenient" => j.region \in Allowed \cup {nowhere}

Archived(x) ==
  job[x].stage = "archived" => Fits(job[x], RunOf(x), Archive(job[x].prior))

RunsInv ==
  /\ RunsTypeOK /\ JobsOwn /\ Priors
  /\ \A r \in RunNo : PathOK(r) /\ RowOK(r)
  /\ \A x \in Caller : Begun(x) /\ Archived(x)

-----------------------------------------------------------------------------
(* The texts.                                                               *)
LEMMA Texts ==
  /\ NoText \in Text /\ Raw(wall) \in Text
  /\ \A c \in Content : Raw(c) \in Text
  /\ \A t \in Text : Redact(t) \in Text /\ Loaded(t) \in Text
BY DEF NoText, Raw, Got, Text, Redact, Loaded

LEMMA ReusedText ==
  ASSUME NEW t \in Text
  PROVE  /\ FairlyMasked(t) => Sees(Loaded(t), t) /\ FairlyMasked(Loaded(t))
         /\ Presentable(t) => Redact(Loaded(t)) = Loaded(t)
BY DEF Sees, FairlyMasked, Presentable, Redact, Loaded, Got, Text

LEMMA OwnText ==
  ASSUME NEW t \in Text, FairlyMasked(t)
  PROVE  /\ Sees(t, t)
         /\ Redacts /\ ~(t.of \in Binary /\ t.form = "raw") =>
              Sees(Redact(t), Redact(t))
         /\ t.of \in Binary => Sees(Redact(t), t)
         /\ Presentable(Redact(t))
BY DEF Sees, FairlyMasked, Presentable, Redact, Got, Text

-----------------------------------------------------------------------------
(* What every step leaves of the runs: of those that are recorded or of     *)
(* somebody else's scrape, at most the archive is lost.                     *)
MayLose(r) ==
  \/ runs'[r] = runs[r]
  \/ /\ runs[r].file # <<>>
     /\ runs'[r] = [runs[r] EXCEPT !.file = <<>>, !.lost = TRUE]

Frame(A) ==
  /\ runs' \in Seq(Run) /\ Len(runs') >= Len(runs)
  /\ \A r \in RunNo :
       MayLose(r) \/ (~runs[r].row /\ \E x \in A : job[x].run = r)
  /\ \A y \in Caller \ A : job'[y] = job[y]

LEMMA RunsTypes ==
  ASSUME RunsTypeOK
  PROVE  /\ Len(runs) \in Nat /\ RunNo \subseteq Nat \ {0}
         /\ \A r \in RunNo :
              /\ runs[r] \in Run /\ runs[r].row \in BOOLEAN /\ runs[r].ok \in BOOLEAN
              /\ runs[r].path \in Nat /\ runs[r].saw \in Text
              /\ runs[r].lost \in BOOLEAN
              /\ runs[r].file # <<>> => /\ runs[r].file[1] \in Text
                                        /\ runs[r].file \in Text \X (0..MaxTime)
         /\ \A x \in Caller : job[x] \in Job
<1>1. runs \in Seq(Run) /\ job \in [Caller -> Job]
  BY DEF RunsTypeOK
<1>2. Len(runs) \in Nat /\ \A r \in RunNo : runs[r] \in Run
  BY <1>1, LenProperties, ElementOfSeq DEF RunNo
<1>3. RunNo \subseteq Nat \ {0}
  BY <1>2 DEF RunNo
<1>4. ASSUME NEW r \in RunNo
      PROVE  /\ runs[r].row \in BOOLEAN /\ runs[r].ok \in BOOLEAN
             /\ runs[r].path \in Nat /\ runs[r].saw \in Text
             /\ runs[r].lost \in BOOLEAN
             /\ runs[r].file \in {<<>>} \cup (Text \X (0..MaxTime))
  <2> HIDE DEF Run
  <2>1. runs[r] \in Run
    BY <1>2
  <2>. QED BY <2>1 DEF Run
<1>5. ASSUME NEW r \in RunNo, runs[r].file # <<>>
      PROVE  runs[r].file \in Text \X (0..MaxTime) /\ runs[r].file[1] \in Text
  <2>1. runs[r].file \in Text \X (0..MaxTime)
    BY <1>4, <1>5
  <2>. QED BY <2>1
<1>. QED BY <1>1, <1>2, <1>3, <1>4, <1>5

LEMMA RowKept ==
  ASSUME RunsTypeOK, NEW A \in SUBSET Caller, Frame(A), NEW r \in RunNo, runs[r].row
  PROVE  /\ r \in RunNo' /\ runs'[r].row
         /\ runs'[r].ok = runs[r].ok /\ runs'[r].path = runs[r].path
         /\ runs'[r].saw = runs[r].saw /\ runs'[r].req = runs[r].req
         /\ runs'[r].region = runs[r].region
         /\ \/ runs'[r].file = runs[r].file /\ runs'[r].lost = runs[r].lost
            \/ runs'[r].file = <<>> /\ runs'[r].lost = TRUE
<1>1. MayLose(r) /\ runs[r] \in Run
  BY RunsTypes DEF Frame
<1>2. r \in RunNo'
  BY RunsTypes DEF Frame, RunNo
<1>. QED BY <1>1, <1>2 DEF MayLose, Run

LEMMA ArchiveKept ==
  ASSUME RunsTypeOK, NEW A \in SUBSET Caller, Frame(A),
         NEW r \in RunNo, runs[r].row, PathOK(r), runs[r].path # 0
  PROVE  /\ PathOK(r)'
         /\ Archive(r)' = Archive(r) \/ Archive(r)' = <<>>
<1> DEFINE p == runs[r].path
<1>1. /\ p \in RunNo /\ runs[p].row /\ runs[p].path = p
      /\ runs[p].file = <<>> => runs[p].lost
  BY DEF PathOK, Archive
<1>2. /\ runs'[r].row /\ runs'[r].path = p /\ p # 0
      /\ p \in RunNo' /\ runs'[p].row /\ runs'[p].path = p
      /\ \/ runs'[p].file = runs[p].file /\ runs'[p].lost = runs[p].lost
         \/ runs'[p].file = <<>> /\ runs'[p].lost = TRUE
  BY <1>1, RowKept
<1>3. /\ Archive(r) = runs[p].file /\ Archive(r)' = runs'[p].file
  BY <1>2 DEF Archive
<1>. QED BY <1>1, <1>2, <1>3 DEF PathOK

LEMMA OldRows ==
  ASSUME RunsTypeOK, NEW A \in SUBSET Caller, Frame(A),
         NEW r \in RunNo, runs[r].row, PathOK(r), RowOK(r)
  PROVE  PathOK(r)' /\ RowOK(r)'
<1>1. /\ runs'[r].row /\ runs'[r].ok = runs[r].ok /\ runs'[r].path = runs[r].path
      /\ runs'[r].saw = runs[r].saw /\ runs'[r].req = runs[r].req
      /\ runs'[r].region = runs[r].region
  BY RowKept
<1>2. CASE runs[r].path = 0
  BY <1>1, <1>2 DEF PathOK, RowOK, Archive
<1>3. CASE runs[r].path # 0
  <2>1. PathOK(r)' /\ (Archive(r)' = Archive(r) \/ Archive(r)' = <<>>)
    BY <1>3, ArchiveKept
  <2>. QED BY <1>1, <2>1 DEF RowOK
<1>. QED BY <1>2, <1>3

-----------------------------------------------------------------------------
(* What the step has to do for the one scrape it is of, and for the run it  *)
(* changes.                                                                 *)
Own(x) ==
  /\ job'[x].stage = "none" => job'[x] = NoJob
  /\ job'[x].stage # "none" =>
       /\ job'[x].run \in RunNo'
       /\ job'[x].run \in RunNo => job[x].stage # "none" /\ job'[x].run = job[x].run
  /\ job'[x].stage \in {"fetching", "archived"} /\ job'[x].prior # 0 =>
       Settled(job'[x].prior)
  /\ Begun(x)' /\ Archived(x)'

Step(A) ==
  /\ Frame(A) /\ RunsTypeOK'
  /\ \A x, y \in A : x = y
  /\ \A x \in A : Own(x)
  /\ \A r \in RunNo' :
       \/ r \in RunNo /\ MayLose(r)
       \/ PathOK(r)' /\ RowOK(r)'

LEMMA StillSettled ==
  ASSUME RunsTypeOK, NEW A \in SUBSET Caller, Frame(A), NEW r, Settled(r)
  PROVE  Settled(r)'
<1>1. r \in RunNo /\ runs[r].row
  BY DEF Settled
<1>. QED BY <1>1, RowKept DEF Settled

LEMMA RunsKept ==
  ASSUME RunsInv, NEW A \in SUBSET Caller, Step(A), NEW r \in RunNo'
  PROVE  PathOK(r)' /\ RowOK(r)'
<1>1. CASE r \in RunNo /\ MayLose(r) /\ runs[r].row
  BY <1>1, OldRows DEF RunsInv, Step
<1>2. CASE r \in RunNo /\ MayLose(r) /\ ~runs[r].row
  <2>1. runs[r] \in Run /\ PathOK(r)
    BY <1>2, RunsTypes DEF RunsInv
  <2>2. runs'[r].row = runs[r].row /\ runs'[r].path = runs[r].path
    BY <1>2, <2>1 DEF MayLose, Run
  <2>. QED BY <1>2, <2>1, <2>2 DEF PathOK, RowOK
<1>. QED BY <1>1, <1>2 DEF Step

LEMMA JobsKept ==
  ASSUME RunsInv, NEW A \in SUBSET Caller, Step(A)
  PROVE  JobsOwn'
<1>1. RunNo \subseteq RunNo' /\ RunNo' \subseteq Nat \ {0} /\ RunNo \subseteq Nat \ {0}
  <2>1. Len(runs) \in Nat /\ Len(runs') \in Nat /\ Len(runs') >= Len(runs)
    BY RunsTypes, LenProperties DEF RunsInv, Step, Frame
  <2>. QED BY <2>1 DEF RunNo
<1>2. ASSUME NEW x \in Caller
      PROVE  /\ job'[x].stage = "none" => job'[x] = NoJob
             /\ job'[x].stage # "none" => job'[x].run \in RunNo'
  <2>1. CASE x \in A
    BY <2>1 DEF Step, Own
  <2>2. CASE x \notin A
    BY <1>1, <2>2 DEF RunsInv, JobsOwn, Step, Frame
  <2>. QED BY <2>1, <2>2
<1>3. ASSUME NEW x \in Caller, NEW y \in Caller,
             job'[x].stage # "none", job'[x].run = job'[y].run
      PROVE  x = y
  <2>1. job'[y].stage # "none"
    BY <1>1, <1>2, <1>3 DEF NoJob
  <2>2. ASSUME NEW z \in Caller, job'[z].stage # "none", job'[z].run \in RunNo
        PROVE  job[z].stage # "none" /\ job[z].run = job'[z].run
    BY <2>2 DEF Step, Frame, Own
  <2>3. CASE job'[x].run \in RunNo
    BY <1>3, <2>1, <2>2, <2>3 DEF RunsInv, JobsOwn
  <2>4. CASE job'[x].run \notin RunNo
    BY <1>3, <2>1, <2>4 DEF RunsInv, JobsOwn, Step, Frame
  <2>. QED BY <2>3, <2>4
<1>. QED BY <1>2, <1>3 DEF JobsOwn

(* The others' scrapes go on as they were.                                  *)
LEMMA OthersKept ==
  ASSUME RunsInv, NEW A \in SUBSET Caller, Frame(A), NEW y \in Caller \ A
  PROVE  Begun(y)' /\ Archived(y)'
<1>1. job'[y] = job[y] /\ job[y] \in Job
  BY RunsTypes DEF Frame, RunsInv
<1>2. CASE job[y].stage \notin {"started", "fetching", "archived"}
  BY <1>1, <1>2 DEF Begun, Archived
<1>3. CASE job[y].stage \in {"started", "fetching", "archived"}
  <2> DEFINE r == job[y].run
  <2>1. r \in RunNo /\ runs[r] \in Run
    BY <1>3, RunsTypes DEF RunsInv, JobsOwn
  <2>2. ~\E x \in A : job[x].run = r
    BY <1>3 DEF RunsInv, JobsOwn
  <2>3. MayLose(r)
    BY <2>1, <2>2 DEF Frame
  <2>4. /\ runs'[r].row = runs[r].row /\ runs'[r].path = runs[r].path
        /\ runs'[r].req = runs[r].req /\ runs'[r].ok = runs[r].ok
        /\ \/ runs'[r].file = runs[r].file /\ runs'[r].lost = runs[r].lost
           \/ runs[r].file # <<>> /\ runs'[r].file = <<>> /\ runs'[r].lost = TRUE
    BY <2>1, <2>3 DEF MayLose, Run
  <2>5. RunOf(y)' = runs'[r] /\ RunOf(y) = runs[r]
    BY <1>1 DEF RunOf
  <2>6. Begun(y)'
    BY <1>1, <2>4, <2>5 DEF RunsInv, Begun
  <2>7. ASSUME job[y].stage = "archived" PROVE Archived(y)'
    <3>1. Archived(y)
      BY DEF RunsInv
    <3>2. PICK j, o, n : j = job[y] /\ o = runs[r] /\ n = runs'[r]
      OBVIOUS
    <3>3. PICK p, a, b : p = j.prior /\ a = Archive(p) /\ b = Archive(p)'
      OBVIOUS
    <3>4. Fits(j, o, a)
      BY <2>5, <2>7, <3>1, <3>2, <3>3 DEF Archived
    <3>5. j.notModified => b \in {a, <<>>}
      <4>1. ASSUME j.notModified PROVE Settled(p)
        BY <2>7, <3>2, <3>3, <3>4, <4>1 DEF RunsInv, Priors, Fits
      <4>. QED BY <3>3, <4>1, ArchiveKept DEF Settled, RunsInv
    <3>6. Fits(j, n, b)
      BY <2>4, <3>2, <3>4, <3>5 DEF Fits, Reused
    <3>7. RunOf(y)' = n /\ job'[y] = j
      BY <1>1, <2>5, <3>2
    <3>8. Archive(job[y].prior)' = b
      BY <3>3, <3>7 DEF Archive
    <3>. QED BY <3>6, <3>7, <3>8 DEF Archived
  <2>. QED BY <1>1, <2>6, <2>7 DEF Archived
<1>. QED BY <1>2, <1>3

LEMMA StepKeeps ==
  ASSUME RunsInv, NEW A \in SUBSET Caller, Step(A)
  PROVE  RunsInv'
<1>1. Priors'
  <2> SUFFICES ASSUME NEW x \in Caller, job'[x].stage \in {"fetching", "archived"},
                      job'[x].prior # 0
               PROVE  Settled(job[x].prior)'
    BY DEF Priors
  <2>1. PICK r : r = job'[x].prior
    OBVIOUS
  <2>2. Settled(r)
    BY <2>1 DEF RunsInv, Priors, Step, Frame, Own
  <2>3. Settled(r)'
    BY <2>2, StillSettled DEF Step, RunsInv
  <2>. QED BY <2>1, <2>3 DEF Settled
<1>2. \A x \in Caller : Begun(x)' /\ Archived(x)'
  BY OthersKept DEF Step, Own
<1>. QED BY <1>1, <1>2, RunsKept, JobsKept DEF RunsInv, Step

-----------------------------------------------------------------------------
(* The steps of one scrape.                                                 *)
RestOK ==
  /\ page \in Content /\ now \in 0..MaxTime
  /\ changes \in 0..MaxChanges /\ failures \in 0..MaxFailures

LEMMA Fails ==
  ASSUME RunsTypeOK, failures < MaxFailures, failures' = failures + 1
  PROVE  failures' \in 0..MaxFailures
BY RunsAssumption DEF RunsTypeOK

LEMMA SetRunParts ==
  ASSUME RunsTypeOK, NEW x \in Caller, job[x].run \in RunNo, NEW v \in Run,
         SetRun(x, v)
  PROVE  /\ runs' \in Seq(Run) /\ Len(runs') = Len(runs) /\ RunNo' = RunNo
         /\ runs'[job[x].run] = v
         /\ \A q \in RunNo : q # job[x].run => runs'[q] = runs[q]
<1> USE DEF SetRun, RunNo
<1>1. runs \in Seq(Run)
  BY DEF RunsTypeOK
<1>2. runs' \in Seq(Run) /\ Len(runs') = Len(runs)
  BY <1>1, ExceptSeq
<1>. QED BY <1>1, <1>2

LEMMA SetJobParts ==
  ASSUME RunsTypeOK, NEW x \in Caller, NEW v \in Job, SetJob(x, v)
  PROVE  /\ job' \in [Caller -> Job] /\ job'[x] = v
         /\ \A y \in Caller \ {x} : job'[y] = job[y]
BY DEF SetJob, RunsTypeOK

(* A step that leaves the runs alone.                                       *)
LEMMA QuietStep ==
  ASSUME RunsInv, NEW x \in Caller, NEW v \in Job, SetJob(x, v), runs' = runs,
         RestOK', Own(x)
  PROVE  RunsInv'
<1>1. Frame({x})
  <2>1. \A r \in RunNo : MayLose(r)
    BY DEF MayLose
  <2>. QED BY <2>1, SetJobParts, RunsTypes DEF Frame, RunsInv, RunsTypeOK
<1>2. RunsTypeOK'
  BY SetJobParts DEF RestOK, RunsInv, RunsTypeOK
<1>3. \A r \in RunNo' : r \in RunNo /\ MayLose(r)
  BY DEF MayLose, RunNo
<1>4. Step({x})
  BY <1>1, <1>2, <1>3 DEF Step
<1>. QED BY <1>4, StepKeeps

(* A step that changes the caller's own run.                                *)
LEMMA OwnStep ==
  ASSUME RunsInv, NEW x \in Caller, job[x].stage # "none", ~RunOf(x).row,
         NEW v \in Job, SetJob(x, v), NEW w \in Run, SetRun(x, w),
         RestOK', Own(x), NEW r, r = job[x].run, PathOK(r)', RowOK(r)'
  PROVE  RunsInv'
<1>1. r \in RunNo
  BY DEF RunsInv, JobsOwn
<1>2. /\ runs' \in Seq(Run) /\ Len(runs') = Len(runs) /\ RunNo' = RunNo
      /\ \A q \in RunNo : q # r => MayLose(q)
  BY <1>1, SetRunParts DEF RunsInv, MayLose
<1>3. Frame({x})
  BY <1>1, <1>2, SetJobParts, RunsTypes DEF Frame, RunsInv, RunOf
<1>4. RunsTypeOK'
  BY <1>2, SetJobParts DEF RestOK, RunsInv, RunsTypeOK
<1>5. Step({x})
  BY <1>2, <1>3, <1>4 DEF Step
<1>. QED BY <1>5, StepKeeps

LEMMA RecordsOfJobs ==
  /\ NoJob \in Job
  /\ \A q \in Request : NewRun(q) \in Run
<1>1. NoText \in Text
  BY Texts
<1>2. NoJob \in Job
  BY <1>1 DEF NoJob, Job, Stage
<1>3. ASSUME NEW q \in Request PROVE NewRun(q) \in Run
  BY <1>1 DEF NewRun, Run
<1>. QED BY <1>2, <1>3

LEMMA BeginKeeps ==
  ASSUME RunsInv, NEW x \in Caller, job[x] = NoJob, BeginScrape(x),
         UNCHANGED <<page, now, changes, failures>>
  PROVE  RunsInv'
<1>1. PICK q \in Requests[x] :
        /\ runs' = Append(runs, NewRun(q))
        /\ SetJob(x, [NoJob EXCEPT !.stage = "started", !.run = Len(runs) + 1])
  BY DEF BeginScrape
<1>a. PICK n : n = Len(runs) + 1
  OBVIOUS
<1> DEFINE v == [NoJob EXCEPT !.stage = "started", !.run = n]
<1>2. NewRun(q) \in Run /\ runs \in Seq(Run) /\ Len(runs) \in Nat
  BY RecordsOfJobs, RunsTypes, RunsAssumption DEF RunsInv, RunsTypeOK
<1>3. /\ runs' \in Seq(Run) /\ Len(runs') = n /\ runs'[n] = NewRun(q)
      /\ \A r \in RunNo : runs'[r] = runs[r]
  BY <1>1, <1>2, <1>a, AppendProperties DEF RunNo
<1>4. n \notin RunNo /\ RunNo' = RunNo \cup {n} /\ n \in Nat
  BY <1>2, <1>3, <1>a DEF RunNo
<1>5. v \in Job /\ v.stage = "started" /\ v.run = n
  BY <1>4, RecordsOfJobs DEF NoJob, Job, Stage
<1>6. /\ job' \in [Caller -> Job] /\ job'[x] = v
      /\ \A y \in Caller \ {x} : job'[y] = job[y]
  BY <1>1, <1>5, <1>a, SetJobParts DEF RunsInv
<1>7. Frame({x})
  <2>1. Len(runs') >= Len(runs)
    BY <1>2, <1>3, <1>a
  <2>. QED BY <1>3, <1>6, <2>1 DEF Frame, MayLose
<1>8. RunsTypeOK'
  BY <1>3, <1>6 DEF RunsInv, RunsTypeOK
<1>9. RunOf(x)' = NewRun(q)
  BY <1>3, <1>5, <1>6 DEF RunOf
<1>10. Begun(x)' /\ Archived(x)'
  BY <1>5, <1>6, <1>9 DEF Begun, Archived, NewRun
<1>11. Own(x)
  BY <1>4, <1>5, <1>6, <1>10 DEF Own
<1>12. \A r \in RunNo' :
       \/ r \in RunNo /\ MayLose(r)
       \/ PathOK(r)' /\ RowOK(r)'
  <2>1. \A r \in RunNo : MayLose(r)
    BY <1>3 DEF MayLose
  <2>2. PathOK(n)' /\ RowOK(n)'
    BY <1>3 DEF PathOK, RowOK, NewRun
  <2>. QED BY <1>4, <2>1, <2>2
<1>13. Step({x})
  BY <1>7, <1>8, <1>11, <1>12 DEF Step
<1>. QED BY <1>13, StepKeeps

(* The scrape is over, or given up.                                         *)
LEMMA CloseKeeps ==
  ASSUME RunsInv, NEW x \in Caller, runs' = runs, RestOK',
         SetJob(x, NoJob) \/ (job[x].stage # "none" /\ SetStage(x, "raised"))
  PROVE  RunsInv'
<1>1. CASE SetJob(x, NoJob)
  <2>1. NoJob \in Job /\ NoJob.stage = "none"
    BY RecordsOfJobs DEF NoJob
  <2>2. job'[x] = NoJob
    BY <1>1, <2>1, SetJobParts DEF RunsInv
  <2>3. Own(x)
    BY <2>1, <2>2 DEF Own, Begun, Archived
  <2>. QED BY <1>1, <2>1, <2>3, QuietStep
<1>2. CASE job[x].stage # "none" /\ SetStage(x, "raised")
  <2> DEFINE v == [job[x] EXCEPT !.stage = "raised"]
  <2>1. job[x] \in Job
    BY RunsTypes DEF RunsInv
  <2>2. v \in Job /\ v.stage = "raised" /\ v.run = job[x].run
    BY <2>1 DEF Job, Stage
  <2>3. SetJob(x, v)
    BY <1>2 DEF SetStage, SetJob
  <2>4. job'[x] = v
    BY <2>2, <2>3, SetJobParts DEF RunsInv
  <2>5. job'[x].run \in RunNo'
    BY <1>2, <2>2, <2>4 DEF RunsInv, JobsOwn, RunNo
  <2>6. Own(x)
    BY <1>2, <2>2, <2>4, <2>5 DEF Own, Begun, Archived
  <2>. QED BY <2>2, <2>3, <2>6, QuietStep
<1>. QED BY <1>1, <1>2

LEMMA PriorSettled ==
  ASSUME RunsInv
  PROVE  PriorRun \in Nat /\ (PriorRun # 0 => Settled(PriorRun))
<1> DEFINE prior == {r \in DOMAIN runs : IsLastRun(r) /\ MayReuse(r)}
<1>1. DOMAIN runs = RunNo /\ RunNo \subseteq Nat \ {0}
  BY RunsTypes DEF RunsInv, RunsTypeOK, RunNo
<1>2. CASE prior = {}
  BY <1>2 DEF PriorRun
<1>3. CASE prior # {}
  <2>1. PriorRun \in prior
    BY <1>3 DEF PriorRun
  <2>. QED BY <1>1, <2>1 DEF IsLastRun, MayReuse, Settled
<1>. QED BY <1>2, <1>3

(* The scrape goes on to fetch.                                             *)
LEMMA TurnKeeps ==
  ASSUME RunsInv, NEW x \in Caller, job[x].stage \in {"started", "fetching"},
         NEW p \in Nat, p # 0 => Settled(p),
         SetJob(x, [job[x] EXCEPT !.stage = "fetching", !.prior = p]),
         UNCHANGED <<page, now, runs, changes, failures>>
  PROVE  RunsInv'
<1> DEFINE v == [job[x] EXCEPT !.stage = "fetching", !.prior = p]
<1>1. job[x] \in Job
  BY RunsTypes DEF RunsInv
<1>2. v \in Job /\ v.stage = "fetching" /\ v.run = job[x].run /\ v.prior = p
  BY <1>1 DEF Job, Stage
<1>3. job'[x] = v
  BY <1>2, SetJobParts DEF RunsInv
<1>4. job'[x].run \in RunNo'
  BY <1>2, <1>3 DEF RunsInv, JobsOwn, RunNo
<1>5. Begun(x)
  BY DEF RunsInv
<1>6. Begun(x)' /\ Archived(x)'
  BY <1>2, <1>3, <1>5 DEF Begun, Archived, RunOf
<1>7. Own(x)
  BY <1>2, <1>3, <1>4, <1>6 DEF Own
<1>8. RestOK'
  BY DEF RunsInv, RunsTypeOK, RestOK
<1>. QED BY <1>2, <1>7, <1>8, QuietStep

LEMMA ReadKeeps ==
  ASSUME RunsInv, NEW x \in Caller, ReadLastRun(x)
  PROVE  RunsInv'
<1>1. PICK p : p = IF RequestOf(x).live THEN 0 ELSE PriorRun
  OBVIOUS
<1>2. p \in Nat /\ (p # 0 => Settled(p))
  BY <1>1, PriorSettled
<1>. QED BY <1>1, <1>2, TurnKeeps DEF ReadLastRun

LEMMA FetchForRealKeeps ==
  ASSUME RunsInv, NEW x \in Caller, FetchForReal(x)
  PROVE  RunsInv'
<1>1. job[x] \in Job /\ job[x].stage = "fetching"
  BY RunsTypes DEF RunsInv, FetchForReal
<1>2. [job[x] EXCEPT !.prior = 0] = [job[x] EXCEPT !.stage = "fetching", !.prior = 0]
  BY <1>1 DEF Job
<1>. QED BY <1>1, <1>2, TurnKeeps DEF FetchForReal

(* The run is recorded as refused.                                          *)
LEMMA RefusedKeeps ==
  ASSUME RunsInv, NEW x \in Caller, RefusedUnasked(x)
  PROVE  RunsInv'
<1> DEFINE v == [job[x] EXCEPT !.stage = "over"]
           w == [RunOf(x) EXCEPT !.row = TRUE]
<1>1. /\ job[x].stage = "started" /\ failures' \in 0..MaxFailures
      /\ SetRun(x, w) /\ SetJob(x, v) /\ UNCHANGED <<page, now, changes>>
  BY Fails DEF RefusedUnasked, SetStage, SetJob, RunsInv
<1>2. /\ job[x] \in Job /\ job[x].run \in RunNo /\ RunOf(x) \in Run
      /\ ~RunOf(x).row /\ ~RunOf(x).ok /\ RunOf(x).path = 0
  BY <1>1, RunsTypes DEF RunsInv, JobsOwn, RunOf, Begun
<1>3. v \in Job /\ v.stage = "over" /\ v.run = job[x].run
  BY <1>2 DEF Job, Stage
<1>4. w \in Run /\ ~w.ok /\ w.path = 0
  BY <1>2 DEF Run
<1>5. RunNo' = RunNo /\ runs'[job[x].run] = w
  BY <1>1, <1>2, <1>4, SetRunParts DEF RunsInv
<1>6. job'[x] = v
  BY <1>1, <1>3, SetJobParts DEF RunsInv
<1>7. Own(x)
  BY <1>2, <1>3, <1>5, <1>6, <1>1 DEF Own, Begun, Archived
<1>8. RestOK'
  BY <1>1 DEF RunsInv, RunsTypeOK, RestOK
<1>9. PICK r : r = job[x].run
  OBVIOUS
<1>10. PathOK(r)' /\ RowOK(r)'
  <2>1. runs'[r] = w /\ ~runs'[r].ok /\ runs'[r].path = 0
    BY <1>4, <1>5, <1>9
  <2>. QED BY <2>1 DEF PathOK, RowOK
<1>. QED BY <1>1, <1>2, <1>3, <1>4, <1>7, <1>8, <1>9, <1>10, OwnStep

(* What is archived of a text, and what its caller gets.                    *)
LEMMA ArchivedText ==
  ASSUME NEW text \in Text, FairlyMasked(text), NEW refused \in BOOLEAN,
         NEW final, NEW archived,
         final = IF Redacts /\ ~refused THEN Redact(text) ELSE text,
         archived = IF text.of \in Binary /\ text.form = "raw" THEN text ELSE final
  PROVE  /\ final \in Text /\ archived \in Text /\ Sees(final, archived)
         /\ Redacts /\ ~refused => Presentable(archived)
<1>1. CASE Redacts /\ ~refused
  <2>1. final = Redact(text)
    BY <1>1
  <2>2. CASE text.of \in Binary /\ text.form = "raw"
    BY <2>1, <2>2, Texts, OwnText DEF Presentable
  <2>3. CASE ~(text.of \in Binary /\ text.form = "raw")
    BY <2>1, <2>3, Texts, OwnText
  <2>. QED BY <2>2, <2>3
<1>2. CASE ~(Redacts /\ ~refused)
  BY <1>2, OwnText
<1>. QED BY <1>1, <1>2

LEMMA AnsweredKeeps ==
  ASSUME RunsInv, NEW x \in Caller, job[x].stage = "fetching",
         NEW text \in Text, FairlyMasked(text), NEW etag \in Content \cup {none},
         NEW region \in Region \cup {nowhere}, NEW notModified \in BOOLEAN,
         Answered(x, text, etag, region, notModified),
         notModified => /\ job[x].prior # 0 /\ Archive(job[x].prior) # <<>>
                        /\ text = Loaded(Archive(job[x].prior)[1])
                        /\ region = nowhere,
         failures' \in 0..MaxFailures
  PROVE  RunsInv'
<1>1. PICK refused, final, archived, p, a :
        /\ refused = (text.of = wall \/ ~IsAllowed(RequestOf(x), region))
        /\ final = IF Redacts /\ ~refused THEN Redact(text) ELSE text
        /\ archived = IF text.of \in Binary /\ text.form = "raw" THEN text ELSE final
        /\ p = job[x].prior /\ a = Archive(p)
  OBVIOUS
<1> DEFINE v == [job[x] EXCEPT !.stage = "archived", !.text = final, !.etag = etag,
                               !.region = region, !.notModified = notModified,
                               !.refused = refused]
           w == IF notModified /\ ~refused THEN RunOf(x)
                ELSE [RunOf(x) EXCEPT !.file = <<archived, now>>]
<1>2. SetRun(x, w) /\ SetJob(x, v) /\ UNCHANGED <<page, now, changes>>
  BY <1>1 DEF Answered
<1>3. /\ job[x] \in Job /\ job[x].run \in RunNo /\ RunOf(x) \in Run
      /\ ~RunOf(x).row /\ RunOf(x).path = 0
      /\ RunOf(x).req \in Request
  <2>1. /\ job[x] \in Job /\ job[x].run \in RunNo /\ RunOf(x) \in Run
        /\ ~RunOf(x).row /\ RunOf(x).path = 0
    BY RunsTypes DEF RunsInv, JobsOwn, RunOf, Begun
  <2>. QED BY <2>1 DEF Run
<1>4. refused \in BOOLEAN
  BY <1>1
<1>5. /\ final \in Text /\ archived \in Text /\ Sees(final, archived)
      /\ Redacts /\ ~refused => Presentable(archived)
  BY <1>1, <1>4, ArchivedText
<1>6. /\ v \in Job /\ v.stage = "archived" /\ v.run = job[x].run /\ v.prior = p
      /\ v.text = final /\ v.region = region /\ v.notModified = notModified
      /\ v.refused = refused
  BY ZenonT(30), <1>1, <1>3, <1>4, <1>5 DEF Job, Stage
<1>7. now \in 0..MaxTime /\ RestOK'
  BY <1>2 DEF RunsInv, RunsTypeOK, RestOK
<1>8. /\ w \in Run /\ w.row = RunOf(x).row /\ w.path = RunOf(x).path
      /\ w.req = RunOf(x).req
      /\ ~(notModified /\ ~refused) => w.file = <<archived, now>>
  <2>1. <<archived, now>> \in Text \X (0..MaxTime)
    BY <1>5, <1>7
  <2>2. CASE notModified /\ ~refused
    BY <1>3, <2>2
  <2>3. CASE ~(notModified /\ ~refused)
    BY <1>3, <2>1, <2>3 DEF Run
  <2>. QED BY <2>2, <2>3
<1>9. /\ RunNo' = RunNo /\ runs'[job[x].run] = w
      /\ \A q \in RunNo : q # job[x].run => runs'[q] = runs[q]
  BY <1>2, <1>3, <1>8, SetRunParts DEF RunsInv
<1>10. job'[x] = v
  BY <1>2, <1>6, SetJobParts DEF RunsInv
<1>11. p # 0 => Settled(p) /\ p \in RunNo
  BY <1>1 DEF RunsInv, Priors, Settled
<1>12. ASSUME notModified PROVE Archive(p)' = a
  <2>1. Settled(p) /\ PathOK(p)
    BY <1>1, <1>11, <1>12 DEF RunsInv
  <2>2. /\ runs[p].row /\ runs[p].path \in RunNo /\ runs[runs[p].path].row
        /\ runs[p].path # 0
    BY <2>1 DEF Settled, PathOK
  <2>3. p # job[x].run /\ runs[p].path # job[x].run
    BY <1>3, <2>2 DEF RunOf
  <2>4. runs'[p] = runs[p] /\ runs'[runs[p].path] = runs[runs[p].path]
    BY <1>9, <1>11, <1>12, <1>1, <2>2, <2>3
  <2>. QED BY <1>1, <2>4 DEF Archive
<1>13. ~refused => IsAllowed(RunOf(x).req, region)
  BY <1>1 DEF RequestOf
<1>14. PICK b : b = Archive(p)'
  OBVIOUS
<1>15. Fits(v, w, b)
  <2>1. notModified => p # 0
    BY <1>1
  <2>2. ASSUME notModified, ~refused PROVE final = Loaded(b[1])
    <3>1. /\ b = a /\ text = Loaded(a[1]) /\ Settled(p) /\ RowOK(p) /\ a # <<>>
      BY <1>1, <1>11, <1>12, <1>14, <2>2 DEF RunsInv
    <3>2. Redacts => Presentable(a[1])
      BY <1>1, <3>1 DEF RowOK, Settled
    <3>3. a[1] \in Text
      <4>1. Archive(p) = runs[runs[p].path].file /\ runs[p].path \in RunNo
        BY <3>1, <1>11 DEF Settled, RunsInv, PathOK, Archive
      <4>. QED BY <1>1, <3>1, <4>1, RunsTypes DEF RunsInv
    <3>4. CASE Redacts
      BY <1>1, <2>2, <3>1, <3>2, <3>3, <3>4, ReusedText
    <3>5. CASE ~Redacts
      BY <1>1, <3>1, <3>5
    <3>. QED BY <3>4, <3>5
  <2>3. ASSUME ~refused, RunOf(x).req.geo = "strict"
        PROVE  ~notModified /\ region \in Allowed
    BY <1>13, <2>3, RegionsAssumption DEF IsAllowed
  <2>4. ASSUME ~refused, RunOf(x).req.geo = "lenient"
        PROVE  region \in Allowed \cup {nowhere}
    BY <1>13, <2>4 DEF IsAllowed
  <2>5. ASSUME ~(notModified /\ ~refused)
        PROVE  w.file # <<>> /\ w.file[1] = archived
    BY <1>8, <2>5
  <2>. HIDE DEF v, w
  <2>. QED BY <1>3, <1>5, <1>6, <1>8, <2>1, <2>2, <2>3, <2>4, <2>5 DEF Fits, Reused
<1>16. Archived(x)'
  <2>1. RunOf(x)' = w /\ Archive(job[x].prior)' = b
    BY <1>6, <1>9, <1>10, <1>14 DEF RunOf, Archive
  <2>. QED BY <1>10, <1>15, <2>1 DEF Archived
<1>17. Own(x)
  BY <1>3, <1>6, <1>9, <1>10, <1>11, <1>16 DEF Own, Begun
<1>18. PICK r : r = job[x].run
  OBVIOUS
<1>19. PathOK(r)' /\ RowOK(r)'
  BY <1>3, <1>8, <1>9, <1>18 DEF PathOK, RowOK
<1>20. RunsInv'
  <2> HIDE DEF v, w
  <2>. QED BY <1>2, <1>3, <1>6, <1>7, <1>8, <1>17, <1>18, <1>19, OwnStep
<1>. QED BY <1>20

LEMMA ReuseKeeps ==
  ASSUME RunsInv, NEW x \in Caller, ReuseArchive(x)
  PROVE  RunsInv'
<1>1. PICK p, a : p = job[x].prior /\ a = Archive(p)
  OBVIOUS
<1>2. /\ job[x].stage = "fetching" /\ p # 0 /\ a # <<>> /\ page \in Content
      /\ Answered(x, Loaded(a[1]), page, nowhere, TRUE) /\ failures' = failures
  BY <1>1 DEF ReuseArchive, Matches, RunsInv, RunsTypeOK
<1>3. Settled(p)
  BY <1>1, <1>2 DEF RunsInv, Priors
<1>4. Loaded(a[1]) \in Text /\ FairlyMasked(Loaded(a[1]))
  <2>1. a = runs[runs[p].path].file /\ runs[p].path \in RunNo
    BY <1>1, <1>3 DEF Settled, RunsInv, PathOK, Archive
  <2>2. a[1] \in Text
    BY <1>2, <2>1, RunsTypes DEF RunsInv
  <2>3. FairlyMasked(a[1])
    BY <1>1, <1>2, <1>3 DEF Settled, RunsInv, RowOK, Sees
  <2>. QED BY <2>2, <2>3, Texts, ReusedText
<1>5. failures' \in 0..MaxFailures
  BY <1>2 DEF RunsInv, RunsTypeOK
<1>. QED BY <1>1, <1>2, <1>4, <1>5, AnsweredKeeps

LEMMA AnswerKeeps ==
  ASSUME RunsInv, NEW x \in Caller, Answer200(x) \/ AnswerBlocked(x)
  PROVE  RunsInv'
<1>1. page \in Content /\ failures \in 0..MaxFailures
  BY DEF RunsInv, RunsTypeOK
<1>2. CASE Answer200(x)
  <2>1. PICK route \in Routes :
          Answered(x, Raw(page), IF route[2] THEN page ELSE none, route[1], FALSE)
    BY <1>2 DEF Answer200
  <2>2. /\ (IF route[2] THEN page ELSE none) \in Content \cup {none}
        /\ Raw(page) \in Text /\ route[1] \in Region
    BY <1>1, Texts DEF Region
  <2>4. FairlyMasked(Raw(page))
    BY DEF FairlyMasked, Raw, Got
  <2>3. job[x].stage = "fetching" /\ failures' = failures
    BY <1>2 DEF Answer200
  <2>. QED BY <1>1, <2>1, <2>2, <2>3, <2>4, AnsweredKeeps
<1>3. CASE AnswerBlocked(x)
  <2>1. /\ job[x].stage = "fetching" /\ failures' \in 0..MaxFailures
        /\ Answered(x, Raw(wall), none, nowhere, FALSE)
    BY <1>3, Fails DEF AnswerBlocked, RunsInv
  <2>2. FairlyMasked(Raw(wall))
    BY DEF FairlyMasked, Raw, Got
  <2>. QED BY <2>1, <2>2, Texts, AnsweredKeeps
<1>. QED BY <1>2, <1>3

(* The row of a run is as its job says.                                     *)
LEMMA RecordKeeps ==
  ASSUME RunsInv, NEW x \in Caller, RecordRun(x)
  PROVE  RunsInv'
<1>1. PICK j, o, p, a, reused, n :
        /\ j = job[x] /\ o = RunOf(x) /\ p = j.prior /\ a = Archive(p)
        /\ reused = (j.notModified /\ ~j.refused) /\ n = j.run
  OBVIOUS
<1> DEFINE v == [j EXCEPT !.stage = "over"]
           w == [o EXCEPT !.row = TRUE, !.saw = j.text, !.ok = ~j.refused,
                          !.etag = j.etag,
                          !.path = IF reused THEN runs[p].path ELSE n,
                          !.region = IF j.notModified THEN runs[p].region
                                     ELSE j.region]
<1>2. /\ j.stage = "archived" /\ SetRun(x, w) /\ SetJob(x, v)
      /\ UNCHANGED <<page, now, changes, failures>>
  BY <1>1 DEF RecordRun, SetStage, SetJob
<1>3. j \in Job /\ n \in RunNo /\ n # 0 /\ n \in Nat /\ o \in Run /\ o = runs[n]
  <2>1. j \in Job /\ n \in RunNo /\ o \in Run /\ o = runs[n]
    BY <1>1, <1>2, RunsTypes DEF RunsInv, JobsOwn, RunOf
  <2>. QED BY <2>1, RunsTypes DEF RunsInv
<1>4. Fits(j, o, a)
  BY <1>1, <1>2 DEF RunsInv, Archived
<1>5. ~o.row
  BY <1>4 DEF Fits
<1>6. ASSUME j.notModified
      PROVE  /\ p \in RunNo /\ runs[p].row /\ runs[p].ok /\ runs[p].path # 0
             /\ runs[p].path \in RunNo /\ runs[p].path # n
             /\ runs[runs[p].path].row
             /\ runs[runs[p].path].path = runs[p].path
             /\ a = runs[runs[p].path].file
             /\ a = <<>> => runs[runs[p].path].lost
             /\ Redacts /\ a # <<>> => Presentable(a[1])
             /\ a # <<>> => FairlyMasked(a[1])
             /\ runs[p].region \in Region \cup {nowhere}
  <2>1. p # 0
    BY <1>1, <1>4, <1>6 DEF Fits
  <2>2. Settled(p)
    BY <1>1, <1>2, <2>1 DEF RunsInv, Priors
  <2>3. PathOK(p) /\ RowOK(p) /\ runs[p] \in Run
    BY <2>2, RunsTypes DEF RunsInv, Settled
  <2>4. runs[p].region \in Region \cup {nowhere}
    BY <2>3 DEF Run
  <2>5. /\ p \in RunNo /\ runs[p].row /\ runs[p].ok /\ runs[p].path # 0
        /\ runs[p].path \in RunNo /\ runs[runs[p].path].row
        /\ runs[runs[p].path].path = runs[p].path
    BY <2>2, <2>3 DEF Settled, PathOK
  <2>6. a = runs[runs[p].path].file
    BY <1>1, <2>5 DEF Archive
  <2>7. runs[p].path # n
    BY <1>3, <1>5, <2>5
  <2>8. a = <<>> => runs[runs[p].path].lost
    BY <1>1, <2>3, <2>5 DEF PathOK
  <2>9. Redacts /\ a # <<>> => Presentable(a[1])
    BY <1>1, <2>3, <2>5 DEF RowOK
  <2>10. a # <<>> => FairlyMasked(a[1])
    BY <1>1, <2>3, <2>5 DEF RowOK, Sees
  <2>. QED BY <2>4, <2>5, <2>6, <2>7, <2>8, <2>9, <2>10
<1>7. /\ j.text \in Text /\ j.refused \in BOOLEAN /\ j.notModified \in BOOLEAN
      /\ j.etag \in Content \cup {none} /\ j.region \in Region \cup {nowhere}
  BY <1>3 DEF Job
<1>8. /\ (IF reused THEN runs[p].path ELSE n) \in Nat
      /\ (IF j.notModified THEN runs[p].region ELSE j.region) \in Region \cup {nowhere}
  BY <1>1, <1>3, <1>6, <1>7, RunsTypes DEF RunsInv
<1>9. /\ w \in Run /\ w.row /\ w.saw = j.text /\ w.ok = ~j.refused
      /\ w.path = (IF reused THEN runs[p].path ELSE n)
      /\ w.region = (IF j.notModified THEN runs[p].region ELSE j.region)
      /\ w.file = o.file /\ w.lost = o.lost /\ w.req = o.req
  <2>1. PICK path, region, ok :
          /\ path = IF reused THEN runs[p].path ELSE n
          /\ region = IF j.notModified THEN runs[p].region ELSE j.region
          /\ ok = ~j.refused
    OBVIOUS
  <2>2. path \in Nat /\ region \in Region \cup {nowhere} /\ ok \in BOOLEAN
    BY <1>7, <1>8, <2>1
  <2>3. w = [o EXCEPT !.row = TRUE, !.saw = j.text, !.ok = ok, !.etag = j.etag,
                      !.path = path, !.region = region]
    BY <2>1
  <2>4. /\ w \in Run /\ w.row /\ w.saw = j.text /\ w.ok = ok /\ w.path = path
        /\ w.region = region /\ w.file = o.file /\ w.lost = o.lost /\ w.req = o.req
    BY ZenonT(30), <1>3, <1>7, <2>2, <2>3 DEF Run
  <2>. QED BY <2>1, <2>4
<1>10. v \in Job /\ v.stage = "over" /\ v.run = n
  BY <1>1, <1>3 DEF Job, Stage
<1>11. /\ RunNo' = RunNo /\ runs'[n] = w
       /\ \A q \in RunNo : q # n => runs'[q] = runs[q]
  BY <1>1, <1>2, <1>3, <1>9, SetRunParts DEF RunsInv
<1>12. job'[x] = v
  BY <1>2, <1>10, SetJobParts DEF RunsInv
<1>13. job[x].run = n /\ job[x].stage = "archived" /\ ~RunOf(x).row
  BY <1>1, <1>2, <1>5
<1>14. Own(x)
  BY <1>3, <1>10, <1>11, <1>12, <1>13 DEF Own, Begun, Archived
<1>15. RestOK'
  BY <1>2 DEF RunsInv, RunsTypeOK, RestOK
<1> HIDE DEF v, w
<1>16. PICK b : b = Archive(n)'
  OBVIOUS
<1>17. CASE reused
  <2>1. j.notModified /\ ~j.refused /\ Reused(j)
    BY <1>1, <1>17 DEF Reused
  <2>2. /\ runs'[n].path = runs[p].path /\ runs'[n].path # 0 /\ runs'[n].path # n
        /\ runs'[n].row /\ runs'[n].ok /\ runs'[n].req = o.req
        /\ runs'[n].saw = j.text
        /\ runs'[runs'[n].path] = runs[runs[p].path]
    BY <1>6, <1>9, <1>11, <1>17, <2>1
  <2>3. b = a
    BY <1>6, <1>16, <2>1, <2>2 DEF Archive
  <2>4. PathOK(n)'
    BY <1>6, <1>11, <1>16, <2>1, <2>2, <2>3 DEF PathOK
  <2>5. a # <<>> => Sees(j.text, a[1])
    <3>1. a # <<>> => j.text = Loaded(a[1]) /\ a[1] \in Text
      BY <1>4, <1>6, <2>1, RunsTypes DEF Fits, RunsInv
    <3>2. a # <<>> => FairlyMasked(a[1])
      BY <1>6, <2>1
    <3>. QED BY <3>1, <3>2, ReusedText
  <2>6. o.req.geo # "strict"
    BY <1>4, <2>1 DEF Fits
  <2>7. RowOK(n)'
    BY <1>6, <1>16, <2>1, <2>2, <2>3, <2>5, <2>6 DEF RowOK
  <2>. QED BY <1>1, <1>2, <1>3, <1>9, <1>10, <1>13, <1>14, <1>15, <2>4, <2>7, OwnStep
<1>18. CASE ~reused
  <2>1. ~Reused(j)
    BY <1>1, <1>18 DEF Reused
  <2>2. /\ runs'[n].path = n /\ runs'[n].row /\ runs'[n].ok = ~j.refused
        /\ runs'[n].saw = j.text /\ runs'[n].req = o.req
        /\ runs'[n].file = o.file /\ runs'[n].lost = o.lost
        /\ ~j.refused => runs'[n].region = j.region
    BY <1>1, <1>7, <1>9, <1>11, <1>18
  <2>3. b = o.file
    BY <1>3, <1>16, <2>2 DEF Archive
  <2>4. PathOK(n)'
    BY <1>3, <1>4, <1>11, <1>16, <2>1, <2>2, <2>3 DEF PathOK, Fits
  <2>5. RowOK(n)'
    BY <1>4, <1>16, <2>1, <2>2, <2>3 DEF RowOK, Fits
  <2>. QED BY <1>1, <1>2, <1>3, <1>9, <1>10, <1>13, <1>14, <1>15, <2>4, <2>5, OwnStep
<1>. QED BY <1>17, <1>18

LEMMA RunsStutter ==
  ASSUME RunsInv, UNCHANGED runVars
  PROVE  RunsInv'
<1>1. RunsTypeOK' /\ RunNo' = RunNo /\ \A r \in RunNo : MayLose(r)
  BY DEF runVars, RunsInv, RunsTypeOK, RunNo, MayLose
<1>2. Frame({})
  BY <1>1, RunsTypes DEF Frame, RunsInv, RunsTypeOK, runVars
<1>3. Step({})
  BY <1>1, <1>2 DEF Step
<1>. QED BY <1>3, StepKeeps

LEMMA WorldKeeps ==
  ASSUME RunsInv, World
  PROVE  RunsInv'
<1>1. CASE PageChanges \/ Tick
  <2>1. RestOK' /\ runs' = runs /\ job' = job
    BY <1>1, RunsAssumption, SMTT(20)
    DEF PageChanges, Tick, RunsInv, RunsTypeOK, RestOK
  <2>2. RunsTypeOK' /\ RunNo' = RunNo /\ \A r \in RunNo : MayLose(r)
    BY <2>1 DEF RunsInv, RunsTypeOK, RestOK, RunNo, MayLose
  <2>3. Frame({})
    BY <2>1, <2>2, RunsTypes DEF Frame, RunsInv, RunsTypeOK
  <2>4. Step({})
    BY <2>2, <2>3 DEF Step
  <2>. QED BY <2>4, StepKeeps
<1>2. CASE ArchiveLost
  <2>1. PICK n \in DOMAIN runs :
          /\ runs[n].file # <<>>
          /\ runs' = [runs EXCEPT ![n] = [runs[n] EXCEPT !.file = <<>>, !.lost = TRUE]]
    BY <1>2 DEF ArchiveLost
  <2> DEFINE w == [runs[n] EXCEPT !.file = <<>>, !.lost = TRUE]
  <2>2. n \in RunNo /\ runs \in Seq(Run) /\ w \in Run
    <3>1. n \in RunNo /\ runs \in Seq(Run)
      BY DEF RunsInv, RunsTypeOK, RunNo
    <3>2. runs[n] \in Run
      BY <3>1, RunsTypes DEF RunsInv
    <3>. QED BY <3>1, <3>2 DEF Run
  <2>3. /\ runs' \in Seq(Run) /\ Len(runs') = Len(runs)
        /\ \A r \in RunNo : MayLose(r)
    <3>1. runs' = [runs EXCEPT ![n] = w]
      BY <2>1
    <3> HIDE DEF w
    <3>2. /\ runs' \in Seq(Run) /\ Len(runs') = Len(runs)
          /\ \A r \in RunNo : runs'[r] = IF r = n THEN w ELSE runs[r]
      BY <2>2, <3>1, ExceptSeq DEF RunNo
    <3>. QED BY <2>1, <3>2 DEF MayLose, w
  <2>4. failures' \in 0..MaxFailures /\ UNCHANGED <<page, now, job, changes>>
    BY <1>2, Fails DEF ArchiveLost, RunsInv
  <2>5. RunsTypeOK' /\ RunNo' = RunNo
    BY <2>3, <2>4 DEF RunsInv, RunsTypeOK, RunNo
  <2>6. Frame({})
    BY <2>3, <2>4, RunsTypes DEF Frame, RunsInv
  <2>7. Step({})
    BY <2>3, <2>5, <2>6 DEF Step
  <2>. QED BY <2>7, StepKeeps
<1>. QED BY <1>1, <1>2 DEF World

LEMMA FailKeeps ==
  ASSUME RunsInv, NEW x \in Caller,
         LoadRaises(x) \/ FetchRaises(x) \/ RaisesRecorded(x)
  PROVE  RunsInv'
<1>1. /\ job[x].stage # "none" /\ SetStage(x, "raised") /\ runs' = runs
      /\ \/ failures' = failures
         \/ failures < MaxFailures /\ failures' = failures + 1
      /\ UNCHANGED <<page, now, changes>>
  BY DEF LoadRaises, FetchRaises, RaisesRecorded
<1>2. RestOK'
  BY <1>1, Fails DEF RunsInv, RunsTypeOK, RestOK
<1>. QED BY <1>1, <1>2, CloseKeeps

(* Every step of a scrape keeps the runs as they should be.                 *)
LEMMA ScrapeKeeps ==
  ASSUME RunsInv, NEW x \in Caller, ScrapeStep(x) \/ ScrapeFails(x)
  PROVE  RunsInv'
BY ReadKeeps, ReuseKeeps, FetchForRealKeeps, AnswerKeeps, RecordKeeps,
   RefusedKeeps, FailKeeps DEF ScrapeStep, ScrapeFails

-----------------------------------------------------------------------------
(* The handle: whoever scrapes through it holds its lock, and started from  *)
(* its last run, which the chain of results ends in.                        *)
HandleTypeOK ==
  /\ queue \in Seq(Task) /\ last \in 0..Len(runs)
  /\ tpc \in [Task -> {"idle", "refresh", "check", "diff"}]
  /\ prev \in [Task -> 0..Len(runs)]

LockOK ==
  /\ Distinct(queue)
  /\ \A t \in Task : (tpc[t] = "idle") <=> (t \notin Elements(queue))
  /\ \A t \in Task : job[t].stage # "none" =>
       Holds(t) /\ prev[t] = last /\ last < job[t].run
  /\ \A t \in Task : tpc[t] = "diff" => job[t].stage # "none"

ChainOK ==
  /\ chain \in Seq(Nat \X Nat)
  /\ last = IF chain = <<>> THEN 0 ELSE chain[Len(chain)][2]
  /\ \A n \in 1..Len(chain) :
       /\ chain[n][1] = IF n = 1 THEN 0 ELSE chain[n - 1][2]
       /\ chain[n][1] < chain[n][2]

HandleInv == HandleTypeOK /\ LockOK /\ ChainOK

LEMMA Callers ==
  /\ Task \subseteq Caller /\ Other \subseteq Caller /\ Task \cap Other = {}
BY HandleAssumption

(* A step of somebody's scrape, or of the world.                            *)
LEMMA ScrapeLeavesHandle ==
  ASSUME HandleInv, RunsInv, UNCHANGED handleVars,
         Len(runs') \in Nat, Len(runs') >= Len(runs),
         \A t \in Task : /\ job'[t].stage = "none" <=> job[t].stage = "none"
                         /\ job[t].stage # "none" => job'[t].run = job[t].run
  PROVE  HandleInv'
<1>1. Len(runs) \in Nat
  BY RunsTypes DEF RunsInv
<1>2. 0..Len(runs) \subseteq 0..Len(runs')
  BY <1>1
<1>3. HandleTypeOK'
  BY <1>2 DEF HandleInv, HandleTypeOK, handleVars
<1>4. LockOK'
  BY DEF HandleInv, LockOK, handleVars, Holds
<1>5. ChainOK'
  BY DEF HandleInv, ChainOK, handleVars
<1>. QED BY <1>3, <1>4, <1>5 DEF HandleInv

LEMMA ScrapeOfRuns ==
  ASSUME RunsInv, NEW x \in Caller, ScrapeStep(x) \/ ScrapeFails(x)
  PROVE  /\ Len(runs') = Len(runs)
         /\ \A y \in Caller : /\ job'[y].stage = "none" <=> job[y].stage = "none"
                              /\ job'[y].run = job[y].run
<1>1. job[x].stage # "none"
  BY DEF ScrapeStep, ScrapeFails, ReadLastRun, ReuseArchive, FetchForReal, Answer200,
         RecordRun, RefusedUnasked, AnswerBlocked, LoadRaises, FetchRaises,
         RaisesRecorded
<1>2. ASSUME NEW j, SetJob(x, j), j.run = job[x].run
      PROVE  \A y \in Caller : job'[y].run = job[y].run /\ (y # x => job'[y] = job[y])
  BY <1>2 DEF SetJob, RunsInv, RunsTypeOK
<1>3. \A y \in Caller : job'[y].run = job[y].run /\ (y # x => job'[y] = job[y])
  <2>1. job[x] \in Job
    BY RunsTypes DEF RunsInv
  <2>2. \A s, p : [job[x] EXCEPT !.stage = s, !.prior = p].run = job[x].run
    BY <2>1 DEF Job
  <2>3. \A p : [job[x] EXCEPT !.prior = p].run = job[x].run
    BY <2>1 DEF Job
  <2>4. \A s : [job[x] EXCEPT !.stage = s].run = job[x].run
    BY <2>1 DEF Job
  <2>5. \A text, etag, region, m, refused :
          [job[x] EXCEPT !.stage = "archived", !.text = text, !.etag = etag,
                         !.region = region, !.notModified = m,
                         !.refused = refused].run = job[x].run
    BY <2>1 DEF Job
  <2>6. CASE ReadLastRun(x)
    BY <1>2, <2>2, <2>6 DEF ReadLastRun
  <2>7. CASE FetchForReal(x)
    BY <1>2, <2>3, <2>7 DEF FetchForReal
  <2>8. CASE \E s : SetStage(x, s)
    BY <1>2, <2>4, <2>8 DEF SetStage, SetJob
  <2>9. CASE \E text, etag, region, m : Answered(x, text, etag, region, m)
    <3>1. PICK text, etag, region, m : Answered(x, text, etag, region, m)
      BY <2>9
    <3>2. PICK final, refused :
            SetJob(x, [job[x] EXCEPT !.stage = "archived", !.text = final,
                                     !.etag = etag, !.region = region,
                                     !.notModified = m, !.refused = refused])
      BY <3>1 DEF Answered
    <3>3. PICK j : j = [job[x] EXCEPT !.stage = "archived", !.text = final,
                                      !.etag = etag, !.region = region,
                                      !.notModified = m, !.refused = refused]
      OBVIOUS
    <3>4. j.run = job[x].run
      BY <2>5, <3>3
    <3>5. SetJob(x, j)
      BY <3>2, <3>3
    <3>. QED BY <1>2, <3>4, <3>5
  <2>10. CASE ReuseArchive(x) \/ Answer200(x) \/ AnswerBlocked(x)
    <3>1. \E text, etag, region, m : Answered(x, text, etag, region, m)
      BY <2>10 DEF ReuseArchive, Answer200, AnswerBlocked
    <3>. QED BY <2>9, <3>1
  <2>11. CASE \/ RecordRun(x) \/ RefusedUnasked(x) \/ LoadRaises(x)
              \/ FetchRaises(x) \/ RaisesRecorded(x)
    <3>1. \E s : SetStage(x, s)
      BY <2>11 DEF RecordRun, RefusedUnasked, LoadRaises, FetchRaises, RaisesRecorded
    <3>. QED BY <2>8, <3>1
  <2>. QED BY <2>6, <2>7, <2>10, <2>11 DEF ScrapeStep, ScrapeFails
<1>4. Len(runs') = Len(runs)
  <2>1. ASSUME NEW v, SetRun(x, v) PROVE Len(runs') = Len(runs)
    <3>1. DOMAIN runs' = DOMAIN runs
      BY <2>1 DEF SetRun
    <3>2. runs \in Seq(Run) /\ runs' \in Seq(Run)
      BY ScrapeKeeps DEF RunsInv, RunsTypeOK
    <3>. QED BY <3>1, <3>2
  <2>. QED BY <2>1 DEF ScrapeStep, ScrapeFails, ReadLastRun, ReuseArchive, FetchForReal,
           Answer200, RecordRun, RefusedUnasked, AnswerBlocked, LoadRaises,
           FetchRaises, RaisesRecorded, Answered
<1>5. job'[x].stage # "none"
  <2>1. job'[x].stage = "none" => job'[x] = NoJob
    BY ScrapeKeeps DEF RunsInv, JobsOwn
  <2>2. job[x].run \in RunNo /\ 0 \notin RunNo
    BY <1>1, RunsTypes DEF RunsInv, JobsOwn
  <2>. QED BY <1>3, <2>1, <2>2 DEF NoJob
<1>. QED BY <1>1, <1>3, <1>4, <1>5

LEMMA CallKeeps ==
  ASSUME RunsInv, HandleInv, NEW t \in Task, Call(t)
  PROVE  RunsInv' /\ HandleInv'
<1>1. RunsInv'
  BY RunsStutter DEF Call
<1>2. /\ tpc[t] = "idle" /\ queue' = Append(queue, t)
      /\ UNCHANGED <<runs, job, prev, last, chain>>
      /\ tpc' \in [Task -> {"idle", "refresh", "check", "diff"}]
      /\ tpc'[t] \in {"refresh", "check"} /\ \A u \in Task : u # t => tpc'[u] = tpc[u]
  BY DEF Call, Goto, runVars, HandleInv, HandleTypeOK
<1>3. queue \in Seq(Task) /\ t \notin Elements(queue)
  BY <1>2 DEF HandleInv, HandleTypeOK, LockOK
<1>4. /\ queue' \in Seq(Task) /\ queue' # <<>> /\ Distinct(queue')
      /\ Elements(queue') = Elements(queue) \cup {t}
  BY <1>2, <1>3, DistinctAppend DEF HandleInv, LockOK
<1>5. queue # <<>> => Head(queue') = Head(queue)
  BY <1>2, <1>3, <1>4, AppendProperties
<1>6. HandleTypeOK'
  BY <1>2, <1>4 DEF HandleInv, HandleTypeOK
<1>7. LockOK'
  BY <1>2, <1>4, <1>5 DEF HandleInv, LockOK, Holds
<1>8. ChainOK'
  BY <1>2 DEF HandleInv, ChainOK
<1>. QED BY <1>1, <1>6, <1>7, <1>8 DEF HandleInv

LEMMA AcquireKeeps ==
  ASSUME RunsInv, HandleInv, NEW t \in Task, Acquire(t)
  PROVE  RunsInv' /\ HandleInv'
<1>1. RunsInv'
  BY BeginKeeps, Callers DEF Acquire
<1>2. /\ Holds(t) /\ prev' = [prev EXCEPT ![t] = last] /\ BeginScrape(t)
      /\ UNCHANGED <<queue, tpc, last, chain>>
  BY DEF Acquire
<1>3. /\ Len(runs) \in Nat /\ Len(runs') = Len(runs) + 1
      /\ job'[t].run = Len(runs) + 1 /\ job'[t].stage # "none"
      /\ \A u \in Task : u # t => job'[u] = job[u]
  <2>1. PICK q \in Requests[t] :
          /\ runs' = Append(runs, NewRun(q))
          /\ job' = [job EXCEPT ![t] = [NoJob EXCEPT !.stage = "started",
                                                    !.run = Len(runs) + 1]]
    BY <1>2 DEF BeginScrape, SetJob
  <2>2. runs \in Seq(Run) /\ NewRun(q) \in Run /\ Len(runs) \in Nat
    BY RecordsOfJobs, RunsTypes, RunsAssumption, Callers DEF RunsInv, RunsTypeOK
  <2>3. Len(runs') = Len(runs) + 1
    BY <2>1, <2>2, AppendProperties
  <2>. QED BY <2>1, <2>2, <2>3, Callers DEF RunsInv, RunsTypeOK, NoJob
<1>4. HandleTypeOK' /\ prev'[t] = last /\ \A u \in Task : u # t => prev'[u] = prev[u]
  BY <1>2, <1>3 DEF HandleInv, HandleTypeOK
<1>5. last < job'[t].run
  BY <1>3 DEF HandleInv, HandleTypeOK
<1>6. LockOK'
  BY <1>2, <1>3, <1>4, <1>5 DEF HandleInv, LockOK, Holds
<1>7. ChainOK'
  BY <1>2 DEF HandleInv, ChainOK
<1>. QED BY <1>1, <1>4, <1>6, <1>7 DEF HandleInv

(* The handle's last run and the chain of results, when t releases the lock.*)
Remembers(t) ==
  /\ job[t].stage # "none" /\ last' = job[t].run
  /\ chain' = Append(chain, <<prev[t], job[t].run>>)

LEMMA LeaveKeeps ==
  ASSUME RunsInv, HandleInv, NEW t \in Task, Leave(t),
         UNCHANGED <<page, now, runs, changes>>, failures' \in 0..MaxFailures,
         UNCHANGED <<last, chain>> \/ Remembers(t)
  PROVE  RunsInv' /\ HandleInv'
<1>1. RunsInv'
  <2>1. RestOK'
    BY DEF RunsInv, RunsTypeOK, RestOK
  <2>. QED BY <2>1, CloseKeeps, Callers DEF Leave
<1>2. PICK n \in 1..Len(queue) : queue[n] = t /\ queue' = Without(queue, n)
  BY DEF Leave
<1>3. /\ queue' \in Seq(Task) /\ Distinct(queue')
      /\ Elements(queue') = Elements(queue) \ {t}
      /\ n # 1 => Head(queue') = Head(queue)
  BY <1>2, DistinctWithout DEF HandleInv, HandleTypeOK, LockOK
<1>4. Head(queue) = queue[1]
  BY <1>2 DEF HandleInv, HandleTypeOK
<1>5. /\ tpc' = [tpc EXCEPT ![t] = "idle"] /\ prev' = [prev EXCEPT ![t] = 0]
      /\ job'[t] = NoJob /\ \A u \in Task : u # t => job'[u] = job[u]
  BY Callers DEF Leave, Goto, SetJob, RunsInv, RunsTypeOK
<1>6. Len(runs) \in Nat /\ runs' = runs
  BY RunsTypes DEF RunsInv
<1>7. ASSUME Remembers(t)
      PROVE  /\ last' = job[t].run /\ last' \in 1..Len(runs) /\ last < last'
             /\ prev[t] = last /\ n = 1
             /\ \A u \in Task : u # t => job[u].stage = "none"
  <2>1. /\ last' = job[t].run /\ last' \in RunNo /\ last < last' /\ prev[t] = last
        /\ Holds(t)
    BY <1>7, Callers DEF Remembers, RunsInv, JobsOwn, HandleInv, LockOK
  <2>2. n = 1
    BY <1>2, <1>4, <2>1 DEF Holds, HandleInv, LockOK, Distinct, HandleTypeOK
  <2>3. \A u \in Task : u # t => job[u].stage = "none"
    BY <2>1 DEF HandleInv, LockOK, Holds
  <2>. QED BY <2>1, <2>2, <2>3 DEF RunNo
<1>8. HandleTypeOK'
  <2>1. last' \in 0..Len(runs)
    BY <1>6, <1>7 DEF HandleInv, HandleTypeOK
  <2>. QED BY <1>3, <1>5, <1>6, <2>1 DEF HandleInv, HandleTypeOK
<1>9. LockOK'
  <2>1. \A u \in Task : (tpc'[u] = "idle") <=> (u \notin Elements(queue'))
    BY <1>3, <1>5 DEF HandleInv, HandleTypeOK, LockOK
  <2>2. ASSUME NEW u \in Task, job'[u].stage # "none"
        PROVE  Holds(u)' /\ prev'[u] = last' /\ last' < job'[u].run
    <3>1. u # t /\ job'[u] = job[u] /\ job[u].stage # "none"
      BY <1>5, <2>2 DEF NoJob
    <3>2. Holds(u) /\ prev[u] = last /\ last < job[u].run
      BY <3>1 DEF HandleInv, LockOK
    <3>3. ~Remembers(t)
      BY <1>7, <3>1
    <3>4. last' = last /\ prev'[u] = prev[u]
      BY <1>5, <3>1, <3>3 DEF HandleInv, HandleTypeOK
    <3>5. n # 1
      BY <1>2, <1>4, <3>1, <3>2 DEF Holds
    <3>6. tpc[u] # "idle"
      <4>1. u \in Elements(queue)
        BY <1>2, <1>4, <3>2 DEF Holds, Elements, HandleInv, HandleTypeOK
      <4>. QED BY <4>1 DEF HandleInv, LockOK
    <3>7. queue' # <<>>
      <4>1. u \in Elements(queue')
        BY <1>3, <3>1, <3>6 DEF HandleInv, LockOK
      <4>. QED BY <4>1, DistinctEmpty
    <3>. QED BY <1>3, <3>1, <3>2, <3>4, <3>5, <3>7 DEF Holds
  <2>3. \A u \in Task : tpc'[u] = "diff" => job'[u].stage # "none"
    BY <1>5 DEF HandleInv, HandleTypeOK, LockOK
  <2>. QED BY <1>3, <2>1, <2>2, <2>3 DEF LockOK
<1>10. ChainOK'
  <2>1. CASE ~Remembers(t)
    BY <2>1 DEF HandleInv, ChainOK
  <2>2. CASE Remembers(t)
    <3>1. PICK m, e : m = Len(chain) + 1 /\ e = <<prev[t], job[t].run>>
      OBVIOUS
    <3>2. /\ e \in Nat \X Nat /\ e[1] = last /\ e[2] = last' /\ e[1] < e[2]
      BY <1>6, <1>7, <2>2, <3>1 DEF HandleInv, HandleTypeOK
    <3>3. /\ chain \in Seq(Nat \X Nat) /\ Len(chain) \in Nat
          /\ last = IF chain = <<>> THEN 0 ELSE chain[Len(chain)][2]
      BY DEF HandleInv, ChainOK
    <3>4. chain' = Append(chain, e)
      BY <2>2, <3>1 DEF Remembers
    <3>5. /\ chain' \in Seq(Nat \X Nat) /\ chain' # <<>> /\ Len(chain') = m
          /\ chain'[m] = e /\ \A k \in 1..Len(chain) : chain'[k] = chain[k]
      <4>1. PICK T : T = Nat \X Nat
        OBVIOUS
      <4>2. chain \in Seq(T) /\ e \in T
        BY <3>2, <3>3, <4>1
      <4>3. /\ Append(chain, e) \in Seq(T) /\ Append(chain, e) # <<>>
            /\ Len(Append(chain, e)) = Len(chain) + 1
            /\ \A k \in 1..Len(chain) : Append(chain, e)[k] = chain[k]
            /\ Append(chain, e)[Len(chain) + 1] = e
        BY <4>2, AppendProperties
      <4>. QED BY <3>1, <3>4, <4>1, <4>3
    <3>6. e[1] = IF m = 1 THEN 0 ELSE chain'[m - 1][2]
      <4>1. CASE chain = <<>>
        BY <3>1, <3>2, <3>3, <4>1
      <4>2. CASE chain # <<>>
        <5>1. m # 1 /\ m - 1 = Len(chain) /\ Len(chain) \in 1..Len(chain)
          BY <3>1, <3>3, <4>2
        <5>. QED BY <3>2, <3>3, <3>5, <4>2, <5>1
      <4>. QED BY <4>1, <4>2
    <3>7. ASSUME NEW k \in 1..Len(chain)
          PROVE  /\ chain'[k][1] = IF k = 1 THEN 0 ELSE chain'[k - 1][2]
                 /\ chain'[k][1] < chain'[k][2]
      <4>1. /\ chain[k][1] = IF k = 1 THEN 0 ELSE chain[k - 1][2]
            /\ chain[k][1] < chain[k][2]
        BY DEF HandleInv, ChainOK
      <4>2. k = 1 \/ k - 1 \in 1..Len(chain)
        BY <3>3
      <4>. QED BY <3>5, <4>1, <4>2
    <3>8. 1..m = 1..Len(chain) \cup {m}
      BY <3>1, <3>3
    <3>. QED BY <3>2, <3>5, <3>6, <3>7, <3>8 DEF ChainOK
  <2>. QED BY <2>1, <2>2
<1>. QED BY <1>1, <1>8, <1>9, <1>10 DEF HandleInv

LEMMA BeginDiffKeeps ==
  ASSUME RunsInv, HandleInv, NEW t \in Task, BeginDiff(t)
  PROVE  RunsInv' /\ HandleInv'
<1>1. UNCHANGED runVars /\ UNCHANGED <<queue, prev, last, chain>>
  BY DEF BeginDiff
<1>2. RunsInv'
  BY <1>1, RunsStutter
<1>3. /\ tpc[t] # "idle" /\ tpc'[t] # "idle" /\ job[t].stage # "none"
      /\ \A u \in Task : u # t => tpc'[u] = tpc[u]
      /\ tpc' \in [Task -> {"idle", "refresh", "check", "diff"}]
  BY DEF BeginDiff, Goto, HandleInv, HandleTypeOK
<1>4. HandleTypeOK'
  BY <1>1, <1>3 DEF HandleInv, HandleTypeOK, runVars
<1>5. LockOK'
  BY <1>1, <1>3 DEF HandleInv, LockOK, Holds, runVars
<1>6. ChainOK'
  BY <1>1 DEF HandleInv, ChainOK
<1>. QED BY <1>2, <1>4, <1>5, <1>6 DEF HandleInv

-----------------------------------------------------------------------------
Inv == RunsInv /\ HandleInv

LEMMA StartOfRuns ==
  ASSUME RunsInit
  PROVE  RunsInv /\ RunNo = {} /\ \A x \in Caller : job[x] = NoJob
<1>1. /\ runs = <<>> /\ job = [x \in Caller |-> NoJob]
      /\ page = 1 /\ now = 0 /\ changes = 0 /\ failures = 0
  BY DEF RunsInit
<1>2. RunNo = {}
  BY <1>1 DEF RunNo
<1>3. RunsTypeOK
  BY <1>1, RecordsOfJobs, RunsAssumption DEF RunsTypeOK, Content
<1>4. \A x \in Caller : job[x] = NoJob /\ job[x].stage = "none"
  BY <1>1 DEF NoJob
<1>. QED BY <1>2, <1>3, <1>4 DEF RunsInv, JobsOwn, Priors, Begun, Archived

LEMMA InvInit ==
  ASSUME Init
  PROVE  Inv
<1>1. /\ runs = <<>> /\ queue = <<>> /\ chain = <<>> /\ last = 0
      /\ prev = [t \in Task |-> 0] /\ tpc = [t \in Task |-> "idle"]
  BY DEF Init, RunsInit
<1>2. RunsInv /\ RunNo = {} /\ Len(runs) = 0
  BY <1>1, StartOfRuns DEF Init
<1>3. \A x \in Caller : job[x].stage = "none"
  BY StartOfRuns DEF Init, NoJob
<1>4. HandleTypeOK
  BY <1>1, <1>2 DEF HandleTypeOK
<1>5. LockOK
  BY <1>1, <1>3, StartOfRuns, Callers, DistinctEmpty DEF LockOK, Init
<1>6. ChainOK
  BY <1>1 DEF ChainOK
<1>. QED BY <1>2, <1>4, <1>5, <1>6 DEF Inv, HandleInv

(* A caller's scrape takes a step, or ends.                                 *)
LEMMA ScrapeInv ==
  ASSUME Inv, NEW x \in Caller, ScrapeStep(x) \/ ScrapeFails(x), UNCHANGED handleVars
  PROVE  Inv'
<1>1. RunsInv'
  BY ScrapeKeeps DEF Inv
<1>2. Len(runs) \in Nat
  BY RunsTypes DEF Inv, RunsInv
<1>. QED BY <1>1, <1>2, ScrapeOfRuns, ScrapeLeavesHandle, Callers DEF Inv

LEMMA ScrapeTooInv ==
  ASSUME Inv, NEW u \in Other, ScrapeToo(u)
  PROVE  Inv'
<1>1. /\ job[u] = NoJob /\ BeginScrape(u)
      /\ UNCHANGED <<page, now, changes, failures, handleVars>>
  BY DEF ScrapeToo
<1>2. RunsInv'
  BY <1>1, BeginKeeps, Callers DEF Inv
<1>3. Len(runs) \in Nat /\ Len(runs') \in Nat /\ Len(runs') >= Len(runs)
  <2>1. PICK q \in Requests[u] : runs' = Append(runs, NewRun(q))
    BY <1>1 DEF BeginScrape
  <2>2. runs \in Seq(Run) /\ NewRun(q) \in Run /\ Len(runs) \in Nat
    BY RecordsOfJobs, RunsTypes, RunsAssumption, Callers DEF Inv, RunsInv, RunsTypeOK
  <2>. QED BY <2>1, <2>2, AppendProperties
<1>4. \A t \in Task : job'[t] = job[t]
  BY <1>1, Callers DEF BeginScrape, SetJob, Inv, RunsInv, RunsTypeOK
<1>. QED BY <1>1, <1>2, <1>3, <1>4, ScrapeLeavesHandle DEF Inv

LEMMA WorldInv ==
  ASSUME Inv, World, UNCHANGED handleVars
  PROVE  Inv'
<1>1. RunsInv'
  BY WorldKeeps DEF Inv
<1>2. Len(runs) \in Nat /\ Len(runs') = Len(runs) /\ job' = job
  <2>1. Len(runs) \in Nat
    BY RunsTypes DEF Inv, RunsInv
  <2>2. CASE PageChanges \/ Tick
    BY <2>1, <2>2 DEF PageChanges, Tick
  <2>3. CASE ArchiveLost
    <3>1. DOMAIN runs' = DOMAIN runs /\ job' = job
      BY <2>3 DEF ArchiveLost
    <3>2. runs \in Seq(Run) /\ runs' \in Seq(Run)
      BY <1>1 DEF Inv, RunsInv, RunsTypeOK
    <3>. QED BY <2>1, <3>1, <3>2
  <2>. QED BY <2>2, <2>3 DEF World
<1>. QED BY <1>1, <1>2, ScrapeLeavesHandle DEF Inv

(* A call comes back to its coroutine.                                      *)
LEMMA LeaveInv ==
  ASSUME Inv, NEW t \in Task,
         CheckReturns(t) \/ RefreshReturns(t) \/ DiffReturns(t) \/ ScrapeRaises(t)
           \/ Cancel(t)
  PROVE  Inv'
<1>1. failures \in 0..MaxFailures /\ RunsTypeOK
  BY DEF Inv, RunsInv, RunsTypeOK
<1>2. CASE CheckReturns(t) \/ RefreshReturns(t) \/ DiffReturns(t)
  <2>1. Remember(t)
    BY <1>2 DEF CheckReturns, RefreshReturns, DiffReturns
  <2>2. job[t].stage # "none"
    <3>1. CASE CheckReturns(t) \/ RefreshReturns(t)
      BY <3>1 DEF CheckReturns, RefreshReturns
    <3>2. CASE DiffReturns(t)
      BY <3>2 DEF DiffReturns, Inv, HandleInv, LockOK
    <3>. QED BY <1>2, <3>1, <3>2
  <2>. QED BY <1>1, <2>1, <2>2, LeaveKeeps DEF Inv, Remember, Remembers
<1>3. CASE ScrapeRaises(t)
  BY <1>1, <1>3, LeaveKeeps DEF Inv, ScrapeRaises
<1>4. CASE Cancel(t)
  BY <1>1, <1>4, Fails, LeaveKeeps DEF Inv, Cancel
<1>. QED BY <1>2, <1>3, <1>4

LEMMA InvNext ==
  ASSUME Inv, [Next]_vars
  PROVE  Inv'
<1>1. CASE UNCHANGED vars
  <2>1. RunsInv' /\ runs' = runs /\ job' = job /\ UNCHANGED handleVars
    BY <1>1, RunsStutter DEF Inv, vars, runVars
  <2>2. Len(runs) \in Nat
    BY RunsTypes DEF Inv, RunsInv
  <2>. QED BY <2>1, <2>2, ScrapeLeavesHandle DEF Inv
<1>2. ASSUME NEW t \in Task, Call(t) \/ HandleStep(t) \/ Cancel(t)
      PROVE  Inv'
  <2>1. CASE Call(t)
    BY <2>1, CallKeeps DEF Inv
  <2>2. CASE Acquire(t)
    BY <2>2, AcquireKeeps DEF Inv
  <2>3. CASE BeginDiff(t)
    BY <2>3, BeginDiffKeeps DEF Inv
  <2>4. CASE CheckReturns(t) \/ RefreshReturns(t) \/ DiffReturns(t) \/ ScrapeRaises(t)
               \/ Cancel(t)
    BY <2>4, LeaveInv
  <2>5. CASE ScrapeStep(t) /\ UNCHANGED handleVars
    BY <2>5, ScrapeInv, Callers
  <2>. QED BY <1>2, <2>1, <2>2, <2>3, <2>4, <2>5 DEF HandleStep
<1>3. ASSUME NEW u \in Other, ScrapeToo(u) \/ (ScrapeStep(u) /\ UNCHANGED handleVars)
      PROVE  Inv'
  BY <1>3, ScrapeTooInv, ScrapeInv, Callers
<1>4. ASSUME NEW x \in Caller, ScrapeFails(x), UNCHANGED handleVars
      PROVE  Inv'
  BY <1>4, ScrapeInv
<1>5. ASSUME World, UNCHANGED handleVars PROVE Inv'
  BY <1>5, WorldInv
<1>. QED BY <1>1, <1>2, <1>3, <1>4, <1>5 DEF Next

(* Whatever is true of the runs and the handle in every state.              *)
THEOREM HandleInvariant == Spec => []Inv
<1>1. Init => Inv
  BY InvInit
<1>2. Inv /\ [Next]_vars => Inv'
  BY InvNext
<1>. QED BY <1>1, <1>2, PTL DEF Spec

-----------------------------------------------------------------------------
LEMMA InvTypeOK ==
  ASSUME Inv
  PROVE  TypeOK
BY DEF Inv, RunsInv, HandleInv, HandleTypeOK, TypeOK

LEMMA InvArchive ==
  ASSUME Inv
  PROVE  ArchiveIsWhatWasSeen
<1> SUFFICES ASSUME NEW r \in DOMAIN runs, runs[r].row, runs[r].path # 0
             PROVE  \/ /\ Archive(r) # <<>>
                       /\ LET t == Archive(r)[1] IN
                          IF t.of \in Binary THEN runs[r].saw \in {t, Redact(t), Loaded(t)}
                          ELSE runs[r].saw = t
                    \/ Archive(r) = <<>> /\ runs[runs[r].path].lost
  BY DEF ArchiveIsWhatWasSeen
<1>1. r \in RunNo
  BY DEF Inv, RunsInv, RunsTypeOK, RunNo
<1>2. PathOK(r) /\ RowOK(r)
  BY <1>1 DEF Inv, RunsInv
<1>3. CASE Archive(r) = <<>>
  BY <1>2, <1>3 DEF PathOK
<1>4. CASE Archive(r) # <<>>
  BY <1>2, <1>4 DEF RowOK, Sees
<1>. QED BY <1>3, <1>4

LEMMA InvRaw ==
  ASSUME Inv
  PROVE  RawOnlyOfRefused
<1> SUFFICES ASSUME Redacts, NEW r \in DOMAIN runs, runs[r].row, runs[r].ok,
                    Archive(r) # <<>>
             PROVE  Presentable(Archive(r)[1])
  BY DEF RawOnlyOfRefused, Presentable
<1>1. r \in RunNo
  BY DEF Inv, RunsInv, RunsTypeOK, RunNo
<1>. QED BY <1>1 DEF Inv, RunsInv, RowOK

LEMMA InvGeo ==
  ASSUME Inv
  PROVE  GeoKept
<1>1. DOMAIN runs = RunNo
  BY DEF Inv, RunsInv, RunsTypeOK, RunNo
<1>2. \A r \in RunNo : RowOK(r)
  BY DEF Inv, RunsInv
<1>. QED BY <1>1, <1>2 DEF GeoKept, RowOK

LEMMA InvChain ==
  ASSUME Inv
  PROVE  RefreshesChain
<1>1. DOMAIN chain = 1..Len(chain)
  BY DEF Inv, HandleInv, ChainOK
<1>. QED BY <1>1 DEF Inv, HandleInv, ChainOK, RefreshesChain

(* Every variable of scrape() and the handle keeps its type.                *)
THEOREM TypeCorrect == Spec => []TypeOK
BY HandleInvariant, InvTypeOK, PTL

(* The archive a recorded run points to has what that run got, also when it *)
(* was taken over on a 304, whoever else recorded, lost or raised meanwhile *)
(* (api.py:145-160, replay/store.py, replay/snapshots.py).                  *)
THEOREM ArchivesAreWhatWasSeen == Spec => []ArchiveIsWhatWasSeen
BY HandleInvariant, InvArchive, PTL

(* With redact_snapshots nothing unmasked is archived of an accepted text   *)
(* (api.py:225-247), through any number of 304s.                            *)
THEOREM SnapshotsRedacted == Spec => []RawOnlyOfRefused
BY HandleInvariant, InvRaw, PTL

(* The geo policy is kept by every run without an error (policy/geo.py).    *)
THEOREM GeoPolicyKept == Spec => []GeoKept
BY HandleInvariant, InvGeo, PTL

(* A Watch's results form a chain: each is compared with the one before it  *)
(* (watch.py:69), however many coroutines share the handle.                 *)
THEOREM ResultsChain == Spec => []RefreshesChain
BY HandleInvariant, InvChain, PTL

-----------------------------------------------------------------------------
(* What a scrape that is over says to Watch.refresh.                        *)

(* Two texts of one page: what is no text may be decoded or not.            *)
SameText(s, t) == s.of = t.of /\ (s.of \notin Binary => s = t)

(* A scrape that took over its prior's text says so; any other points to    *)
(* its own archive or, refused, to none.                                    *)
OutcomeOK(x) ==
  /\ job[x].stage \in {"started", "fetching"} => ~job[x].notModified
  /\ job[x].stage = "archived" /\ job[x].notModified =>
       Settled(job[x].prior) /\ SameText(job[x].text, runs[job[x].prior].saw)
  /\ job[x].stage = "over" =>
       /\ RunOf(x).row
       /\ ~job[x].notModified => RunOf(x).path \in {0, job[x].run}
       /\ job[x].notModified =>
            Settled(job[x].prior) /\ SameText(RunOf(x).saw, runs[job[x].prior].saw)

RowStays(r) ==
  /\ r \in RunNo' /\ runs'[r].row /\ runs'[r].ok = runs[r].ok
  /\ runs'[r].path = runs[r].path /\ runs'[r].saw = runs[r].saw

RowsStay == \A r \in RunNo : runs[r].row => RowStays(r)

LEMMA OutcomeStays ==
  ASSUME RunsInv, RowsStay, NEW x \in Caller, OutcomeOK(x), job'[x] = job[x]
  PROVE  OutcomeOK(x)'
<1>1. PICK j, p, r : j = job[x] /\ p = j.prior /\ r = j.run
  OBVIOUS
<1>2. Settled(p) => Settled(p)' /\ runs'[p].saw = runs[p].saw
  BY DEF Settled, RowsStay, RowStays
<1>3. RunOf(x) = runs[r] /\ RunOf(x)' = runs'[r]
  BY <1>1 DEF RunOf
<1>4. j.stage = "over" => /\ runs'[r].row /\ runs'[r].path = runs[r].path
                          /\ runs'[r].saw = runs[r].saw
  <2>1. j.stage = "over" => r \in RunNo /\ runs[r].row
    BY <1>1, <1>3 DEF OutcomeOK, RunsInv, JobsOwn
  <2>. QED BY <2>1 DEF RowsStay, RowStays
<1>. QED BY <1>1, <1>2, <1>3, <1>4 DEF OutcomeOK, Settled

(* The text of an archive is the one its runs saw.                          *)
LEMMA SeenText ==
  ASSUME NEW saw \in Text, NEW t \in Text, Sees(saw, t)
  PROVE  SameText(saw, t)
BY DEF Sees, SameText, Redact, Loaded, Got, Text

LEMMA LoadedText ==
  ASSUME NEW t \in Text, NEW saw \in Text, Sees(saw, t),
         Redacts => Presentable(t), NEW refused \in BOOLEAN, NEW final,
         final = IF Redacts /\ ~refused THEN Redact(Loaded(t)) ELSE Loaded(t)
  PROVE  SameText(final, saw)
<1>1. CASE t.of \in Binary
  BY <1>1 DEF Sees, SameText, Redact, Loaded, Got, Text
<1>2. CASE t.of \notin Binary
  <2>1. Loaded(t) = t /\ saw = t
    BY <1>2 DEF Sees, Loaded
  <2>2. Redacts => Redact(t) = t
    BY <1>2, ReusedText, <2>1
  <2>. QED BY <1>2, <2>1, <2>2 DEF SameText
<1>. QED BY <1>1, <1>2

(* A step of a scrape leaves the recorded rows as they are.                 *)
LEMMA ScrapeRows ==
  ASSUME RunsInv, NEW x \in Caller, ScrapeStep(x) \/ ScrapeFails(x)
  PROVE  RowsStay
<1>1. CASE runs' = runs
  BY <1>1 DEF RowsStay, RowStays, RunNo
<1>2. ASSUME NEW v, SetRun(x, v), job[x].stage \in {"started", "fetching", "archived"}
      PROVE  RowsStay
  <2>1. job[x].run \in RunNo /\ ~RunOf(x).row
    BY <1>2 DEF RunsInv, JobsOwn, Begun, Archived, Fits
  <2>2. runs \in Seq(Run) /\ DOMAIN runs = RunNo
    BY DEF RunsInv, RunsTypeOK, RunNo
  <2>3. RunNo' = RunNo
    BY ScrapeOfRuns DEF RunNo
  <2>4. \A r \in RunNo : r # job[x].run => runs'[r] = runs[r]
    BY <1>2, <2>2 DEF SetRun
  <2>. QED BY <2>1, <2>3, <2>4 DEF RowsStay, RowStays, RunOf
<1>3. CASE \/ ReadLastRun(x) \/ FetchForReal(x) \/ LoadRaises(x) \/ FetchRaises(x)
           \/ RaisesRecorded(x)
  BY <1>1, <1>3 DEF ReadLastRun, FetchForReal, LoadRaises, FetchRaises, RaisesRecorded
<1>4. CASE ReuseArchive(x) \/ Answer200(x) \/ AnswerBlocked(x)
  <2>1. job[x].stage = "fetching" /\ \E text, etag, region, m : Answered(x, text, etag, region, m)
    BY <1>4 DEF ReuseArchive, Answer200, AnswerBlocked
  <2>2. \E v : SetRun(x, v)
    BY <2>1 DEF Answered
  <2>. QED BY <1>2, <2>1, <2>2
<1>5. CASE RecordRun(x) \/ RefusedUnasked(x)
  <2>1. job[x].stage \in {"started", "archived"} /\ \E v : SetRun(x, v)
    BY <1>5 DEF RecordRun, RefusedUnasked
  <2>. QED BY <1>2, <2>1
<1>. QED BY <1>3, <1>4, <1>5 DEF ScrapeStep, ScrapeFails

(* The scrape that takes the step.                                          *)
LEMMA TurnOutcome ==
  ASSUME RunsInv, NEW x \in Caller, OutcomeOK(x),
         job[x].stage \in {"started", "fetching"}, NEW p,
         SetJob(x, [job[x] EXCEPT !.stage = "fetching", !.prior = p])
  PROVE  OutcomeOK(x)'
<1> DEFINE v == [job[x] EXCEPT !.stage = "fetching", !.prior = p]
<1>1. job[x] \in Job
  BY RunsTypes DEF RunsInv
<1>2. v.stage = "fetching" /\ v.notModified = job[x].notModified
  BY <1>1 DEF Job
<1>3. job'[x] = v
  BY DEF SetJob, RunsInv, RunsTypeOK
<1>. QED BY <1>2, <1>3 DEF OutcomeOK

LEMMA RaisedOutcome ==
  ASSUME RunsInv, NEW x \in Caller, SetStage(x, "raised")
  PROVE  OutcomeOK(x)'
<1>1. job[x] \in Job
  BY RunsTypes DEF RunsInv
<1>2. job'[x].stage = "raised"
  BY <1>1 DEF SetStage, RunsInv, RunsTypeOK, Job
<1>. QED BY <1>2 DEF OutcomeOK

LEMMA RefusedOutcome ==
  ASSUME RunsInv, NEW x \in Caller, OutcomeOK(x), RefusedUnasked(x)
  PROVE  OutcomeOK(x)'
<1>1. job[x] \in Job /\ job[x].run \in RunNo /\ RunOf(x) \in Run /\ RunOf(x).path = 0
  BY RunsTypes DEF RunsInv, JobsOwn, RunOf, Begun, RefusedUnasked
<1>2. job'[x].stage = "over" /\ job'[x].run = job[x].run
      /\ job'[x].notModified = job[x].notModified
  BY <1>1 DEF RefusedUnasked, SetStage, RunsInv, RunsTypeOK, Job
<1>3. [RunOf(x) EXCEPT !.row = TRUE] \in Run
  BY <1>1 DEF Run
<1>4. runs'[job[x].run] = [RunOf(x) EXCEPT !.row = TRUE]
  BY <1>1, <1>3, SetRunParts DEF RefusedUnasked, RunsInv
<1>5. RunOf(x)'.row /\ RunOf(x)'.path = 0
  BY <1>1, <1>2, <1>4 DEF RunOf, Run
<1>. QED BY <1>2, <1>5 DEF OutcomeOK, RefusedUnasked

LEMMA AnsweredOutcome ==
  ASSUME RunsInv, NEW x \in Caller, OutcomeOK(x), job[x].stage = "fetching",
         RowsStay, NEW text, NEW etag, NEW region, NEW notModified \in BOOLEAN,
         Answered(x, text, etag, region, notModified),
         notModified => /\ job[x].prior # 0 /\ Archive(job[x].prior) # <<>>
                        /\ text = Loaded(Archive(job[x].prior)[1])
  PROVE  OutcomeOK(x)'
<1>1. PICK p, a, refused, final :
        /\ p = job[x].prior /\ a = Archive(p)
        /\ refused = (text.of = wall \/ ~IsAllowed(RequestOf(x), region))
        /\ final = IF Redacts /\ ~refused THEN Redact(text) ELSE text
  OBVIOUS
<1>2. SetJob(x, [job[x] EXCEPT !.stage = "archived", !.text = final, !.etag = etag,
                               !.region = region, !.notModified = notModified,
                               !.refused = refused])
  BY <1>1 DEF Answered
<1>3. job[x] \in Job
  BY RunsTypes DEF RunsInv
<1>4. /\ job'[x].stage = "archived" /\ job'[x].prior = p
      /\ job'[x].notModified = notModified /\ job'[x].text = final
  BY <1>1, <1>2, <1>3 DEF SetJob, RunsInv, RunsTypeOK, Job
<1>5. ASSUME notModified
      PROVE  Settled(p)' /\ SameText(final, runs'[p].saw)
  <2>1. Settled(p) /\ a # <<>> /\ text = Loaded(a[1])
    BY <1>1, <1>5 DEF RunsInv, Priors
  <2>2. PathOK(p) /\ RowOK(p) /\ p \in RunNo
    BY <2>1 DEF RunsInv, Settled
  <2>3. a[1] \in Text /\ runs[p].saw \in Text
    BY <1>1, <2>1, <2>2, RunsTypes DEF Settled, RunsInv, PathOK, Archive
  <2>4. Sees(runs[p].saw, a[1]) /\ (Redacts => Presentable(a[1]))
    BY <1>1, <2>1, <2>2 DEF Settled, RowOK
  <2>5. refused \in BOOLEAN
    BY <1>1
  <2>6. SameText(final, runs[p].saw)
    BY <1>1, <2>1, <2>3, <2>4, <2>5, LoadedText
  <2>. QED BY <2>1, <2>6 DEF Settled, RowsStay, RowStays
<1>. QED BY <1>4, <1>5 DEF OutcomeOK, Settled

LEMMA RecordOutcome ==
  ASSUME RunsInv, NEW x \in Caller, OutcomeOK(x), RowsStay, RecordRun(x)
  PROVE  OutcomeOK(x)'
<1>1. PICK j, o, p, n, path, region, ok :
        /\ j = job[x] /\ o = RunOf(x) /\ p = j.prior /\ n = j.run
        /\ path = IF j.notModified /\ ~j.refused THEN runs[p].path ELSE n
        /\ region = IF j.notModified THEN runs[p].region ELSE j.region
        /\ ok = ~j.refused
  OBVIOUS
<1>2. /\ j.stage = "archived" /\ SetStage(x, "over")
      /\ SetRun(x, [o EXCEPT !.row = TRUE, !.saw = j.text, !.ok = ok, !.etag = j.etag,
                             !.path = path, !.region = region])
  BY <1>1 DEF RecordRun
<1>3. j \in Job /\ n \in RunNo /\ o \in Run
  BY <1>1, <1>2, RunsTypes DEF RunsInv, JobsOwn, RunOf
<1>4. /\ job'[x].stage = "over" /\ job'[x].run = n /\ job'[x].prior = p
      /\ job'[x].notModified = j.notModified
  BY <1>1, <1>2, <1>3 DEF SetStage, RunsInv, RunsTypeOK, Job
<1>5. n \in DOMAIN runs
  BY <1>3 DEF RunsInv, RunsTypeOK, RunNo
<1>6. runs'[n].row /\ runs'[n].saw = j.text /\ runs'[n].path = path
  BY <1>1, <1>2, <1>3, <1>5 DEF SetRun, Run
<1>7. j.notModified => Settled(p)' /\ SameText(j.text, runs'[p].saw)
  BY <1>1, <1>2 DEF OutcomeOK, Settled, RowsStay, RowStays
<1>. QED BY <1>1, <1>4, <1>6, <1>7 DEF OutcomeOK, RunOf, Settled

LEMMA ScrapeOutcome ==
  ASSUME RunsInv, NEW x \in Caller, OutcomeOK(x), ScrapeStep(x) \/ ScrapeFails(x)
  PROVE  OutcomeOK(x)'
<1>1. RowsStay
  BY ScrapeRows
<1>2. job[x] \in Job
  BY RunsTypes DEF RunsInv
<1>3. CASE ReadLastRun(x)
  BY <1>3, TurnOutcome DEF ReadLastRun
<1>4. CASE FetchForReal(x)
  <2>1. [job[x] EXCEPT !.prior = 0] = [job[x] EXCEPT !.stage = "fetching", !.prior = 0]
    BY <1>2, <1>4 DEF Job, FetchForReal
  <2>. QED BY <1>4, <2>1, TurnOutcome DEF FetchForReal
<1>5. CASE ReuseArchive(x)
  BY <1>1, <1>5, AnsweredOutcome DEF ReuseArchive, Matches
<1>6. CASE Answer200(x)
  <2>1. PICK etag, region : Answered(x, Raw(page), etag, region, FALSE)
    BY <1>6 DEF Answer200
  <2>. QED BY <1>1, <1>6, <2>1, AnsweredOutcome DEF Answer200
<1>7. CASE AnswerBlocked(x)
  BY <1>1, <1>7, AnsweredOutcome DEF AnswerBlocked
<1>8. CASE RecordRun(x)
  BY <1>1, <1>8, RecordOutcome
<1>9. CASE RefusedUnasked(x)
  BY <1>9, RefusedOutcome
<1>10. CASE LoadRaises(x) \/ FetchRaises(x) \/ RaisesRecorded(x)
  BY <1>10, RaisedOutcome DEF LoadRaises, FetchRaises, RaisesRecorded
<1>. QED BY <1>3, <1>4, <1>5, <1>6, <1>7, <1>8, <1>9, <1>10 DEF ScrapeStep, ScrapeFails

-----------------------------------------------------------------------------
(* The daemon.  A cursor is the number of a recorded run, or none.          *)
Recorded(r) == r = 0 \/ (r \in RunNo /\ runs[r].row)

ServiceTypes ==
  /\ row \in [WatchId -> {"absent", "on", "off", "removed"}]
  /\ lastRun \in [WatchId -> Nat]
  /\ checkedAt \in [WatchId -> {Never} \cup 0..MaxTime]
  /\ triedAt \in [WatchId -> {Never} \cup 0..MaxTime]
  /\ dpc \in {"idle", "ticking", "checking", "notifying", "down"}
  /\ due \in SUBSET (WatchId \X Nat) /\ tickAt \in 0..MaxTime
  /\ unsent \in Nat /\ crashes \in 0..failures

(* Who is checked, and the run it is checked against; the scrape of a check *)
(* is none of those runs.                                                   *)
CursorsOK ==
  /\ \A w \in WatchId : Recorded(lastRun[w])
  /\ \A e \in due : Recorded(e[2])
  /\ dpc # "checking" => job[Daemon] = NoJob
  /\ dpc = "checking" =>
       /\ cur \in WatchId \X Nat /\ Recorded(cur[2])
       /\ job[Daemon].stage # "none"
       /\ cur[2] # 0 => /\ cur[2] # job[Daemon].run
                        /\ runs[cur[2]].path # job[Daemon].run

(* The cursor of a watch tells when it was last tried, until it is removed; *)
(* a tick checks each watch once, and only those whose interval is over.    *)
SpacingOK ==
  /\ \A w \in WatchId : row[w] # "removed" => checkedAt[w] = triedAt[w]
  /\ \A e, f \in due : e[1] = f[1] => e = f
  /\ \A e \in due :
       /\ row[e[1]] # "absent"
       /\ triedAt[e[1]] # Never => tickAt >= triedAt[e[1]] + Interval[e[1]]
  /\ dpc \in {"idle", "down"} => due = {}
  /\ dpc = "checking" => /\ row[cur[1]] # "absent"
                         /\ \A e \in due : e[1] # cur[1]

NotesOK ==
  /\ dpc = "notifying" => unsent > 0
  /\ unsent <= crashes + (IF dpc = "notifying" THEN 1 ELSE 0)

Outcomes == \A x \in Caller : OutcomeOK(x)

ServiceInv ==
  RunsInv /\ Outcomes /\ ServiceTypes /\ CursorsOK /\ SpacingOK /\ NotesOK

LEMMA DaemonCalls == Daemon \in Caller /\ User \subseteq Caller /\ Daemon \notin User
BY WatchAssumption

LEMMA RecordedStays ==
  ASSUME RowsStay, NEW r, Recorded(r)
  PROVE  Recorded(r)' /\ (r # 0 => runs'[r].path = runs[r].path)
BY DEF Recorded, RowsStay, RowStays

(* A step that is none of the daemon's own.                                 *)
LEMMA DaemonUndisturbed ==
  ASSUME ServiceInv, RunsInv', RowsStay, Outcomes', failures' >= failures,
         UNCHANGED <<lastRun, checkedAt, daemonVars, noteVars>>,
         job'[Daemon].stage = "none" <=> job[Daemon].stage = "none",
         job[Daemon].stage # "none" => job'[Daemon].run = job[Daemon].run,
         row' \in [WatchId -> {"absent", "on", "off", "removed"}],
         \A w \in WatchId : /\ row'[w] # "removed" => row[w] # "removed"
                            /\ row[w] # "absent" => row'[w] # "absent"
  PROVE  ServiceInv'
<1> USE DaemonCalls DEF daemonVars, noteVars
<1>1. failures \in Nat /\ failures' \in Nat
  BY RunsAssumption DEF ServiceInv, RunsInv, RunsTypeOK
<1>2. ServiceTypes'
  BY <1>1 DEF ServiceInv, ServiceTypes
<1>3. CursorsOK'
  <2>1. ASSUME NEW w \in WatchId PROVE Recorded(lastRun[w])'
    <3>1. PICK r : r = lastRun[w]
      OBVIOUS
    <3>2. Recorded(r)'
      BY <3>1, RecordedStays DEF ServiceInv, CursorsOK
    <3>. QED BY <3>1, <3>2 DEF Recorded
  <2>2. \A e \in due' : Recorded(e[2])'
    BY RecordedStays DEF ServiceInv, CursorsOK
  <2>3. ASSUME dpc' # "checking" PROVE job'[Daemon] = NoJob
    <3>1. job[Daemon] = NoJob
      BY <2>3 DEF ServiceInv, CursorsOK
    <3>2. job'[Daemon].stage = "none"
      BY <3>1 DEF NoJob
    <3>. QED BY <3>2 DEF RunsInv, JobsOwn
  <2>4. ASSUME dpc' = "checking"
        PROVE  /\ cur' \in WatchId \X Nat /\ Recorded(cur[2])'
               /\ job'[Daemon].stage # "none"
               /\ cur'[2] # 0 => /\ cur'[2] # job'[Daemon].run
                                 /\ runs'[cur'[2]].path # job'[Daemon].run
    <3>1. PICK r : r = cur[2]
      OBVIOUS
    <3>2. /\ cur \in WatchId \X Nat /\ Recorded(r) /\ job[Daemon].stage # "none"
          /\ r # 0 => r # job[Daemon].run /\ runs[r].path # job[Daemon].run
      BY <2>4, <3>1 DEF ServiceInv, CursorsOK
    <3>3. Recorded(r)' /\ (r # 0 => runs'[r].path = runs[r].path)
      BY <3>2, RecordedStays
    <3>. QED BY <3>1, <3>2, <3>3 DEF Recorded
  <2>. QED BY <2>1, <2>2, <2>3, <2>4 DEF CursorsOK, Recorded
<1>4. SpacingOK'
  BY DEF ServiceInv, SpacingOK, ServiceTypes, CursorsOK
<1>5. NotesOK'
  BY DEF ServiceInv, NotesOK
<1>. QED BY <1>2, <1>3, <1>4, <1>5 DEF ServiceInv

(* How often something failed only grows.                                   *)
LEMMA FailuresGrow ==
  ASSUME RunsInv,
         failures' = failures \/ (failures < MaxFailures /\ failures' = failures + 1)
  PROVE  failures' >= failures /\ failures' \in 0..MaxFailures
BY RunsAssumption DEF RunsInv, RunsTypeOK

LEMMA ScrapeServed ==
  ASSUME ServiceInv, NEW x \in Caller, ScrapeStep(x) \/ ScrapeFails(x),
         UNCHANGED <<watchVars, daemonVars, noteVars>>
  PROVE  ServiceInv'
<1>1. RunsInv' /\ RowsStay
  BY ScrapeKeeps, ScrapeRows DEF ServiceInv
<1>2. \A y \in Caller : /\ job'[y].stage = "none" <=> job[y].stage = "none"
                        /\ job'[y].run = job[y].run
  BY ScrapeOfRuns DEF ServiceInv
<1>3. ASSUME NEW y \in Caller PROVE OutcomeOK(y)'
  <2>1. y # x => job'[y] = job[y]
    BY DEF ScrapeStep, ScrapeFails, ReadLastRun, ReuseArchive, FetchForReal, Answer200,
           RecordRun, RefusedUnasked, AnswerBlocked, LoadRaises, FetchRaises,
           RaisesRecorded, Answered, SetJob, SetStage, ServiceInv, RunsInv, RunsTypeOK
  <2>. QED BY <1>1, <2>1, ScrapeOutcome, OutcomeStays DEF ServiceInv, Outcomes
<1>4. failures' = failures \/ (failures < MaxFailures /\ failures' = failures + 1)
  BY DEF ScrapeStep, ScrapeFails, ReadLastRun, ReuseArchive, FetchForReal, Answer200,
         RecordRun, RefusedUnasked, AnswerBlocked, LoadRaises, FetchRaises,
         RaisesRecorded
<1>5. failures' >= failures
  BY <1>4, FailuresGrow DEF ServiceInv
<1>6. Outcomes'
  BY <1>3 DEF Outcomes
<1>. QED BY <1>1, <1>2, <1>5, <1>6, DaemonCalls, DaemonUndisturbed
         DEF watchVars, ServiceInv, ServiceTypes

LEMMA WorldServed ==
  ASSUME ServiceInv, World, UNCHANGED <<watchVars, daemonVars, noteVars>>
  PROVE  ServiceInv'
<1>1. RunsInv' /\ job' = job
  BY WorldKeeps DEF ServiceInv, World, PageChanges, ArchiveLost, Tick
<1>2. RowsStay
  <2>1. CASE runs' = runs
    BY <2>1 DEF RowsStay, RowStays, RunNo
  <2>2. CASE ArchiveLost
    <3>1. PICK r \in DOMAIN runs :
            runs' = [runs EXCEPT ![r] = [runs[r] EXCEPT !.file = <<>>, !.lost = TRUE]]
      BY <2>2 DEF ArchiveLost
    <3>2. runs \in Seq(Run) /\ DOMAIN runs = RunNo /\ runs' \in Seq(Run)
      BY <1>1 DEF ServiceInv, RunsInv, RunsTypeOK, RunNo
    <3>3. RunNo' = RunNo
      BY <3>1, <3>2 DEF RunNo
    <3>4. ASSUME NEW q \in RunNo, runs[q].row PROVE RowStays(q)
      <4>1. runs[q] \in Run
        BY RunsTypes DEF ServiceInv, RunsInv
      <4>2. runs'[q] = runs[q] \/ runs'[q] = [runs[q] EXCEPT !.file = <<>>, !.lost = TRUE]
        BY <3>1, <3>2
      <4>. QED BY <3>3, <3>4, <4>1, <4>2 DEF RowStays, Run
    <3>. QED BY <3>4 DEF RowsStay
  <2>. QED BY <2>1, <2>2 DEF World, PageChanges, Tick
<1>3. Outcomes'
  BY <1>1, <1>2, OutcomeStays DEF ServiceInv, Outcomes
<1>4. failures' = failures \/ (failures < MaxFailures /\ failures' = failures + 1)
  BY DEF World, PageChanges, ArchiveLost, Tick
<1>5. failures' >= failures
  BY <1>4, FailuresGrow DEF ServiceInv
<1>. QED BY <1>1, <1>2, <1>3, <1>5, DaemonUndisturbed
         DEF watchVars, ServiceInv, ServiceTypes

(* Somebody's scrape begins, with a run that is no cursor of a watch.       *)
LEMMA BegunRuns ==
  ASSUME RunsInv, Outcomes, NEW x \in Caller, job[x] = NoJob, BeginScrape(x),
         UNCHANGED <<page, now, changes, failures>>
  PROVE  /\ RunsInv' /\ RowsStay /\ Outcomes'
         /\ job'[x].stage = "started" /\ job'[x].run \notin RunNo \cup {0}
         /\ \A y \in Caller \ {x} : job'[y] = job[y]
<1>1. RunsInv'
  BY BeginKeeps
<1> DEFINE n == Len(runs) + 1
           v == [NoJob EXCEPT !.stage = "started", !.run = n]
<1>2. PICK q \in Requests[x] : runs' = Append(runs, NewRun(q)) /\ SetJob(x, v)
  BY DEF BeginScrape
<1>3. runs \in Seq(Run) /\ NewRun(q) \in Run /\ Len(runs) \in Nat
  BY RecordsOfJobs, RunsTypes, RunsAssumption DEF RunsInv, RunsTypeOK
<1>4. RunNo \subseteq RunNo' /\ \A r \in RunNo : runs'[r] = runs[r]
  BY <1>2, <1>3, AppendProperties DEF RunNo
<1>5. RowsStay
  BY <1>4 DEF RowsStay, RowStays
<1>6. /\ job'[x] = v /\ v.stage = "started" /\ v.run = n /\ ~v.notModified
      /\ \A y \in Caller \ {x} : job'[y] = job[y]
  BY <1>2 DEF SetJob, RunsInv, RunsTypeOK, NoJob
<1>7. OutcomeOK(x)'
  BY <1>6 DEF OutcomeOK
<1>8. n \notin RunNo \cup {0}
  BY <1>3 DEF RunNo
<1>. QED BY <1>1, <1>5, <1>6, <1>7, <1>8, OutcomeStays DEF Outcomes

LEMMA UserServed ==
  ASSUME ServiceInv, NEW u \in User, UserScrapes(u)
  PROVE  ServiceInv'
<1>1. /\ RunsInv' /\ RowsStay /\ Outcomes' /\ job'[Daemon] = job[Daemon]
      /\ UNCHANGED <<failures, watchVars, daemonVars, noteVars>>
  BY BegunRuns, DaemonCalls DEF ServiceInv, UserScrapes
<1>2. failures' >= failures
  BY <1>1, FailuresGrow DEF ServiceInv
<1>. QED BY <1>1, <1>2, DaemonUndisturbed DEF watchVars, ServiceInv, ServiceTypes

LEMMA StutterServed ==
  ASSUME ServiceInv, UNCHANGED runVars
  PROVE  RunsInv' /\ RowsStay /\ Outcomes' /\ job' = job /\ failures' >= failures
<1>1. RunsInv' /\ job' = job /\ runs' = runs /\ failures' = failures
  BY RunsStutter DEF ServiceInv, runVars
<1>2. RowsStay
  BY <1>1 DEF RowsStay, RowStays, RunNo
<1>. QED BY <1>1, <1>2, OutcomeStays, FailuresGrow DEF ServiceInv, Outcomes

LEMMA EditServed ==
  ASSUME ServiceInv, Editing
  PROVE  ServiceInv'
<1>1. PICK w \in WatchId : AddWatch(w) \/ RemoveWatch(w) \/ Disable(w) \/ Enable(w)
  BY DEF Editing
<1>2. UNCHANGED <<runVars, lastRun, checkedAt, daemonVars, noteVars>>
  BY <1>1 DEF AddWatch, RemoveWatch, Disable, Enable, SetRow
<1>3. PICK s \in {"on", "off", "removed"} :
        row' = [row EXCEPT ![w] = s] /\ (s # "removed" => row[w] # "removed")
  BY <1>1 DEF AddWatch, RemoveWatch, Disable, Enable, SetRow
<1>. QED BY <1>2, <1>3, StutterServed, DaemonUndisturbed DEF ServiceInv, ServiceTypes

(* Steps of the daemon that scrape nothing.                                 *)
LEMMA TickBegun ==
  ASSUME ServiceInv, BeginTick
  PROVE  ServiceInv'
<1>1. /\ RunsInv' /\ RowsStay /\ Outcomes' /\ runs' = runs /\ job' = job
      /\ failures' = failures
      /\ UNCHANGED <<row, lastRun, checkedAt, triedAt, unsent, crashes, cur>>
      /\ dpc = "idle" /\ dpc' = "ticking" /\ tickAt' = now /\ due' = DueRows
  BY StutterServed DEF BeginTick, runVars, watchVars, noteVars
<1>2. ASSUME NEW e \in DueRows
      PROVE  /\ e \in WatchId \X Nat /\ Recorded(e[2]) /\ row[e[1]] = "on"
             /\ e[2] = lastRun[e[1]]
             /\ triedAt[e[1]] # Never => now >= triedAt[e[1]] + Interval[e[1]]
  <2>1. PICK w \in WatchId : IsDue(w) /\ e = <<w, lastRun[w]>>
    BY <1>2 DEF DueRows
  <2>2. lastRun[w] \in Nat /\ Recorded(lastRun[w])
    BY DEF ServiceInv, ServiceTypes, CursorsOK
  <2>3. row[w] = "on" /\ (checkedAt[w] = Never \/ checkedAt[w] + Interval[w] <= now)
    BY <2>1 DEF IsDue
  <2>4. checkedAt[w] = triedAt[w]
    BY <2>3 DEF ServiceInv, SpacingOK
  <2>5. /\ now \in Nat /\ Interval[w] \in Nat /\ checkedAt[w] \in {Never} \cup Nat
    BY WatchAssumption, RunsAssumption DEF ServiceInv, ServiceTypes, RunsInv, RunsTypeOK
  <2>. QED BY <2>1, <2>2, <2>3, <2>4, <2>5
<1>3. ServiceTypes'
  <2>1. now \in 0..MaxTime
    BY DEF ServiceInv, RunsInv, RunsTypeOK
  <2>. QED BY <1>1, <1>2, <2>1 DEF ServiceInv, ServiceTypes
<1>4. CursorsOK'
  BY <1>1, <1>2 DEF ServiceInv, CursorsOK, Recorded, RunNo
<1>5. SpacingOK'
  BY <1>1, <1>2 DEF ServiceInv, SpacingOK
<1>6. NotesOK'
  BY <1>1 DEF ServiceInv, NotesOK
<1>. QED BY <1>1, <1>3, <1>4, <1>5, <1>6 DEF ServiceInv

LEMMA PauseServed ==
  ASSUME ServiceInv, Notify \/ EndTick \/ Restart
  PROVE  ServiceInv'
<1>1. /\ RunsInv' /\ RowsStay /\ Outcomes' /\ runs' = runs /\ job' = job
      /\ failures' = failures
      /\ UNCHANGED <<row, lastRun, checkedAt, due, cur, tickAt, triedAt, crashes>>
  BY StutterServed DEF Notify, EndTick, Restart, runVars, watchVars, noteVars
<1>2. /\ dpc # "checking" /\ dpc' # "checking" /\ dpc' # "notifying"
      /\ dpc' \in {"ticking", "idle"} /\ (dpc' = "idle" => due = {})
  BY DEF Notify, EndTick, Restart, ServiceInv, SpacingOK
<1>3. IF dpc = "notifying" THEN unsent' = unsent - 1 ELSE unsent' = unsent
  BY DEF Notify, EndTick, Restart, noteVars
<1>4. unsent \in Nat /\ crashes \in Nat /\ (dpc = "notifying" => unsent > 0)
  <2>1. failures \in Nat
    BY RunsAssumption DEF ServiceInv, RunsInv, RunsTypeOK
  <2>. QED BY <2>1 DEF ServiceInv, ServiceTypes, NotesOK
<1>5. ServiceTypes'
  BY <1>1, <1>2, <1>3, <1>4 DEF ServiceInv, ServiceTypes
<1>6. CursorsOK'
  BY <1>1, <1>2 DEF ServiceInv, CursorsOK, Recorded, RunNo
<1>7. SpacingOK'
  BY <1>1, <1>2 DEF ServiceInv, SpacingOK
<1>8. NotesOK'
  BY <1>1, <1>2, <1>3, <1>4 DEF ServiceInv, NotesOK
<1>. QED BY <1>1, <1>5, <1>6, <1>7, <1>8 DEF ServiceInv

(* A check begins; its cursor and what that points to are older than its run.*)
LEMMA CheckBegun ==
  ASSUME ServiceInv, NEW e \in due, BeginCheck(e)
  PROVE  ServiceInv'
<1>1. /\ dpc = "ticking" /\ dpc' = "checking" /\ cur' = e /\ due' = due \ {e}
      /\ UNCHANGED <<page, now, changes, failures, row, lastRun, checkedAt, tickAt,
                     triedAt, unsent, crashes>>
  BY DEF BeginCheck, watchVars, noteVars
<1>2. /\ RunsInv' /\ RowsStay /\ Outcomes' /\ job'[Daemon].stage = "started"
      /\ job'[Daemon].run \notin RunNo \cup {0}
  BY <1>1, BegunRuns, DaemonCalls DEF ServiceInv, CursorsOK, BeginCheck
<1>3. e \in WatchId \X Nat /\ due \subseteq WatchId \X Nat
  BY DEF ServiceInv, ServiceTypes
<1>4. ServiceTypes'
  BY <1>1, <1>3 DEF ServiceInv, ServiceTypes
<1>5. CursorsOK'
  <2>1. ASSUME NEW w \in WatchId PROVE Recorded(lastRun[w])'
    <3>1. PICK r : r = lastRun[w]
      OBVIOUS
    <3>2. Recorded(r)'
      BY <1>2, <3>1, RecordedStays DEF ServiceInv, CursorsOK
    <3>. QED BY <1>1, <3>1, <3>2 DEF Recorded
  <2>2. \A f \in due' : Recorded(f[2])'
    BY <1>1, <1>2, RecordedStays DEF ServiceInv, CursorsOK
  <2>3. PICK r : r = e[2]
    OBVIOUS
  <2>4. Recorded(r) /\ Recorded(r)' /\ (r # 0 => runs'[r].path = runs[r].path)
    BY <1>2, <2>3, RecordedStays DEF ServiceInv, CursorsOK
  <2>5. r # 0 => r \in RunNo /\ runs[r].path \in RunNo \cup {0}
    BY <2>4 DEF Recorded, ServiceInv, RunsInv, PathOK
  <2>. QED BY <1>1, <1>2, <1>3, <2>1, <2>2, <2>3, <2>4, <2>5 DEF CursorsOK, Recorded
<1>6. SpacingOK'
  BY <1>1 DEF ServiceInv, SpacingOK
<1>7. NotesOK'
  BY <1>1 DEF ServiceInv, NotesOK
<1>. QED BY <1>2, <1>4, <1>5, <1>6, <1>7 DEF ServiceInv

LEMMA ScrapeClosed ==
  ASSUME RunsInv, Outcomes, SetJob(Daemon, NoJob), runs' = runs,
         UNCHANGED <<page, now, changes>>, failures' \in 0..MaxFailures
  PROVE  RunsInv' /\ RowsStay /\ Outcomes' /\ job'[Daemon] = NoJob
<1>1. RestOK'
  BY DEF RunsInv, RunsTypeOK, RestOK
<1>2. RunsInv'
  BY <1>1, CloseKeeps, DaemonCalls
<1>3. RowsStay
  BY DEF RowsStay, RowStays, RunNo
<1>4. job'[Daemon] = NoJob /\ \A y \in Caller \ {Daemon} : job'[y] = job[y]
  BY RecordsOfJobs, SetJobParts, DaemonCalls DEF RunsInv
<1>5. OutcomeOK(Daemon)'
  BY <1>4 DEF OutcomeOK, NoJob
<1>6. \A y \in Caller : OutcomeOK(y)'
  BY <1>3, <1>4, <1>5, OutcomeStays DEF Outcomes
<1>. QED BY <1>2, <1>3, <1>4, <1>6 DEF Outcomes

LEMMA CrashServed ==
  ASSUME ServiceInv, Crash
  PROVE  ServiceInv'
<1>1. /\ dpc' = "down" /\ due' = {} /\ failures < MaxFailures
      /\ failures' = failures + 1 /\ crashes' = crashes + 1
      /\ SetJob(Daemon, NoJob)
      /\ UNCHANGED <<page, now, runs, changes, tickAt, row, lastRun, checkedAt,
                     triedAt, unsent>>
  BY DEF Crash, watchVars
<1>2. failures' \in 0..MaxFailures /\ failures \in Nat
  BY <1>1, Fails, RunsAssumption DEF ServiceInv, RunsInv, RunsTypeOK
<1>3. RunsInv' /\ RowsStay /\ Outcomes' /\ job'[Daemon] = NoJob
  BY <1>1, <1>2, ScrapeClosed DEF ServiceInv
<1>4. ServiceTypes'
  BY <1>1, <1>2 DEF ServiceInv, ServiceTypes
<1>5. CursorsOK'
  BY <1>1, <1>3 DEF ServiceInv, CursorsOK, Recorded, RunNo
<1>6. SpacingOK'
  BY <1>1 DEF ServiceInv, SpacingOK
<1>7. NotesOK'
  <2>1. unsent \in Nat /\ crashes \in Nat
    BY <1>2 DEF ServiceInv, ServiceTypes
  <2>. QED BY <1>1, <2>1 DEF ServiceInv, NotesOK
<1>. QED BY <1>3, <1>4, <1>5, <1>6, <1>7 DEF ServiceInv

(* A check ends, with cursor r.                                             *)
LEMMA CheckEnded ==
  ASSUME ServiceInv, CheckSucceeds \/ CheckFails
  PROVE  ServiceInv'
<1>1. PICK w, r :
        /\ w = cur[1]
        /\ r = IF job[Daemon].stage = "over" THEN job[Daemon].run ELSE cur[2]
  OBVIOUS
<1>2. /\ dpc = "checking" /\ RecordCheck(w, r) /\ Tried(w) /\ SetJob(Daemon, NoJob)
      /\ UNCHANGED <<page, now, runs, changes, failures, due, tickAt, crashes>>
      /\ \/ unsent' = unsent + 1 /\ dpc' = "notifying"
         \/ unsent' = unsent /\ dpc' = "ticking"
  BY <1>1 DEF CheckSucceeds, CheckFails
<1>3. w \in WatchId /\ r \in Nat /\ Recorded(r)
  <2>1. cur \in WatchId \X Nat /\ Recorded(cur[2])
    BY <1>2 DEF ServiceInv, CursorsOK
  <2>2. job[Daemon].stage = "over" => RunOf(Daemon).row /\ job[Daemon].run \in RunNo
    BY DaemonCalls DEF ServiceInv, Outcomes, OutcomeOK, RunsInv, JobsOwn
  <2>. QED BY <1>1, <2>1, <2>2, RunsTypes DEF Recorded, RunOf, ServiceInv, RunsInv
<1>4. failures \in 0..MaxFailures /\ failures \in Nat
  BY RunsAssumption DEF ServiceInv, RunsInv, RunsTypeOK
<1>5. RunsInv' /\ RowsStay /\ Outcomes' /\ job'[Daemon] = NoJob
  BY <1>2, <1>4, ScrapeClosed DEF ServiceInv
<1>6. /\ lastRun' \in {lastRun, [lastRun EXCEPT ![w] = r]} /\ row' = row
      /\ IF row[w] \in {"on", "off"} THEN checkedAt' = [checkedAt EXCEPT ![w] = tickAt]
         ELSE checkedAt' = checkedAt
      /\ triedAt' = [triedAt EXCEPT ![w] = tickAt]
  BY <1>2 DEF RecordCheck, Tried
<1>7. ServiceTypes'
  BY <1>2, <1>3, <1>6 DEF ServiceInv, ServiceTypes
<1>8. CursorsOK'
  BY <1>2, <1>3, <1>5, <1>6 DEF ServiceInv, CursorsOK, ServiceTypes, Recorded, RunNo
<1>9. SpacingOK'
  <2>1. row[w] # "absent" /\ \A e \in due : e[1] # w
    BY <1>1, <1>2 DEF ServiceInv, SpacingOK
  <2>2. due \subseteq WatchId \X Nat /\ \A v \in WatchId : row[v] \in {"absent", "on", "off", "removed"}
    BY DEF ServiceInv, ServiceTypes
  <2>3. \A v \in WatchId : row'[v] # "removed" => checkedAt'[v] = triedAt'[v]
    BY <1>3, <1>6, <2>1, <2>2 DEF ServiceInv, ServiceTypes, SpacingOK
  <2>4. \A e \in due : triedAt'[e[1]] = triedAt[e[1]]
    BY <1>3, <1>6, <2>1, <2>2 DEF ServiceInv, ServiceTypes
  <2>. QED BY <1>2, <1>6, <2>1, <2>3, <2>4 DEF ServiceInv, SpacingOK
<1>10. NotesOK'
  BY <1>2, <1>4 DEF ServiceInv, NotesOK, ServiceTypes
<1>. QED BY <1>5, <1>7, <1>8, <1>9, <1>10 DEF ServiceInv

LEMMA InitServed ==
  ASSUME ServiceInit
  PROVE  ServiceInv
<1>1. RunsInv
  BY StartOfRuns DEF ServiceInit
<1>2. /\ row = [w \in WatchId |-> "absent"] /\ lastRun = [w \in WatchId |-> 0]
      /\ checkedAt = [w \in WatchId |-> Never] /\ triedAt = [w \in WatchId |-> Never]
      /\ dpc = "idle" /\ due = {} /\ tickAt = 0 /\ unsent = 0 /\ crashes = 0
      /\ failures = 0 /\ \A x \in Caller : job[x] = NoJob
  BY DEF ServiceInit, RunsInit
<1>3. Outcomes
  BY <1>2 DEF Outcomes, OutcomeOK, NoJob
<1>4. ServiceTypes
  BY <1>2, RunsAssumption DEF ServiceTypes
<1>5. CursorsOK
  BY <1>2, DaemonCalls DEF CursorsOK, Recorded
<1>6. SpacingOK
  BY <1>2 DEF SpacingOK
<1>7. NotesOK
  BY <1>2 DEF NotesOK
<1>. QED BY <1>1, <1>3, <1>4, <1>5, <1>6, <1>7 DEF ServiceInv

LEMMA ServedNext ==
  ASSUME ServiceInv, [ServiceNext]_serviceVars
  PROVE  ServiceInv'
<1>1. CASE UNCHANGED serviceVars
  <2>1. UNCHANGED <<runVars, watchVars, daemonVars, noteVars>>
    BY <1>1 DEF serviceVars
  <2>. QED BY <2>1, StutterServed, DaemonUndisturbed DEF watchVars, ServiceInv, ServiceTypes
<1>2. CASE DaemonStep
  <2>1. CASE Scrape(Daemon)
    BY <2>1, ScrapeServed, DaemonCalls DEF Scrape
  <2>2. CASE BeginTick
    BY <2>2, TickBegun
  <2>3. ASSUME NEW e \in due, BeginCheck(e) PROVE ServiceInv'
    BY <2>3, CheckBegun
  <2>4. CASE CheckSucceeds \/ CheckFails
    BY <2>4, CheckEnded
  <2>5. CASE Notify \/ EndTick
    BY <2>5, PauseServed
  <2>. QED BY <1>2, <2>1, <2>2, <2>3, <2>4, <2>5 DEF DaemonStep
<1>3. CASE Crash
  BY <1>3, CrashServed
<1>4. CASE Restart
  BY <1>4, PauseServed
<1>5. ASSUME NEW u \in User, Scrape(u) \/ UserScrapes(u) PROVE ServiceInv'
  BY <1>5, ScrapeServed, UserServed, DaemonCalls DEF Scrape
<1>6. CASE Editing
  BY <1>6, EditServed
<1>7. CASE Outside
  BY <1>7, ScrapeServed, WorldServed DEF Outside
<1>. QED BY <1>1, <1>2, <1>3, <1>4, <1>5, <1>6, <1>7 DEF ServiceNext

(* Whatever is true of the runs, the watches and the daemon in every state. *)
THEOREM ServiceInvariant == ServiceSpec => []ServiceInv
<1>1. ServiceInit => ServiceInv
  BY InitServed
<1>2. ServiceInv /\ [ServiceNext]_serviceVars => ServiceInv'
  BY ServedNext
<1>. QED BY <1>1, <1>2, PTL DEF ServiceSpec

-----------------------------------------------------------------------------
LEMMA ServedTypes ==
  ASSUME ServiceInv
  PROVE  ServiceTypeOK
<1>1. Len(runs) \in Nat /\ failures \in 0..MaxFailures /\ crashes \in 0..failures
  BY RunsTypes DEF ServiceInv, ServiceTypes, RunsInv, RunsTypeOK
<1>2. crashes \in 0..MaxFailures
  BY <1>1, RunsAssumption
<1>3. ASSUME NEW w \in WatchId
      PROVE  /\ lastRun[w] \in 0..Len(runs)
             /\ lastRun[w] # 0 => runs[lastRun[w]].row
             /\ {checkedAt[w], triedAt[w]} \subseteq {Never} \cup 0..MaxTime
  BY <1>1 DEF ServiceInv, ServiceTypes, CursorsOK, Recorded, RunNo
<1>. QED BY <1>2, <1>3 DEF ServiceInv, ServiceTypes, ServiceTypeOK, RunsInv

LEMMA ServedNotes ==
  ASSUME ServiceInv
  PROVE  ChangesNotified
BY DEF ServiceInv, ServiceTypes, NotesOK, ChangesNotified

(* The step that begins a check.                                            *)
LEMMA Spaced ==
  ASSUME ServiceInv, [ServiceNext]_serviceVars, dpc = "ticking", dpc' = "checking"
  PROVE  triedAt[cur'[1]] # Never => tickAt >= triedAt[cur'[1]] + Interval[cur'[1]]
<1>1. PICK e \in due : BeginCheck(e)
  BY DEF ServiceNext, DaemonStep, Scrape, BeginTick, CheckSucceeds, CheckFails, Notify,
         EndTick, Crash, Restart, UserScrapes, Editing, AddWatch, RemoveWatch, Disable,
         Enable, SetRow, Outside, daemonVars, serviceVars
<1>. QED BY <1>1 DEF BeginCheck, ServiceInv, SpacingOK

(* Texts that are the same do not differ, whichever way they were read.     *)
LEMMA SameOrDiffer ==
  ASSUME NEW a, NEW b, NEW t, SameText(runs[a].saw, t), SameText(runs[b].saw, t)
  PROVE  ~Differ(a, b)
BY DEF SameText, Differ

(* Archives with equal bytes are of the same text, or masked and of texts   *)
(* that say the same besides personal data.                                 *)
LEMMA EqualBytes ==
  ASSUME NEW a, NEW b, NEW f, NEW g, f[1] \in Text, g[1] \in Text,
         runs[a].saw \in Text, runs[b].saw \in Text,
         Sees(runs[a].saw, f[1]), Sees(runs[b].saw, g[1]), Bytes(f) = Bytes(g)
  PROVE  ~Differ(a, b) \/ MaskedAway(a, b)
<1>1. PICK t, u : t = f[1] /\ u = g[1]
  OBVIOUS
<1>2. t.form = u.form
  BY <1>1 DEF Bytes
<1>3. CASE t.form = "masked"
  <2>1. Besides[t.of] = Besides[u.of]
    BY <1>1, <1>2, <1>3 DEF Bytes
  <2>2. t.of \notin Binary /\ u.of \notin Binary
    BY <1>1, <1>2, <1>3 DEF Sees, FairlyMasked
  <2>3. runs[a].saw = t /\ runs[b].saw = u
    BY <1>1, <2>2 DEF Sees
  <2>. QED BY <1>2, <1>3, <2>1, <2>3 DEF MaskedAway
<1>4. CASE t.form # "masked"
  <2>1. t.of = u.of
    BY <1>1, <1>2, <1>4 DEF Bytes
  <2>2. t = u
    BY <1>1, <1>2, <2>1 DEF Text
  <2>. QED BY <1>1, <2>2, SeenText, SameOrDiffer
<1>. QED BY <1>3, <1>4

LEMMA MissExplained ==
  ASSUME ServiceInv, CheckSucceeds, cur[2] # 0, dpc' # "notifying",
         Differ(cur[2], job[Daemon].run)
  PROVE  \/ job[Daemon].notModified /\ job[Daemon].prior # cur[2]
         \/ MaskedAway(cur[2], job[Daemon].run)
<1>1. PICK r, n, p : r = cur[2] /\ n = job[Daemon].run /\ p = job[Daemon].prior
  OBVIOUS
<1>2. /\ dpc = "checking" /\ job[Daemon].stage = "over" /\ ~Changed(Daemon, r)
      /\ r # 0 /\ Differ(r, n)
  BY <1>1 DEF CheckSucceeds
<1>3. r \in RunNo /\ runs[r].row /\ r # n /\ runs[r].path # n
  BY <1>1, <1>2 DEF ServiceInv, CursorsOK, Recorded
<1>4. n \in RunNo /\ runs[n].row
  BY <1>1, <1>2, DaemonCalls DEF ServiceInv, Outcomes, OutcomeOK, RunsInv, JobsOwn, RunOf
<1>5. ASSUME job[Daemon].notModified, p = r PROVE FALSE
  <2>1. SameText(runs[n].saw, runs[r].saw)
    BY <1>1, <1>2, <1>5, DaemonCalls DEF ServiceInv, Outcomes, OutcomeOK, RunOf
  <2>. QED BY <1>2, <2>1 DEF SameText, Differ
<1>6. ASSUME ~job[Daemon].notModified PROVE MaskedAway(r, n)
  <2>1. SameHtml(r, n)
    BY <1>1, <1>2, <1>3, <1>6 DEF Changed
  <2>2. runs[n].path \in {0, n}
    BY <1>1, <1>2, <1>6, DaemonCalls DEF ServiceInv, Outcomes, OutcomeOK, RunOf
  <2>3. PICK f, g : f = Archive(r) /\ g = Archive(n)
    OBVIOUS
  <2>4. f # <<>> /\ g # <<>> /\ Bytes(f) = Bytes(g)
    BY <1>3, <2>1, <2>2, <2>3 DEF SameHtml
  <2>5. runs[r].path # 0 /\ runs[n].path # 0
    BY <2>3, <2>4 DEF Archive
  <2>6. Sees(runs[r].saw, f[1]) /\ Sees(runs[n].saw, g[1])
    BY <1>3, <1>4, <2>3, <2>4, <2>5 DEF ServiceInv, RunsInv, RowOK
  <2>7. f[1] \in Text /\ g[1] \in Text
    <3>1. runs[r].path \in RunNo /\ runs[n].path \in RunNo
      BY <1>3, <1>4, <2>5 DEF ServiceInv, RunsInv, PathOK
    <3>. QED BY <2>3, <2>4, <2>5, <3>1, RunsTypes DEF ServiceInv, RunsInv, Archive
  <2>8. runs[r].saw \in Text /\ runs[n].saw \in Text
    BY <1>3, <1>4, RunsTypes DEF ServiceInv, RunsInv
  <2>. QED BY <1>2, <2>4, <2>6, <2>7, <2>8, EqualBytes
<1>. QED BY <1>1, <1>5, <1>6

(* Every variable of the watch service keeps its type, and every cursor is  *)
(* the number of a recorded run.                                            *)
THEOREM ServiceTypeCorrect == ServiceSpec => []ServiceTypeOK
BY ServiceInvariant, ServedTypes, PTL

(* Each change a check recorded is handed to the notifier once, unless the  *)
(* daemon dies between the row and the call (scheduler.py:108-147).         *)
THEOREM ChangesAreNotified == ServiceSpec => []ChangesNotified
BY ServiceInvariant, ServedNotes, PTL

(* A watch is never checked before its interval is over, whatever failed or *)
(* crashed in between (scheduler.py:118-135).                               *)
THEOREM ChecksAreSpaced == ServiceSpec => ChecksSpaced
<1>1. ServiceInv /\ [ServiceNext]_serviceVars =>
        [dpc = "ticking" /\ dpc' = "checking" /\ triedAt[cur'[1]] # Never
           => tickAt >= triedAt[cur'[1]] + Interval[cur'[1]]]_serviceVars
  BY Spaced
<1>. QED BY <1>1, ServiceInvariant, PTL DEF ServiceSpec, ChecksSpaced

(* A check that misses a change of the page was answered 304 relative to a  *)
(* run of somebody else, or what changed is masked before it is archived    *)
(* (watch.py:69-93, replay/diff.py:48-66, api.py:281).                      *)
THEOREM MissesAreExplained == ServiceSpec => MissesExplained
<1>1. ServiceInv /\ [ServiceNext]_serviceVars =>
        [CheckSucceeds /\ cur[2] # 0 /\ dpc' # "notifying"
           /\ Differ(cur[2], job[Daemon].run)
         => \/ job[Daemon].notModified /\ job[Daemon].prior # cur[2]
            \/ MaskedAway(cur[2], job[Daemon].run)]_serviceVars
  BY MissExplained
<1>. QED BY <1>1, ServiceInvariant, PTL DEF ServiceSpec, MissesExplained
=============================================================================
