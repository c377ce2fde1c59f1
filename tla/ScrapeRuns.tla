------------------------------ MODULE ScrapeRuns ------------------------------
(***************************************************************************)
(* Repeated scrapes of one URL by concurrent callers: the conditional GET  *)
(* against the latest recorded run, the reuse of its archived body on a    *)
(* 304 (api.scrape), the replay store's rows and its snapshot files        *)
(* (replay/store.py, replay/snapshots.py).                                 *)
(*                                                                         *)
(* The page is one of Content; its ETag identifies its content, and the    *)
(* server may ignore the ETag it is sent.  A run is named by its place in  *)
(* the order of started_at.  A step ends where scrape() waits for the      *)
(* database, the network or a thread; an archive is read, or written, in   *)
(* the step of the answer it belongs to, since nobody else sees it before  *)
(* the row is there.                                                       *)
(***************************************************************************)
EXTENDS Integers, Sequences, FiniteSets

CONSTANTS
  Caller,        \* who scrapes the URL; one scrape at a time each
  Requests,      \* [Caller -> SUBSET Request], what each may ask for
  Redacts,       \* redact_snapshots
  Versions,      \* what the page may say
  Besides,       \* [Versions -> Nat], what each says besides personal data
  Binary,        \* those that are no text: PDFs, images
  Allowed,       \* the geo policy's regions
  Routes,        \* the ways to the page: <<region, whether the answer has a
                 \* validator and is of an HTTP tier>>
  MaxChanges,    \* bound: how often the page changes
  MaxFailures,   \* bound: blocks, exceptions, lost archives, crashes
  MaxTime        \* bound of the clock

(* live: the request names a tier or wants a screenshot, and so is never    *)
(* conditional.  geo: without a policy, with one, or with one whose         *)
(* require_match is set.                                                    *)
Request == [live : BOOLEAN, geo : {"none", "lenient", "strict"}]

ASSUME RunsAssumption ==
  /\ Requests \in [Caller -> SUBSET Request] /\ Redacts \in BOOLEAN
  /\ Versions \in Nat \ {0} /\ Besides \in [1..Versions -> Nat]
  /\ Binary \subseteq 1..Versions
  /\ \A route \in Routes : route[2] \in BOOLEAN
  /\ MaxChanges \in Nat /\ MaxFailures \in Nat /\ MaxTime \in Nat

VARIABLES
  page,        \* what the server has now
  now,         \* seconds
  runs,        \* Seq of Run
  job,         \* [Caller -> Job], scrape() in progress
  changes, failures

runVars == <<page, now, runs, job, changes, failures>>

Content == 1..Versions
wall == 0       \* what a blocked request is answered
none == -1      \* no content
nowhere == "-"  \* no region is known
Region == {route[1] : route \in Routes}

ASSUME RegionsAssumption == nowhere \notin Allowed

(* What a run got of the page: its content, as it was sent, masked by       *)
(* redact, or garbled by load_html, which decodes bytes that are no text.   *)
(* History: of which page a masked text is, its bytes no longer tell.       *)
Got(c, form) == [of |-> c, form |-> form]
Raw(c) == Got(c, "raw")
NoText == Raw(none)
Text == [of : Content \cup {wall, none}, form : {"raw", "masked", "garbled"}]

(* req: what was asked for; row: the run is in the table; ok: it has no     *)
(* error; path: the run whose archive it points to, 0 for none; file: the   *)
(* archive <<text, mtime>> of its own, <<>> for none, and lost when it      *)
(* vanished; etag: the content its validator stands for, none when it has   *)
(* no validator or is not of an HTTP tier; saw: the text it was about, the  *)
(* one its caller was shown if it is ok.                                    *)
(* History: region, where that text was fetched.                            *)
Run == [req : Request, row : BOOLEAN, ok : BOOLEAN, path : Nat,
        file : {<<>>} \cup (Text \X (0..MaxTime)), lost : BOOLEAN,
        etag : Content \cup {none}, saw : Text, region : Region \cup {nowhere}]
NewRun(q) == [req |-> q, row |-> FALSE, ok |-> FALSE, path |-> 0, file |-> <<>>,
              lost |-> FALSE, etag |-> none, saw |-> NoText, region |-> nowhere]

Stage == {"none", "started", "fetching", "archived", "over", "raised"}

(* run: the run's number; prior: the run the request is conditional on;     *)
(* text, etag, region: of the answer; refused: it is an error.              *)
Job == [stage : Stage, run : Nat, prior : Nat, text : Text,
        etag : Content \cup {none}, region : Region \cup {nowhere},
        notModified : BOOLEAN, refused : BOOLEAN]
NoJob == [stage |-> "none", run |-> 0, prior |-> 0, text |-> NoText, etag |-> none,
          region |-> nowhere, notModified |-> FALSE, refused |-> FALSE]

RunsInit ==
  /\ page = 1
  /\ now = 0 /\ runs = <<>>
  /\ job = [x \in Caller |-> NoJob]
  /\ changes = 0 /\ failures = 0

(* ReplayStore.last_run: ORDER BY started_at DESC LIMIT 1. *)
IsLastRun(r) ==
  runs[r].row /\ \A q \in DOMAIN runs : runs[q].row => q <= r

(* Faulty: the error of the last run is not looked at. *)
MayReuseInError(r) == runs[r].path # 0 /\ runs[r].etag # none

(* A request may be conditional on a run that has no error, an archived     *)
(* body and a validator.                                                    *)
MayReuse(r) == runs[r].ok /\ runs[r].path # 0 /\ runs[r].etag # none

(* The run it is conditional on, 0 for none: the last one or nothing.       *)
PriorRun ==
  LET prior == {r \in DOMAIN runs : IsLastRun(r) /\ MayReuse(r)} IN
  IF prior = {} THEN 0 ELSE CHOOSE r \in prior : TRUE

(* The archive of run r; <<>> when it is gone. *)
Archive(r) == IF runs[r].path = 0 THEN <<>> ELSE runs[runs[r].path].file

(* Faulty: require_match is ignored. *)
IsAllowedUnmatched(q, region) ==
  q.geo = "none" \/ region \in Allowed \cup {nowhere}

(* GeoPolicy.is_allowed; a region that is not known passes unless a match   *)
(* is required.                                                             *)
IsAllowed(q, region) ==
  \/ q.geo = "none" \/ region \in Allowed
  \/ region = nowhere /\ q.geo = "lenient"

(* redact of a page: each value it finds becomes the same placeholder.      *)
Redact(t) == IF t.form = "raw" THEN Got(t.of, "masked") ELSE t

(* load_html of an archived text. *)
Loaded(t) == IF t.of \in Binary THEN Got(t.of, "garbled") ELSE t

SetJob(x, j) == job' = [job EXCEPT ![x] = j]
SetRun(x, run) == runs' = [runs EXCEPT ![job[x].run] = run]
SetStage(x, s) == job' = [job EXCEPT ![x].stage = s]
RunOf(x) == runs[job[x].run]
RequestOf(x) == RunOf(x).req

(* scrape() is called: RunRecord.new draws the run's id and started_at.     *)
BeginScrape(x) ==
  \E q \in Requests[x] :
    /\ runs' = Append(runs, NewRun(q))
    /\ SetJob(x, [NoJob EXCEPT !.stage = "started", !.run = Len(runs) + 1])

ReadLastRun(x) ==
  /\ job[x].stage = "started"
  /\ SetJob(x, [job[x] EXCEPT !.stage = "fetching",
                              !.prior = IF RequestOf(x).live THEN 0 ELSE PriorRun])
  /\ UNCHANGED <<page, now, runs, changes, failures>>

(* The SSRF guard or robots.txt refuse the URL: the run is recorded with an *)
(* error, and without an archive.                                           *)
RefusedUnasked(x) ==
  /\ job[x].stage = "started" /\ failures < MaxFailures
  /\ failures' = failures + 1
  /\ SetRun(x, [RunOf(x) EXCEPT !.row = TRUE])
  /\ SetStage(x, "over")
  /\ UNCHANGED <<page, now, changes>>

(* The server compares the ETag it was sent with its page's. *)
Matches(x) == job[x].prior # 0 /\ runs[job[x].prior].etag = page

(* What follows an answer, up to the archive: a wall or a region that is    *)
(* not allowed is an error, and only what is not refused is redacted, and   *)
(* of that only text.  The archive is SnapshotStore.put's, a new file that  *)
(* is complete before it gets its name; gzip writes the second into it.     *)
(* There is none on a 304, unless the run is refused.                       *)
Answered(x, text, etag, region, notModified) ==
  LET refused == text.of = wall \/ ~IsAllowed(RequestOf(x), region)
      final == IF Redacts /\ ~refused THEN Redact(text) ELSE text
      archived == IF text.of \in Binary /\ text.form = "raw" THEN text ELSE final IN
  /\ SetRun(x, IF notModified /\ ~refused THEN RunOf(x)
               ELSE [RunOf(x) EXCEPT !.file = <<archived, now>>])
  /\ SetJob(x, [job[x] EXCEPT !.stage = "archived", !.text = final, !.etag = etag,
                              !.region = region, !.notModified = notModified,
                              !.refused = refused])
  /\ UNCHANGED <<page, now, changes>>

(* load_html of the prior run succeeds: its body is taken over, as if no    *)
(* proxy had been used ...                                                  *)
ReuseArchive(x) ==
  /\ job[x].stage = "fetching" /\ Matches(x) /\ Archive(job[x].prior) # <<>>
  /\ Answered(x, Loaded(Archive(job[x].prior)[1]), page, nowhere, TRUE)
  /\ UNCHANGED failures

(* ... or the archive is gone or no gzip file, and the page is fetched      *)
(* again, unconditionally ...                                               *)
FetchForReal(x) ==
  /\ job[x].stage = "fetching" /\ Matches(x) /\ Archive(job[x].prior) = <<>>
  /\ SetJob(x, [job[x] EXCEPT !.prior = 0])
  /\ UNCHANGED <<page, now, runs, changes, failures>>

(* ... or it is damaged inside: zlib.error is no OSError and leaves         *)
(* scrape().  Which of the two depends on the damage.                       *)
LoadRaises(x) ==
  /\ job[x].stage = "fetching" /\ Matches(x) /\ Archive(job[x].prior) = <<>>
  /\ SetStage(x, "raised")
  /\ UNCHANGED <<page, now, runs, changes, failures>>

(* A page, by way of some proxy or none.                                    *)
Answer200(x) ==
  /\ job[x].stage = "fetching"
  /\ \E route \in Routes :
       Answered(x, Raw(page), IF route[2] THEN page ELSE none, route[1], FALSE)
  /\ UNCHANGED failures

(* An anti-bot wall. *)
AnswerBlocked(x) ==
  /\ job[x].stage = "fetching" /\ failures < MaxFailures
  /\ failures' = failures + 1
  /\ Answered(x, Raw(wall), none, nowhere, FALSE)

(* Every tier failed, or what comes between the answer and the record: the  *)
(* run is not recorded.                                                     *)
FetchRaises(x) ==
  /\ job[x].stage = "fetching" /\ failures < MaxFailures
  /\ failures' = failures + 1
  /\ SetStage(x, "raised")
  /\ UNCHANGED <<page, now, runs, changes>>

(* Faulty: the prior's archive is recorded although the page was sent anew. *)
RecordRunAsPrior(x) ==
  /\ job[x].stage = "archived"
  /\ LET j == job[x] IN
       SetRun(x, [RunOf(x) EXCEPT !.row = TRUE, !.saw = j.text,
                    !.ok = ~j.refused, !.etag = j.etag,
                    !.path = IF j.prior # 0 THEN runs[j.prior].path ELSE j.run,
                    !.region = IF j.notModified THEN runs[j.prior].region
                               ELSE j.region])
  /\ SetStage(x, "over")
  /\ UNCHANGED <<page, now, changes, failures>>

(* ReplayStore.record, its INSERT: html_path is the prior's on a 304.       *)
RecordRun(x) ==
  /\ job[x].stage = "archived"
  /\ LET j == job[x]
         reused == j.notModified /\ ~j.refused IN
       SetRun(x, [RunOf(x) EXCEPT !.row = TRUE, !.saw = j.text,
                    !.ok = ~j.refused, !.etag = j.etag,
                    !.path = IF reused THEN runs[j.prior].path ELSE j.run,
                    !.region = IF j.notModified THEN runs[j.prior].region
                               ELSE j.region])
  /\ SetStage(x, "over")
  /\ UNCHANGED <<page, now, changes, failures>>

(* The audit log cannot be written: scrape() raises although the run is     *)
(* recorded.                                                                *)
RaisesRecorded(x) ==
  /\ job[x].stage = "over" /\ RunOf(x).ok /\ failures < MaxFailures
  /\ failures' = failures + 1
  /\ SetStage(x, "raised")
  /\ UNCHANGED <<page, now, runs, changes>>

ScrapeStep(x) ==
  \/ ReadLastRun(x) \/ ReuseArchive(x) \/ FetchForReal(x) \/ Answer200(x)
  \/ RecordRun(x)

ScrapeFails(x) ==
  \/ RefusedUnasked(x) \/ AnswerBlocked(x) \/ LoadRaises(x) \/ FetchRaises(x)
  \/ RaisesRecorded(x)

-----------------------------------------------------------------------------
(* diff_runs of two runs. *)

(* What the bytes of an archive tell: pages that differ in personal data    *)
(* alone are the same once it is masked.                                    *)
Bytes(file) ==
  LET t == file[1] IN
  <<IF t.form = "masked" THEN Besides[t.of] ELSE t.of, t.form, file[2]>>

(* Faulty: an archive that is gone does not count as a difference. *)
SameHtmlIfGone(a, b) ==
  \/ runs[a].path # 0 /\ runs[a].path = runs[b].path
  \/ Archive(a) = <<>>
  \/ Archive(b) # <<>> /\ Bytes(Archive(a)) = Bytes(Archive(b))

(* _same_html: the same archive, or archives with equal bytes.              *)
SameHtml(a, b) ==
  \/ runs[a].path # 0 /\ runs[a].path = runs[b].path
  \/ /\ Archive(a) # <<>> /\ Archive(b) # <<>>
     /\ Bytes(Archive(a)) = Bytes(Archive(b))

(* ChangeSet.changed of a refresh that had prev and whose scrape x is over. *)
Changed(x, prev) ==
  /\ ~job[x].notModified
  /\ prev # 0 /\ prev # job[x].run
  /\ ~SameHtml(prev, job[x].run)

-----------------------------------------------------------------------------
(* The world around: the page changes, archives are deleted or damaged,     *)
(* time passes.                                                             *)
PageChanges ==
  /\ changes < MaxChanges
  /\ changes' = changes + 1
  /\ page' \in Content \ {page}
  /\ UNCHANGED <<now, runs, job, failures>>

ArchiveLost ==
  /\ failures < MaxFailures
  /\ \E r \in DOMAIN runs :
       /\ runs[r].file # <<>>
       /\ runs' = [runs EXCEPT ![r] = [@ EXCEPT !.file = <<>>, !.lost = TRUE]]
  /\ failures' = failures + 1
  /\ UNCHANGED <<page, now, job, changes>>

Tick ==
  /\ now < MaxTime
  /\ now' = now + 1
  /\ UNCHANGED <<page, runs, job, changes, failures>>

World == PageChanges \/ ArchiveLost \/ Tick
-----------------------------------------------------------------------------
RunsTypeOK ==
  /\ page \in Content /\ now \in 0..MaxTime
  /\ runs \in Seq(Run) /\ job \in [Caller -> Job]
  /\ changes \in 0..MaxChanges /\ failures \in 0..MaxFailures

(* The archive a recorded run points to is there, complete, and has what    *)
(* that run got, or the bytes it got it from, also when it was taken over   *)
(* from another run on a 304 (api.py:145-147) and whatever crashed between  *)
(* the snapshot and the row (snapshots.py:41-44); only a loss from outside  *)
(* removes it.                                                              *)
ArchiveIsWhatWasSeen ==
  \A r \in DOMAIN runs : runs[r].row /\ runs[r].path # 0 =>
    \/ /\ Archive(r) # <<>>
       /\ LET t == Archive(r)[1] IN
          IF t.of \in Binary THEN runs[r].saw \in {t, Redact(t), Loaded(t)}
          ELSE runs[r].saw = t
    \/ Archive(r) = <<>> /\ runs[runs[r].path].lost

(* README.md:512 "redact it from the stored snapshot": with redact_snapshots*)
(* personal data is archived of a run that was refused (api.py:225-247      *)
(* record before api.py:281) and of what is no text, never else.            *)
RawOnlyOfRefused ==
  Redacts => \A r \in DOMAIN runs :
    runs[r].row /\ runs[r].ok => Archive(r) = <<>> \/ Archive(r)[1].form # "raw"
                                  \/ Archive(r)[1].of \in Binary

(* A run without an error under a geo policy is about a text fetched in an  *)
(* allowed region, or in one nobody knows; without require_match it may     *)
(* also be a text that a 304 stands for, wherever that was fetched.         *)
GeoKept ==
  \A r \in DOMAIN runs : runs[r].row /\ runs[r].ok =>
    CASE runs[r].req.geo = "strict" -> runs[r].region \in Allowed
      [] runs[r].req.geo = "lenient" ->
           runs[r].region \in Allowed \cup {nowhere} \/ runs[r].path # r
      [] OTHER -> TRUE

(* results.py:61 "served from a 304 conditional GET - content is unchanged":*)
(* a run that was answered 304 got what the run did whose archive it took.  *)
ReusedUnchanged ==
  \A r \in DOMAIN runs : runs[r].row /\ runs[r].ok =>
    runs[r].saw = runs[runs[r].path].saw
=============================================================================
