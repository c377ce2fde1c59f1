----------------------------- MODULE WatchService -----------------------------
(***************************************************************************)
(* The watch control plane: the persisted watches and their cursors        *)
(* (server/store.py), the scheduler's tick and loop with its notifier      *)
(* (server/scheduler.py, server/notifier.py), and Watch.refresh with the   *)
(* run diff (watch.py, replay/diff.py), over the scrapes of ScrapeRuns.    *)
(* All watches are on one URL.  Beside the daemon, other programs scrape   *)
(* the URL and edit the watch list.                                        *)
(***************************************************************************)
EXTENDS ScrapeRuns

CONSTANTS
  Daemon,        \* the scheduler's process
  User,          \* other programs that scrape the URL
  WatchId,
  Interval,      \* [WatchId -> Nat], interval_seconds
  None,          \* no watch
  Edited,        \* bound: the watches somebody disables, enables, removes
  Together       \* bound: which watches and other programs meet

ASSUME WatchAssumption ==
  /\ Caller = {Daemon} \cup User /\ Daemon \notin User
  /\ None \notin WatchId
  /\ Interval \in [WatchId -> Nat \ {0}]

VARIABLES
  row,        \* [WatchId -> "absent", "on", "off", "removed"]
  lastRun,    \* [WatchId -> Nat], last_run_id, 0 for none
  checkedAt,  \* [WatchId -> Nat or Never], last_checked_at
  dpc,        \* where the daemon is
  due,        \* rows of store.due still to check in this tick: <<w, lastRun>>
  cur,        \* the row being checked
  tickAt,     \* tick's now
  triedAt,    \* history: [WatchId -> tick of the last check that ended]
  unsent,     \* history: changes recorded and not handed to the notifier
  crashes

watchVars == <<row, lastRun, checkedAt>>
daemonVars == <<dpc, due, cur, tickAt>>
noteVars == <<triedAt, unsent, crashes>>
serviceVars == <<runVars, watchVars, daemonVars, noteVars>>

Never == -1
NoRow == <<None, 0>>

ServiceInit ==
  /\ RunsInit
  /\ row = [w \in WatchId |-> "absent"]
  /\ lastRun = [w \in WatchId |-> 0]
  /\ checkedAt = [w \in WatchId |-> Never]
  /\ dpc = "idle" /\ due = {} /\ cur = NoRow /\ tickAt = 0
  /\ triedAt = [w \in WatchId |-> Never]
  /\ unsent = 0 /\ crashes = 0
-----------------------------------------------------------------------------
Present == {w \in WatchId : row[w] # "absent"} \cup {u \in User : job[u] # NoJob}
MayJoin(z) == \E party \in Together : Present \cup {z} \subseteq party

(* Somebody else scrapes the URL; bound: once each.                         *)
UserScrapes(u) ==
  /\ job[u] = NoJob /\ MayJoin(u)
  /\ BeginScrape(u)
  /\ UNCHANGED <<page, now, changes, failures, watchVars, daemonVars, noteVars>>
-----------------------------------------------------------------------------
(* The watch list, edited by another process.                               *)
SetRow(w, s) ==
  /\ row' = [row EXCEPT ![w] = s]
  /\ UNCHANGED <<runVars, lastRun, checkedAt, daemonVars, noteVars>>

AddWatch(w) ==
  row[w] = "absent" /\ MayJoin(w) /\ SetRow(w, "on")
RemoveWatch(w) == row[w] \in {"on", "off"} /\ SetRow(w, "removed")
Disable(w) == row[w] = "on" /\ SetRow(w, "off")
Enable(w) == row[w] = "off" /\ SetRow(w, "on")
-----------------------------------------------------------------------------
(* The daemon: WatchScheduler.run_forever.                                  *)

IsDue(w) ==
  /\ row[w] = "on"
  /\ checkedAt[w] = Never \/ checkedAt[w] + Interval[w] <= now

DueRows == {<<w, lastRun[w]>> : w \in {v \in WatchId : IsDue(v)}}

BeginTick ==
  /\ dpc = "idle" /\ DueRows # {}
  /\ dpc' = "ticking" /\ tickAt' = now /\ due' = DueRows
  /\ UNCHANGED <<runVars, watchVars, noteVars, cur>>

(* The rows are checked one after the other, as they were at the beginning  *)
(* of the tick.                                                             *)
BeginCheck(e) ==
  /\ dpc = "ticking" /\ e \in due
  /\ dpc' = "checking" /\ cur' = e /\ due' = due \ {e}
  /\ BeginScrape(Daemon)
  /\ UNCHANGED <<page, now, changes, failures, watchVars, noteVars, tickAt>>

(* record_check: an UPDATE, which finds nothing when the row was deleted.   *)
RecordCheck(w, run) ==
  /\ IF row[w] \in {"on", "off"}
     THEN /\ lastRun' = [lastRun EXCEPT ![w] = run]
          /\ checkedAt' = [checkedAt EXCEPT ![w] = tickAt]
     ELSE UNCHANGED <<lastRun, checkedAt>>
  /\ UNCHANGED row

Tried(w) == triedAt' = [triedAt EXCEPT ![w] = tickAt]

CheckSucceeds ==
  /\ dpc = "checking" /\ job[Daemon].stage = "over"
  /\ RecordCheck(cur[1], job[Daemon].run)
  /\ Tried(cur[1])
  /\ \/ /\ Changed(Daemon, cur[2])
        /\ unsent' = unsent + 1
        /\ dpc' = "notifying"
     \/ /\ ~Changed(Daemon, cur[2])
        /\ UNCHANGED unsent
        /\ dpc' = "ticking"
  /\ SetJob(Daemon, NoJob) /\ cur' = NoRow
  /\ UNCHANGED <<page, now, runs, changes, failures, due, tickAt,
                 crashes>>

(* Faulty: a failing check leaves the cursor alone. *)
CheckFailsUnrecorded ==
  /\ dpc = "checking" /\ job[Daemon].stage = "raised"
  /\ Tried(cur[1])
  /\ dpc' = "ticking"
  /\ SetJob(Daemon, NoJob) /\ cur' = NoRow
  /\ UNCHANGED <<page, now, runs, changes, failures, due, tickAt,
                 watchVars, unsent, crashes>>

(* Faulty: an exception of a check leaves run_forever. *)
CheckFailsEscaping ==
  /\ dpc = "checking" /\ job[Daemon].stage = "raised"
  /\ RecordCheck(cur[1], cur[2])
  /\ Tried(cur[1])
  /\ dpc' = "raised" /\ due' = {}
  /\ SetJob(Daemon, NoJob) /\ cur' = NoRow
  /\ UNCHANGED <<page, now, runs, changes, failures, tickAt,
                 unsent, crashes>>

(* The cursor advances; last_run_id is written back as it was read.         *)
CheckFails ==
  /\ dpc = "checking" /\ job[Daemon].stage = "raised"
  /\ RecordCheck(cur[1], cur[2])
  /\ Tried(cur[1])
  /\ dpc' = "ticking"
  /\ SetJob(Daemon, NoJob) /\ cur' = NoRow
  /\ UNCHANGED <<page, now, runs, changes, failures, due, tickAt,
                 unsent, crashes>>

(* Faulty: a notification that raised is sent again. *)
NotifyRetried ==
  /\ dpc = "notifying"
  /\ unsent' = unsent - 1
  /\ dpc' \in {"ticking", "notifying"}
  /\ UNCHANGED <<runVars, watchVars, due, cur, tickAt, triedAt, crashes>>

(* notify is called; that it returned or raised makes no difference. *)
Notify ==
  /\ dpc = "notifying"
  /\ unsent' = unsent - 1
  /\ dpc' = "ticking"
  /\ UNCHANGED <<runVars, watchVars, due, cur, tickAt, triedAt,
                 crashes>>

EndTick ==
  /\ dpc = "ticking" /\ due = {}
  /\ dpc' = "idle"
  /\ UNCHANGED <<runVars, watchVars, noteVars, due, cur, tickAt>>

(* The process dies at any point; the stop event, looked at between two     *)
(* ticks, has the effect of a crash there.                                  *)
Crash ==
  /\ dpc # "down" /\ failures < MaxFailures
  /\ dpc' = "down" /\ due' = {} /\ cur' = NoRow
  /\ failures' = failures + 1 /\ crashes' = crashes + 1
  /\ SetJob(Daemon, NoJob)
  /\ UNCHANGED <<page, now, runs, changes, tickAt, watchVars, triedAt,
                 unsent>>

Restart ==
  /\ dpc = "down"
  /\ dpc' = "idle"
  /\ UNCHANGED <<runVars, watchVars, noteVars, due, cur, tickAt>>
-----------------------------------------------------------------------------
Scrape(x) ==
  ScrapeStep(x) /\ UNCHANGED <<watchVars, daemonVars, noteVars>>

DaemonStep ==
  \/ Scrape(Daemon) \/ BeginTick \/ (\E e \in due : BeginCheck(e))
  \/ CheckSucceeds \/ CheckFails \/ Notify \/ EndTick

Editing == \E w \in WatchId :
  AddWatch(w) \/ (w \in Edited /\ (RemoveWatch(w) \/ Disable(w) \/ Enable(w)))

Outside ==
  /\ World \/ \E x \in Caller : ScrapeFails(x)
  /\ UNCHANGED <<watchVars, daemonVars, noteVars>>

ServiceNext ==
  \/ DaemonStep \/ Crash \/ Restart
  \/ \E u \in User : Scrape(u) \/ UserScrapes(u)
  \/ Editing \/ Outside

ServiceSpec == ServiceInit /\ [][ServiceNext]_serviceVars

(* Every request ends (timeouts of httpx and of the browser), the loop runs *)
(* every ready coroutine, and a daemon that died is restarted.              *)
FairServiceSpec ==
  /\ ServiceSpec /\ WF_serviceVars(DaemonStep) /\ WF_serviceVars(Restart)
  /\ \A u \in User : WF_serviceVars(Scrape(u))
-----------------------------------------------------------------------------
(* Every variable has its type.                                             *)
ServiceTypeOK ==
  /\ RunsTypeOK
  /\ row \in [WatchId -> {"absent", "on", "off", "removed"}]
  /\ \A w \in WatchId :
       /\ lastRun[w] \in 0..Len(runs)
       /\ lastRun[w] # 0 => runs[lastRun[w]].row
       /\ {checkedAt[w], triedAt[w]} \subseteq {Never} \cup 0..MaxTime
  /\ dpc \in {"idle", "ticking", "checking", "notifying", "down"}
  /\ crashes \in 0..MaxFailures

(* Two runs saw different pages; of what is no text a run may see the bytes *)
(* or what they decode to, and both are the same page.                      *)
Differ(a, b) ==
  \/ runs[a].saw.of # runs[b].saw.of
  \/ runs[a].saw.of \notin Binary /\ runs[a].saw # runs[b].saw

(* What changed is personal data, and that is masked before it is archived. *)
MaskedAway(a, b) ==
  /\ runs[a].saw.form = "masked" /\ runs[b].saw.form = "masked"
  /\ Besides[runs[a].saw.of] = Besides[runs[b].saw.of]

(* A check that says "unchanged" of a page that did change since the        *)
(* watch's previous run was answered 304 relative to a run of somebody      *)
(* else, or the change is in what redact_snapshots masks (api.py:281 before *)
(* the archive): nothing else makes a watch miss a change.                  *)
MissesExplained ==
  [][CheckSucceeds /\ cur[2] # 0 /\ dpc' # "notifying"
       /\ Differ(cur[2], job[Daemon].run)
     => \/ job[Daemon].notModified /\ job[Daemon].prior # cur[2]
        \/ MaskedAway(cur[2], job[Daemon].run)]_serviceVars

(* A watch is not checked again before its interval is over, whether the    *)
(* check before succeeded or failed (scheduler.py:125 "so a persistently-   *)
(* failing watch doesn't busy-loop") and whatever crashed in between.       *)
ChecksSpaced ==
  [][dpc = "ticking" /\ dpc' = "checking" /\ triedAt[cur'[1]] # Never
     => tickAt >= triedAt[cur'[1]] + Interval[cur'[1]]]_serviceVars

(* Each change a check recorded was handed to the notifier once, or the     *)
(* daemon died in between.                                                  *)
ChangesNotified ==
  /\ unsent >= 0
  /\ unsent <= crashes + (IF dpc = "notifying" THEN 1 ELSE 0)

(* Every watch that is due gets checked, whatever other checks and notifier *)
(* calls do, unless it is disabled or removed.                              *)
DueGetsChecked ==
  \A w \in WatchId : IsDue(w) ~> ~IsDue(w)

(* watch.py:36 "the server answered a 304 - definitively unchanged": a      *)
(* check that says "unchanged" found what the watch's previous run found.   *)
NoMissedChange ==
  [][CheckSucceeds /\ dpc' # "notifying" /\ cur[2] # 0 =>
       runs[cur[2]].saw = runs[job[Daemon].run].saw]_serviceVars
=============================================================================
