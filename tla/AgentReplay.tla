------------------------------ MODULE AgentReplay ------------------------------
(***************************************************************************)
(* Concurrent runs of the agent driver for one goal on one host: replaying *)
(* the recorded script, else asking the LLM for each step                  *)
(* (access/agent_drivers.py) over the action cache                         *)
(* (access/action_cache.py).                                               *)
(*                                                                         *)
(* The goal is Goal steps away from the home page, step k leading from     *)
(* place k - 1 to place k of the site.  A run begins at the page of its    *)
(* URL or where its actions (PageActions, access/agent_tier.py) led; host  *)
(* and goal are all that the key of the cache tells apart.  A script is    *)
(* the layout it was recorded on, the stretch of the way it covers, and    *)
(* whether it has idle steps, which led nowhere when they were recorded.   *)
(* One step of the model ends where run() waits for the browser, the LLM   *)
(* or the database.                                                        *)
(***************************************************************************)
EXTENDS ChangingSite

CONSTANTS
  Driver,       \* concurrent callers of run()
  Goal,         \* bound: steps from the start page to the goal
  MaxSteps,     \* LLMAgentDriver.max_steps
  MaxFailures,  \* LLMAgentDriver.cache_max_failures
  Starts        \* bound: the places where runs begin

ASSUME AgentAssumption ==
  /\ IsFiniteSet(Driver) /\ Driver # {}
  /\ Goal \in Nat \ {0} /\ MaxSteps \in Nat /\ MaxFailures \in Nat \ {0}
  /\ Starts \subseteq 0..Goal

VARIABLES
  script,     \* actions_json: [on, from, to, idle]
  misses,     \* failure_count
  dpc,
  page,       \* [Driver -> [on, at]]: the layout it sees, the place it is at
  asked,      \* [Driver -> steps of this run the LLM was asked for]
  recorded,   \* [Driver -> where its recorded_actions begin]
  some,       \* drivers whose recorded_actions are not empty
  idled,      \* those of them whose recorded_actions have an idle step
  rewritten   \* history: drivers since whose count somebody wrote the row

localsOfRun == <<page, asked, recorded, some, idled>>
driverVars == <<script, misses, dpc, localsOfRun, rewritten>>

NoScript == [on |-> 0, from |-> 0, to |-> 0, idle |-> FALSE]
NoPage == [on |-> 0, at |-> 0]
HasScript == script # NoScript

(* Nothing that led on: scrolls, which any page takes, and idle steps.      *)
LeadsNowhere == script.from = script.to

(* A replay on such a page fails only by a fault.                           *)
Suits(p) ==
  ~script.idle /\ (LeadsNowhere \/ (script.on = p.on /\ script.from = p.at))

AgentInit ==
  /\ script = NoScript /\ misses = 0
  /\ dpc = [d \in Driver |-> "idle"] /\ page = [d \in Driver |-> NoPage]
  /\ asked = [d \in Driver |-> 0] /\ recorded = [d \in Driver |-> 0]
  /\ some = {} /\ idled = {} /\ rewritten = {}

DriverGoto(d, s) == dpc' = [dpc EXCEPT ![d] = s]

(* Back to the caller: the run's locals are gone. *)
EndRun(d) ==
  /\ DriverGoto(d, "idle")
  /\ page' = [page EXCEPT ![d] = NoPage]
  /\ asked' = [asked EXCEPT ![d] = 0] /\ recorded' = [recorded EXCEPT ![d] = 0]
  /\ some' = some \ {d} /\ idled' = idled \ {d}

(* The LLM loop begins wherever the replay left the page.                   *)
StartLoop(d) ==
  /\ DriverGoto(d, "step")
  /\ recorded' = [recorded EXCEPT ![d] = page[d].at]

(* Writing the row disturbs those between their count and their eviction.   *)
Rewrite(d) == rewritten' = rewritten \cup {e \in Driver \ {d} : dpc[e] = "evict"}

BeginRun(d) ==
  /\ dpc[d] = "idle"
  /\ DriverGoto(d, "get")
  /\ \E at \in Starts : page' = [page EXCEPT ![d] = [on |-> layout, at |-> at]]
  /\ UNCHANGED <<layout, script, misses, asked, recorded, some, idled, rewritten,
                 faults>>

(* Where a replay may stop: at any step of a script that begins at this     *)
(* place, at once if it begins somewhere else; an idle step may lead on     *)
(* this time.                                                               *)
Stops(at) ==
  CASE script.idle -> at..Goal
    [] ~script.idle /\ (script.from # at \/ LeadsNowhere) -> {at}
    [] OTHER -> at..(script.to - 1)

(* cache.get and the replay; a step recorded on another layout may still    *)
(* find its element, by its selector or its text, and an idle one may fail  *)
(* or not.                                                                  *)
Replay(d) ==
  /\ dpc[d] = "get" /\ HasScript
  /\ \/ /\ script.from = page[d].at \/ LeadsNowhere
        /\ DriverGoto(d, "success") /\ UNCHANGED <<page, faults>>
     \/ /\ Suits(page[d]) => faults < MaxFaults
        /\ faults' = IF Suits(page[d]) THEN faults + 1 ELSE faults
        /\ DriverGoto(d, "failure")
        /\ \E k \in Stops(page[d].at) : page' = [page EXCEPT ![d].at = k]
  /\ UNCHANGED <<layout, script, misses, asked, recorded, some, idled, rewritten>>

NothingRecorded(d) ==
  /\ dpc[d] = "get" /\ ~HasScript
  /\ StartLoop(d)
  /\ UNCHANGED <<layout, script, misses, page, asked, some, idled, rewritten,
                 faults>>

ReplayWorked(d) ==
  /\ dpc[d] = "success"
  /\ misses' = 0
  /\ Rewrite(d) /\ EndRun(d)
  /\ UNCHANGED <<layout, script, faults>>

(* Faulty: a script is dropped at its first failure. *)
ReplayFailedEvicting(d) ==
  /\ dpc[d] = "failure"
  /\ misses' = IF HasScript THEN misses + 1 ELSE 0
  /\ DriverGoto(d, "evict") /\ UNCHANGED recorded
  /\ rewritten' = rewritten \ {d}
  /\ UNCHANGED <<layout, script, page, asked, some, idled, faults>>

(* record_failure counts and returns the count in one statement; without a  *)
(* row it returns 0.                                                        *)
ReplayFailed(d) ==
  /\ dpc[d] = "failure"
  /\ misses' = IF HasScript THEN misses + 1 ELSE 0
  /\ \/ misses' >= MaxFailures /\ DriverGoto(d, "evict") /\ UNCHANGED recorded
     \/ misses' < MaxFailures /\ StartLoop(d)
  /\ rewritten' = rewritten \ {d}
  /\ UNCHANGED <<layout, script, page, asked, some, idled, faults>>

DropScript(d) ==
  /\ dpc[d] = "evict"
  /\ script' = NoScript /\ misses' = 0
  /\ Rewrite(d) /\ StartLoop(d)
  /\ UNCHANGED <<layout, page, asked, some, idled, faults>>

(* What follows the loop: the recorded actions are put, if there are any.   *)
LoopEnds(d) ==
  \/ d \in some /\ DriverGoto(d, "put") /\ UNCHANGED localsOfRun
  \/ d \notin some /\ EndRun(d)

(* A step is executed: it leads on, scrolls, is idle, since it fails or its *)
(* element does nothing, and recorded all the same, or its target does not  *)
(* exist.                                                                   *)
Execute(d) ==
  \/ /\ page[d].at < Goal /\ page' = [page EXCEPT ![d].at = @ + 1]
     /\ some' = some \cup {d} /\ UNCHANGED idled
  \/ UNCHANGED <<page, idled>> /\ some' = some \cup {d}
  \/ UNCHANGED page /\ some' = some \cup {d} /\ idled' = idled \cup {d}
  \/ UNCHANGED <<page, some, idled>>

(* The LLM names a step, or "done", which is also what an answer that       *)
(* cannot be parsed means.                                                  *)
AskLLM(d) ==
  /\ dpc[d] = "step" /\ asked[d] < MaxSteps
  /\ \/ asked' = [asked EXCEPT ![d] = @ + 1] /\ Execute(d) /\ UNCHANGED <<dpc, recorded>>
     \/ LoopEnds(d)
  /\ UNCHANGED <<layout, script, misses, rewritten, faults>>

StepsSpent(d) ==
  /\ dpc[d] = "step" /\ asked[d] = MaxSteps
  /\ LoopEnds(d)
  /\ UNCHANGED <<layout, script, misses, rewritten, faults>>

PutScript(d) ==
  /\ dpc[d] = "put"
  /\ script' = [on |-> page[d].on, from |-> recorded[d], to |-> page[d].at,
                idle |-> d \in idled]
  /\ misses' = 0
  /\ Rewrite(d) /\ EndRun(d)
  /\ UNCHANGED <<layout, faults>>

(* The LLM or the database raises, or the run is cancelled where it waits.  *)
RunRaises(d) ==
  /\ dpc[d] # "idle" /\ faults < MaxFaults
  /\ faults' = faults + 1
  /\ EndRun(d)
  /\ UNCHANGED <<layout, script, misses, rewritten>>

RunStep(d) ==
  \/ Replay(d) \/ NothingRecorded(d) \/ ReplayWorked(d) \/ ReplayFailed(d)
  \/ DropScript(d) \/ AskLLM(d) \/ StepsSpent(d) \/ PutScript(d)

AgentNext ==
  \/ \E d \in Driver : BeginRun(d) \/ RunStep(d) \/ RunRaises(d)
  \/ Redesign /\ UNCHANGED driverVars
-----------------------------------------------------------------------------
(* Every variable has its type; a run asks for max_steps steps at most.     *)
AgentTypeOK ==
  /\ script \in [on : 0..Layouts, from : 0..Goal, to : 0..Goal, idle : BOOLEAN]
  /\ HasScript => script.on # 0 /\ script.from <= script.to
  /\ misses \in Nat /\ (~HasScript => misses = 0)
  /\ dpc \in [Driver -> {"idle", "get", "success", "failure", "evict", "step",
                         "put"}]
  /\ page \in [Driver -> [on : 0..Layouts, at : 0..Goal]]
  /\ asked \in [Driver -> 0..MaxSteps] /\ recorded \in [Driver -> 0..Goal]
  /\ \A d \in Driver : recorded[d] <= page[d].at
  /\ idled \subseteq some /\ some \cup rewritten \subseteq Driver

(* Whoever evicts found MaxFailures failed replays on the script that is    *)
(* there, unless somebody wrote the row between its count and its DELETE. *)
DropJustified ==
  \A d \in Driver : dpc[d] = "evict" =>
    (HasScript /\ misses >= MaxFailures) \/ d \in rewritten

(* The script in the cache carries fewer misses than that, except while     *)
(* those who counted the last of them are about to delete it, and after one *)
(* of them raised instead. *)
DropKeepsUp ==
  misses >= MaxFailures =>
    faults > 0 \/ \E d \in Driver : dpc[d] = "evict"

(* A script is dropped for cache_max_failures failed replays, no sooner and *)
(* no later, in any order of runs: action_cache.py:145 "closes that         *)
(* read-after-write window".                                                *)
DroppedOnTime == DropJustified /\ DropKeepsUp
=============================================================================
