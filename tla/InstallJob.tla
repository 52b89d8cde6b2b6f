------------------------------ MODULE InstallJob ------------------------------
(***************************************************************************)
(* The asynchronous installation of packages: the record and the goroutine *)
(* of internal/modules/installjob.go, and useInstallJob of the frontend,   *)
(* which starts it and polls it every second.  Each browser tab has its own*)
(* hook; the record is one for all, and so are the packages.               *)
(***************************************************************************)
EXTENDS Naturals, Sequences, Functions

CONSTANTS
  Tabs,           \* the browser tabs
  Lists,          \* the lists of packages a request resolves to
  Managers,       \* the package managers the router may have
  Jobs,           \* the requests, numbered from 1
  MaxFaults       \* how often a poll fails or the panel restarts

ASSUME ListsAreSequences == \A list \in Lists : list \in Seq(Range(list))
ASSUME JobsAreNumbered == Jobs \subseteq Nat \ {0}

Packages == UNION {Range(list) : list \in Lists}

VARIABLES
  manager,  \* "apk" or "opkg"
  state,    \* installJob.state
  job,      \* the goroutines
  last,     \* the number of requests made
  present,  \* the packages installed on the router
  tab,      \* the hook of each tab
  overlap,  \* two jobs were under way at once (history)
  author,   \* the job that last replaced the record (history)
  faults    \* polls failed and restarts

vars == <<manager, state, job, last, present, tab, overlap, author, faults>>

Phases == {"", "updating", "installing", "done", "error"}
Blank == [phase |-> "", installed |-> {}]
NoJob == [at |-> "none", list |-> <<>>, next |-> 1, copy |-> {}]
(* The hook's last three fields are history: the jobs under way when its   *)
(* own began, the job whose record it was told, and whether its own was    *)
(* the last one and began with none under way.                             *)
NoTab == [at |-> "idle", job |-> 0, seen |-> Blank,
          rivals |-> {}, by |-> 0, own |-> FALSE]
Ended == {"none", "done", "failed", "killed"}
Active == {j \in Jobs : job[j].at \notin Ended}

Places == Ended \union {"start", "update", "copy", "publish", "add", "look",
                        "fail", "giveUp"}

Progress == [phase : Phases, installed : SUBSET Packages]
Goroutine == [at : Places, list : Lists \union {<<>>}, next : Nat,
              copy : SUBSET Packages]
Hook == [at : {"idle", "waiting"}, job : Nat, seen : Progress,
         rivals : SUBSET Jobs, by : Nat, own : BOOLEAN]

(* What a goroutine is at is in its list.                                  *)
Within(g) ==
  /\ g.next \in 1 .. Len(g.list) + 1
  /\ g.at \in {"add", "look"} => g.next <= Len(g.list)

TypeOK ==
  /\ manager \in Managers /\ last \in Nat /\ overlap \in BOOLEAN
  /\ author \in Nat
  /\ present \subseteq Packages
  /\ state \in Progress
  /\ job \in [Jobs -> Goroutine]
  /\ tab \in [Tabs -> Hook]
  /\ \A j \in Jobs : Within(job[j])

Init ==
  /\ manager \in Managers
  /\ state = Blank /\ job = [j \in Jobs |-> NoJob] /\ last = 0
  /\ present = {} /\ tab = [b \in Tabs |-> NoTab]
  /\ overlap = FALSE /\ author = 0 /\ faults = 0

-----------------------------------------------------------------------------
(* The goroutine.  The record is replaced under its lock, and the list of  *)
(* what is installed is copied under the lock before, apart.               *)

Go(j, at) == job' = [job EXCEPT ![j].at = at]
OfJob == <<manager, last, tab, overlap, faults>>

setInstallJob(j, phase, installed) ==
  state' = [phase |-> phase, installed |-> installed] /\ author' = j

(* apk installs at once; opkg refreshes its indexes first.                 *)
Open(j) ==
  /\ job[j].at = "start"
  /\ IF manager = "opkg"
       THEN Go(j, "update") /\ setInstallJob(j, "updating", {})
       ELSE Go(j, "copy") /\ setInstallJob(j, "installing", {})
  /\ UNCHANGED <<present, OfJob>>
Update(j) ==
  /\ job[j].at = "update"
  /\ \/ Go(j, "copy") /\ setInstallJob(j, "installing", {})
     \/ Go(j, "fail") /\ UNCHANGED <<state, author>>
  /\ UNCHANGED <<present, OfJob>>

(* installedSnapshot and the setInstallJob that takes it: before each      *)
(* package, after one that cannot be found, at the end and on a failure.   *)
installedSnapshot(j, from, to) ==
  /\ job[j].at = from
  /\ job' = [job EXCEPT ![j].at = to, ![j].copy = state.installed]
  /\ UNCHANGED <<state, author, present, OfJob>>
Snapshot(j) ==
  installedSnapshot(j, "copy", "publish") \/ installedSnapshot(j, "fail", "giveUp")
Publish(j) ==
  LET over == job[j].next > Len(job[j].list)
  IN  /\ job[j].at = "publish"
      /\ job' = [job EXCEPT ![j].at = IF over THEN "done" ELSE "add",
                            ![j].copy = {}]
      /\ setInstallJob(j, IF over THEN "done" ELSE "installing", job[j].copy)
      /\ UNCHANGED <<present, OfJob>>
(* Wrong on purpose: the failed job forgets what it installed.            *)
failInstallForgetful(j) ==
  /\ job[j].at = "giveUp"
  /\ Go(j, "failed") /\ setInstallJob(j, "error", {})
  /\ UNCHANGED <<present, OfJob>>
failInstall(j) ==
  /\ job[j].at = "giveUp"
  /\ Go(j, "failed") /\ setInstallJob(j, "error", job[j].copy)
  /\ UNCHANGED <<present, OfJob>>

(* One package, through the executor; it may be in place though the command*)
(* failed, and the command may succeed though nothing is in place.         *)
Add(j) ==
  /\ job[j].at = "add"
  /\ present' \in {present, present \union {job[j].list[job[j].next]}}
  /\ Go(j, "look") \/ Go(j, "fail")
  /\ UNCHANGED <<state, author, OfJob>>
(* Wrong on purpose: what was asked for counts as installed.              *)
LookTrusting(j) ==
  /\ job[j].at = "look"
  /\ state' = [state EXCEPT !.installed = @ \union {job[j].list[job[j].next]}]
  /\ job' = [job EXCEPT ![j].at = "copy", ![j].next = @ + 1]
  /\ UNCHANGED <<author, present, OfJob>>
Look(j) ==
  LET pkg == job[j].list[job[j].next]
  IN  /\ job[j].at = "look"
      /\ state' = IF pkg \in present
                    THEN [state EXCEPT !.installed = @ \union {pkg}] ELSE state
      /\ job' = [job EXCEPT ![j].at = "copy", ![j].next = @ + 1]
      /\ UNCHANGED <<author, present, OfJob>>

Run(j) ==
  \/ Open(j) \/ Update(j) \/ Snapshot(j) \/ Publish(j) \/ failInstall(j)
  \/ Add(j) \/ Look(j)

-----------------------------------------------------------------------------
(* The hook.  A tab whose begin has not returned offers no second one.     *)

(* Wrong on purpose: the last record is left as it was until the job runs.*)
StartInstallPackagesAsItWas(b) ==
  /\ tab[b].at = "idle" /\ last + 1 \in Jobs
  /\ last' = last + 1 /\ overlap' = (Active # {})
  /\ \E list \in Lists :
       job' = [job EXCEPT ![last + 1] = [NoJob EXCEPT !.at = "start",
                                                      !.list = list]]
  /\ tab' = [tab EXCEPT ![b] = [NoTab EXCEPT !.at = "waiting",
                                                !.job = last + 1,
                                                !.rivals = Active]]
  /\ UNCHANGED <<manager, state, author, present, faults>>
StartInstallPackages(b) ==
  /\ tab[b].at = "idle" /\ last + 1 \in Jobs
  /\ last' = last + 1 /\ overlap' = (Active # {})
  /\ \E list \in Lists :
       job' = [job EXCEPT ![last + 1] = [NoJob EXCEPT !.at = "start",
                                                      !.list = list]]
  /\ setInstallJob(last + 1, "updating", {})
  /\ tab' = [tab EXCEPT ![b] = [NoTab EXCEPT !.at = "waiting",
                                                !.job = last + 1,
                                                !.rivals = Active]]
  /\ UNCHANGED <<manager, present, faults>>

(* Wrong on purpose: a poll heeds only "done" and "error".                *)
JobStatusUntilAnEnd(b) ==
  /\ tab[b].at = "waiting"
  /\ state.phase \in {"done", "error"}
  /\ tab' = [tab EXCEPT ![b].at = "idle", ![b].seen = state,
                      ![b].by = author,
                      ![b].own = tab[b].rivals = {} /\ last = tab[b].job]
  /\ UNCHANGED <<manager, state, job, last, present, overlap, author, faults>>
(* One second later, or more; begin returns when the phase is none of those*)
(* of a job that runs.                                                     *)
JobStatus(b) ==
  /\ tab[b].at = "waiting"
  /\ state.phase \notin {"updating", "installing"}
  /\ tab' = [tab EXCEPT ![b].at = "idle", ![b].seen = state,
                      ![b].by = author,
                      ![b].own = tab[b].rivals = {} /\ last = tab[b].job]
  /\ UNCHANGED <<manager, state, job, last, present, overlap, author, faults>>
(* A poll that fails makes begin throw, and the button is there again.     *)
PollFails(b) ==
  /\ tab[b].at = "waiting" /\ faults < MaxFaults
  /\ faults' = faults + 1
  /\ tab' = [tab EXCEPT ![b] = NoTab]
  /\ UNCHANGED <<manager, state, job, last, present, overlap, author>>
begin(b) == JobStatus(b) \/ PollFails(b)

(* The panel restarts: the record is zero and the goroutines are gone.     *)
Restart ==
  /\ faults < MaxFaults /\ faults' = faults + 1
  /\ state' = Blank /\ overlap' = FALSE /\ author' = 0
  /\ job' = [j \in Jobs |-> IF job[j].at \in Ended THEN job[j]
                            ELSE [job[j] EXCEPT !.at = "killed"]]
  /\ UNCHANGED <<manager, last, present, tab>>

Next ==
  \/ \E j \in Jobs : Run(j)
  \/ \E b \in Tabs : StartInstallPackages(b) \/ begin(b)
  \/ Restart

Spec == Init /\ [][Next]_vars

(* Package managers end, and the browser goes on polling.                  *)
FairSpec ==
  /\ Spec
  /\ \A j \in Jobs : WF_vars(Run(j))
  /\ \A b \in Tabs : WF_vars(begin(b))

-----------------------------------------------------------------------------
(* "One job is active at a time" (the comment on InstallProgress).         *)
OneActive == \A i, j \in Active : i = j

(* Whatever is said to be installed is on the router, also when the copies *)
(* and appends of overlapping jobs overwrite each other.                   *)
InstalledIsTrue ==
  /\ state.installed \subseteq present
  /\ \A j \in Jobs : job[j].copy \subseteq present
  /\ \A b \in Tabs : tab[b].seen.installed \subseteq present

(* When begin returns with "done" or "error", a job has ended so, and one  *)
(* that the tab may hear of: its own, or one that was under way when its   *)
(* own began or that began later, since jobs share the record; never one   *)
(* that was over before, whose record the request has to replace.  If no   *)
(* other was under way and none came, it is the tab's own job, and only    *)
(* packages of its list are told.                                          *)
Says(phase) == IF phase = "done" THEN "done" ELSE "failed"
OwnOutcome ==
  \A b \in Tabs :
    LET h == tab[b]
    IN h.seen.phase \in {"done", "error"} =>
         /\ h.by \in Jobs /\ job[h.by].at = Says(h.seen.phase)
         /\ h.by = h.job \/ h.by > h.job \/ h.by \in h.rivals
         /\ h.own => /\ h.by = h.job
                     /\ h.seen.installed \subseteq Range(job[h.job].list)

(* begin returns, whatever becomes of the job.                             *)
BeginReturns == \A b \in Tabs : tab[b].at # "idle" ~> tab[b].at = "idle"

-----------------------------------------------------------------------------
(* The record implements Installer.                                        *)
Current == IF last = 0 THEN NoJob ELSE job[last]
Stage ==
  IF overlap THEN "lost"
  ELSE IF state.phase \in {"updating", "installing"} THEN "running"
  ELSE IF state.phase = "error" THEN "failed"
  ELSE IF state.phase = "done" THEN "done" ELSE "none"
Promise == INSTANCE Installer WITH
  stage <- Stage,
  wanted <- IF Stage \in {"none", "lost"} THEN <<>> ELSE Current.list,
  tried <- IF Stage \in {"none", "lost"} THEN 0 ELSE Current.next - 1,
  told <- IF overlap THEN {} ELSE state.installed
Implements == Promise!Spec
=============================================================================
