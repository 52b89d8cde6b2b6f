---------------------------- MODULE InstallProofs ----------------------------
(***************************************************************************)
(* For any number of tabs, requests, packages, failed polls and restarts,  *)
(* and however the jobs overlap: the type of the record, and that a package*)
(* said to be installed is on the router.                                  *)
(***************************************************************************)
EXTENDS InstallJob, TLAPS

(* What the zero values are made of.                                       *)
LEMMA BlankType == Blank \in Progress /\ Blank.installed = {}
  BY DEF Blank, Progress, Phases
LEMMA NoJobType == NoJob \in Goroutine /\ Within(NoJob) /\ NoJob.copy = {}
  <1>1. Len(NoJob.list) = 0
    BY DEF NoJob
  <1>2. NoJob.next = 1 /\ NoJob.at = "none" /\ NoJob.copy = {}
    BY DEF NoJob
  <1> QED
    BY <1>1, <1>2 DEF NoJob, Goroutine, Within, Places, Ended
LEMMA NoTabType == NoTab \in Hook /\ NoTab.seen.installed = {}
  BY BlankType DEF NoTab, Hook

(* The package a job is at is one of those that may be asked for.          *)
LEMMA PackageType ==
  ASSUME TypeOK, NEW j \in Jobs, job[j].next <= Len(job[j].list)
  PROVE  job[j].list[job[j].next] \in Packages
  <1>1. job[j].list \in Lists \union {<<>>} /\ job[j].next \in 1 .. Len(job[j].list)
    BY DEF TypeOK, Goroutine, Within
  <1>2. job[j].list \in Lists
    BY <1>1
  <1>3. job[j].list \in Seq(Range(job[j].list))
    BY <1>2, ListsAreSequences
  <1>4. job[j].list[job[j].next] \in Range(job[j].list)
    BY <1>1, <1>3
  <1> QED
    BY <1>2, <1>4 DEF Packages

(* A goroutine that becomes another well-typed one keeps the types.        *)
LEMMA OneType ==
  ASSUME TypeOK, NEW j \in Jobs, NEW g \in Goroutine, Within(g),
         job' = [job EXCEPT ![j] = g]
  PROVE  job' \in [Jobs -> Goroutine] /\ \A i \in Jobs : Within(job'[i])
  BY DEF TypeOK

(* In particular one that only moves on.                                   *)
LEMMA GoType ==
  ASSUME TypeOK, NEW j \in Jobs, NEW at \in Places, Go(j, at),
         at \in {"add", "look"} => job[j].next <= Len(job[j].list)
  PROVE  job' \in [Jobs -> Goroutine] /\ \A i \in Jobs : Within(job'[i])
  <1> DEFINE g == [job[j] EXCEPT !.at = at]
  <1>1. job[j] \in Goroutine /\ Within(job[j])
    BY DEF TypeOK
  <1>2. g \in Goroutine
    BY <1>1 DEF Goroutine
  <1>3. Within(g)
    BY <1>1 DEF Goroutine, Within
  <1>4. job' = [job EXCEPT ![j] = g]
    BY DEF Go
  <1> QED
    BY <1>2, <1>3, <1>4, OneType

(* The record takes a phase and a list of packages.                        *)
LEMMA ProgressType ==
  ASSUME NEW j, NEW phase \in Phases, NEW installed \in SUBSET Packages,
         setInstallJob(j, phase, installed)
  PROVE  /\ state' \in Progress /\ state'.installed = installed
         /\ author' = j
  BY DEF setInstallJob, Progress

(* What a well-typed goroutine holds.                                      *)
LEMMA JobParts ==
  ASSUME TypeOK, NEW j \in Jobs
  PROVE  /\ job[j] \in Goroutine /\ Within(job[j])
         /\ job[j].copy \in SUBSET Packages /\ job[j].next \in Nat
         /\ job[j].list \in Lists \union {<<>>}
         /\ state.installed \in SUBSET Packages
  BY DEF TypeOK, Goroutine, Progress

(* Every step of a goroutine keeps the types.                              *)
LEMMA RunType ==
  ASSUME TypeOK, NEW j \in Jobs, Run(j)
  PROVE  TypeOK'
  <1>0. /\ {"updating", "installing", "done", "error"} \subseteq Phases
        /\ {"update", "copy", "fail", "failed", "look"} \subseteq Places
        /\ {} \in SUBSET Packages
    BY DEF Phases, Places, Ended
  <1> SUFFICES
        /\ state' \in Progress /\ present' \subseteq Packages
        /\ job' \in [Jobs -> Goroutine] /\ \A i \in Jobs : Within(job'[i])
        /\ UNCHANGED OfJob
    <2>1. author' \in {author, j} /\ j \in Nat
      BY JobsAreNumbered
      DEF Run, Open, Update, Snapshot, installedSnapshot, Publish, failInstall,
          Add, Look, setInstallJob
    <2> QED
      BY <2>1 DEF TypeOK, OfJob
  <1>1. CASE Open(j)
    <2>1. \/ Go(j, "update") /\ setInstallJob(j, "updating", {})
          \/ Go(j, "copy") /\ setInstallJob(j, "installing", {})
      BY <1>1 DEF Open
    <2>2. state' \in Progress
      BY <1>0, <2>1, ProgressType
    <2>3. job' \in [Jobs -> Goroutine] /\ \A i \in Jobs : Within(job'[i])
      BY <1>0, <2>1, GoType
    <2> QED
      BY <1>1, <2>2, <2>3 DEF Open, OfJob, TypeOK
  <1>2. CASE Update(j)
    <2>1. \/ Go(j, "copy") /\ setInstallJob(j, "installing", {})
          \/ Go(j, "fail") /\ UNCHANGED <<state, author>>
      BY <1>2 DEF Update
    <2>2. state' \in Progress
      BY <1>0, <2>1, ProgressType DEF TypeOK
    <2>3. job' \in [Jobs -> Goroutine] /\ \A i \in Jobs : Within(job'[i])
      BY <1>0, <2>1, GoType
    <2> QED
      BY <1>2, <2>2, <2>3 DEF Update, OfJob, TypeOK
  <1>3. CASE Snapshot(j)
    <2>1. PICK to \in {"publish", "giveUp"} :
            job' = [job EXCEPT ![j].at = to, ![j].copy = state.installed]
      BY <1>3 DEF Snapshot, installedSnapshot
    <2> DEFINE g == [job[j] EXCEPT !.at = to, !.copy = state.installed]
    <2>2. g \in Goroutine /\ Within(g)
      BY <2>1, JobParts DEF Goroutine, Within, Places
    <2>3. job' = [job EXCEPT ![j] = g]
      BY <2>1
    <2>4. job' \in [Jobs -> Goroutine] /\ \A i \in Jobs : Within(job'[i])
      BY <2>2, <2>3, OneType
    <2> QED
      BY <1>3, <2>4 DEF Snapshot, installedSnapshot, OfJob, TypeOK
  <1>4. CASE Publish(j)
    <2> DEFINE over == job[j].next > Len(job[j].list)
               at == IF over THEN "done" ELSE "add"
               g == [job[j] EXCEPT !.at = at, !.copy = {}]
    <2>1. g \in Goroutine
      BY JobParts DEF Goroutine, Places, Ended
    <2>2. Within(g)
      BY JobParts DEF Goroutine, Within
    <2>3. job' = [job EXCEPT ![j] = g]
      BY <1>4 DEF Publish
    <2>4. job' \in [Jobs -> Goroutine] /\ \A i \in Jobs : Within(job'[i])
      BY <2>1, <2>2, <2>3, OneType
    <2>5. \E phase \in Phases : setInstallJob(j, phase, job[j].copy)
      BY <1>0, <1>4 DEF Publish
    <2>6. state' \in Progress
      BY <2>5, JobParts, ProgressType
    <2> QED
      BY <1>4, <2>4, <2>6 DEF Publish, OfJob, TypeOK
  <1>5. CASE failInstall(j)
    <2>1. Go(j, "failed") /\ setInstallJob(j, "error", job[j].copy)
      BY <1>5 DEF failInstall
    <2>2. state' \in Progress
      BY <1>0, <2>1, JobParts, ProgressType
    <2>3. job' \in [Jobs -> Goroutine] /\ \A i \in Jobs : Within(job'[i])
      BY <1>0, <2>1, GoType
    <2> QED
      BY <1>5, <2>2, <2>3 DEF failInstall, OfJob, TypeOK
  <1>6. CASE Add(j)
    <2>1. job[j].next <= Len(job[j].list)
      BY <1>6, JobParts DEF Add, Within
    <2>2. present' \subseteq Packages
      BY <1>6, <2>1, PackageType DEF Add, TypeOK
    <2>3. Go(j, "look") \/ Go(j, "fail")
      BY <1>6 DEF Add
    <2>4. job' \in [Jobs -> Goroutine] /\ \A i \in Jobs : Within(job'[i])
      BY <1>0, <2>1, <2>3, GoType
    <2> QED
      BY <1>6, <2>2, <2>4 DEF Add, OfJob, TypeOK
  <1>7. CASE Look(j)
    <2> DEFINE g == [job[j] EXCEPT !.at = "copy", !.next = @ + 1]
    <2>1. job[j].next <= Len(job[j].list)
      BY <1>7, JobParts DEF Look, Within
    <2>2. job[j].list[job[j].next] \in Packages
      BY <2>1, PackageType
    <2>3. g \in Goroutine
      <3>1. "copy" \in Places /\ job[j].next + 1 \in Nat
        BY JobParts DEF Places
      <3>2. job[j] \in Goroutine
        BY JobParts
      <3> QED
        BY <3>1, <3>2 DEF Goroutine
    <2>4. Within(g)
      <3>1. job[j].next \in Nat /\ job[j].next \in 1 .. Len(job[j].list) + 1
        BY JobParts DEF Within
      <3>2. g.next = job[j].next + 1 /\ g.list = job[j].list /\ g.at = "copy"
        BY JobParts DEF Goroutine
      <3> QED
        BY <2>1, <3>1, <3>2 DEF Within
    <2>5. job' = [job EXCEPT ![j] = g]
      BY <1>7 DEF Look
    <2>6. job' \in [Jobs -> Goroutine] /\ \A i \in Jobs : Within(job'[i])
      BY <2>3, <2>4, <2>5, OneType
    <2>7. state' \in Progress
      BY <1>7, <2>2 DEF Look, TypeOK, Progress
    <2> QED
      BY <1>7, <2>6, <2>7 DEF Look, OfJob, TypeOK
  <1> QED
    BY <1>1, <1>2, <1>3, <1>4, <1>5, <1>6, <1>7 DEF Run

(* So does every step of a hook, and a restart.                            *)
LEMMA TypeStep ==
  ASSUME TypeOK, [Next]_vars
  PROVE  TypeOK'
  <1>1. CASE UNCHANGED vars
    BY <1>1 DEF TypeOK, vars
  <1>2. ASSUME NEW j \in Jobs, Run(j) PROVE TypeOK'
    BY <1>2, RunType
  <1>3. ASSUME NEW b \in Tabs, StartInstallPackages(b) PROVE TypeOK'
    <2>1. PICK list \in Lists :
            job' = [job EXCEPT ![last + 1] =
                      [NoJob EXCEPT !.at = "start", !.list = list]]
      BY <1>3 DEF StartInstallPackages
    <2> DEFINE g == [NoJob EXCEPT !.at = "start", !.list = list]
    <2>2. g \in Goroutine
      BY NoJobType DEF Goroutine, Places
    <2>3. g.next = 1 /\ g.list = list /\ g.at = "start"
      BY DEF NoJob
    <2>4. Len(list) \in Nat
      BY ListsAreSequences
    <2>5. Within(g)
      BY <2>3, <2>4 DEF Within
    <2>6. last + 1 \in Jobs
      BY <1>3 DEF StartInstallPackages
    <2>7. job' \in [Jobs -> Goroutine] /\ \A i \in Jobs : Within(job'[i])
      BY <2>1, <2>2, <2>5, <2>6, OneType
    <2>8. state' \in Progress
      <3>1. setInstallJob(last + 1, "updating", {}) /\ "updating" \in Phases
        BY <1>3 DEF StartInstallPackages, Phases
      <3> QED
        BY <3>1, ProgressType
    <2>9. tab' \in [Tabs -> Hook]
      <3>1. last + 1 \in Nat
        BY DEF TypeOK
      <3>2. [NoTab EXCEPT !.at = "waiting", !.job = last + 1,
                          !.rivals = Active] \in Hook
        BY <3>1, NoTabType DEF Hook, Active
      <3> QED
        BY <1>3, <3>2 DEF StartInstallPackages, TypeOK
    <2> QED
      BY <1>3, <2>7, <2>8, <2>9 DEF StartInstallPackages, setInstallJob, TypeOK
  <1>4. ASSUME NEW b \in Tabs, JobStatus(b) PROVE TypeOK'
    <2> DEFINE h == [tab[b] EXCEPT !.at = "idle", !.seen = state,
                                   !.by = author,
                                   !.own = tab[b].rivals = {} /\ last = tab[b].job]
    <2>1. h \in Hook
      <3>1. tab[b] \in Hook /\ state \in Progress /\ author \in Nat
        BY DEF TypeOK
      <3>2. (tab[b].rivals = {} /\ last = tab[b].job) \in BOOLEAN
        OBVIOUS
      <3> QED
        BY <3>1, <3>2 DEF Hook
    <2>2. tab' = [tab EXCEPT ![b] = h]
      BY <1>4 DEF JobStatus
    <2>3. tab' \in [Tabs -> Hook]
      BY <2>1, <2>2 DEF TypeOK
    <2> QED
      BY <1>4, <2>3 DEF JobStatus, TypeOK
  <1>5. ASSUME NEW b \in Tabs, PollFails(b) PROVE TypeOK'
    BY <1>5, NoTabType DEF TypeOK, PollFails
  <1>6. CASE Restart
    <2>1. ASSUME NEW j \in Jobs
          PROVE  job'[j] \in Goroutine /\ Within(job'[j])
      <3>1. CASE job[j].at \in Ended
        BY <1>6, <3>1, JobParts DEF Restart
      <3>2. CASE job[j].at \notin Ended
        <4>1. job'[j] = [job[j] EXCEPT !.at = "killed"]
          BY <1>6, <3>2 DEF Restart
        <4> QED
          BY <4>1, JobParts DEF Goroutine, Within, Places, Ended
      <3> QED
        BY <3>1, <3>2
    <2>2. job' \in [Jobs -> Goroutine]
      BY <1>6, <2>1 DEF Restart
    <2> QED
      BY <1>6, <2>1, <2>2, BlankType DEF Restart, TypeOK
  <1> QED
    BY <1>1, <1>2, <1>3, <1>4, <1>5, <1>6 DEF Next, begin

(* The record, the goroutines and the hooks hold what they are said to.    *)
THEOREM InstallTypeCorrect == Spec => []TypeOK
  <1>1. ASSUME Init PROVE TypeOK
    <2>1. state \in Progress /\ job \in [Jobs -> Goroutine] /\ tab \in [Tabs -> Hook]
      BY <1>1, BlankType, NoJobType, NoTabType DEF Init
    <2>2. \A j \in Jobs : Within(job[j])
      BY <1>1, NoJobType DEF Init
    <2> QED
      BY <1>1, <2>1, <2>2 DEF Init, TypeOK
  <1>2. TypeOK /\ [Next]_vars => TypeOK'
    BY TypeStep
  <1> QED
    BY <1>1, <1>2, PTL DEF Spec

-----------------------------------------------------------------------------
(* A step keeps what is said true: only what was seen on the router is     *)
(* added, a copy is a copy of something true, and nothing leaves the router*)
LEMMA TruthStep ==
  ASSUME TypeOK, InstalledIsTrue, [Next]_vars
  PROVE  InstalledIsTrue'
  <1> USE DEF InstalledIsTrue
  <1>1. CASE UNCHANGED vars
    BY <1>1 DEF vars
  <1>2. ASSUME NEW j \in Jobs, Run(j) PROVE InstalledIsTrue'
    <2>0. \A i \in Jobs : job[i].copy \in SUBSET Packages /\ job[i] \in Goroutine
      BY JobParts
    <2>1. present \subseteq present' /\ UNCHANGED tab
      BY <1>2 DEF Run, Open, Update, Snapshot, installedSnapshot, Publish,
                  failInstall, Add, Look, OfJob
    <2>2. \A i \in Jobs : job'[i].copy \subseteq present
      <3>1. job'[j].copy \in {job[j].copy, state.installed, {}}
        BY <1>2, <2>0 DEF Run, Open, Update, Snapshot, installedSnapshot, Publish,
                    failInstall, Add, Look, Go, TypeOK, Goroutine
      <3>2. \A i \in Jobs \ {j} : job'[i] = job[i]
        BY <1>2 DEF Run, Open, Update, Snapshot, installedSnapshot, Publish,
                    failInstall, Add, Look, Go, TypeOK
      <3> QED
        BY <3>1, <3>2
    <2>3. state'.installed \subseteq present
      <3>1. CASE Open(j) \/ Update(j) \/ Snapshot(j) \/ Add(j)
        BY <3>1 DEF Open, Update, Snapshot, installedSnapshot, Add, setInstallJob
      <3>2. CASE Publish(j) \/ failInstall(j)
        BY <3>2 DEF Publish, failInstall, setInstallJob
      <3>3. CASE Look(j)
        BY <3>3 DEF Look, TypeOK, Progress
      <3> QED
        BY <1>2, <3>1, <3>2, <3>3 DEF Run
    <2> QED
      BY <2>1, <2>2, <2>3
  <1>3. ASSUME NEW b \in Tabs, StartInstallPackages(b) PROVE InstalledIsTrue'
    <2>1. PICK list \in Lists :
            job' = [job EXCEPT ![last + 1] =
                      [NoJob EXCEPT !.at = "start", !.list = list]]
      BY <1>3 DEF StartInstallPackages
    <2>2. [NoJob EXCEPT !.at = "start", !.list = list].copy = {}
      BY DEF NoJob
    <2>3. [NoTab EXCEPT !.at = "waiting", !.job = last + 1,
                        !.rivals = Active].seen.installed = {}
      BY NoTabType DEF NoTab
    <2>4. state'.installed = {}
      BY <1>3 DEF StartInstallPackages, setInstallJob
    <2>5. \A j \in Jobs : job'[j].copy \in {job[j].copy, {}}
      BY <2>1, <2>2 DEF TypeOK
    <2>6. \A t \in Tabs : tab'[t].seen.installed \in {tab[t].seen.installed, {}}
      BY <1>3, <2>3 DEF StartInstallPackages, TypeOK
    <2> QED
      BY <1>3, <2>4, <2>5, <2>6 DEF StartInstallPackages
  <1>4. ASSUME NEW b \in Tabs, JobStatus(b) PROVE InstalledIsTrue'
    <2>1. \A t \in Tabs : tab'[t].seen \in {tab[t].seen, state}
      BY <1>4 DEF JobStatus, TypeOK, Hook
    <2> QED
      BY <1>4, <2>1 DEF JobStatus
  <1>5. ASSUME NEW b \in Tabs, PollFails(b) PROVE InstalledIsTrue'
    <2>1. \A t \in Tabs : tab'[t] \in {tab[t], NoTab}
      BY <1>5 DEF PollFails, TypeOK
    <2> QED
      BY <1>5, <2>1, NoTabType DEF PollFails
  <1>6. CASE Restart
    <2>1. \A j \in Jobs : job'[j].copy = job[j].copy
      BY <1>6, JobParts DEF Restart, Goroutine
    <2> QED
      BY <1>6, <2>1, BlankType DEF Restart
  <1> QED
    BY <1>1, <1>2, <1>3, <1>4, <1>5, <1>6 DEF Next, begin

(* Nobody is told that a package is installed that is not.                 *)
THEOREM InstalledIsTrueAlways == Spec => []InstalledIsTrue
  <1>1. Init => InstalledIsTrue
    BY BlankType, NoJobType, NoTabType DEF Init, InstalledIsTrue
  <1>2. TypeOK /\ InstalledIsTrue /\ [Next]_vars => InstalledIsTrue'
    BY TruthStep
  <1> QED
    BY <1>1, <1>2, InstallTypeCorrect, PTL DEF Spec

-----------------------------------------------------------------------------
(* The record and the one job it is of.  No number is taken before its     *)
(* request; and while no two jobs met, the record is of the last request:  *)
(* it runs when that job does, ends as it ended, and tells packages of its *)
(* list only.  What the job has copied is then what the record still says, *)
(* so publishing it takes nothing back.                                    *)
NotYet == \A j \in Jobs : j > last => job[j].at = "none"
Lone == \A j \in Active : j = last
OfTheLast ==
  /\ state.phase = "" => state.installed = {} /\ Active = {}
  /\ state.phase \in {"updating", "installing"} => last \in Active
  /\ state.phase = "done" => last \in Jobs /\ job[last].at = "done"
  /\ state.phase = "error" => last \in Jobs /\ job[last].at = "failed"
  /\ state.phase # "" => state.installed \subseteq Range(job[last].list)
Busy ==
  last \in Active =>
    /\ state.phase \in {"updating", "installing"}
    /\ job[last].at \in {"start", "update"} => state.installed = {}
    /\ job[last].at \in {"publish", "giveUp"} => job[last].copy = state.installed
LoneInv == NotYet /\ (~overlap => Lone /\ OfTheLast /\ Busy)

(* The package a job is at is one of its list.                             *)
LEMMA Listed ==
  ASSUME TypeOK, NEW j \in Jobs, job[j].next <= Len(job[j].list)
  PROVE  job[j].list[job[j].next] \in Range(job[j].list)
  <1>1. job[j].list \in Lists \union {<<>>} /\ job[j].next \in 1 .. Len(job[j].list)
    BY DEF TypeOK, Goroutine, Within
  <1>2. job[j].list \in Seq(Range(job[j].list))
    BY <1>1, ListsAreSequences
  <1>3. DOMAIN job[j].list = 1 .. Len(job[j].list)
    BY <1>2
  <1> QED
    BY <1>1, <1>3 DEF Range

(* What a step of a goroutine leaves alone.                                *)
LEMMA RunFrame ==
  ASSUME TypeOK, NEW j \in Jobs, Run(j)
  PROVE  /\ job[j].at \notin Ended /\ DOMAIN job' = Jobs
         /\ \A i \in Jobs \ {j} : job'[i] = job[i]
         /\ job'[j].list = job[j].list
         /\ UNCHANGED <<last, tab, overlap>> /\ present \subseteq present'
  <1>1. job[j] \in Goroutine /\ DOMAIN job = Jobs
    BY DEF TypeOK
  <1>2. job[j].at \notin Ended
    BY DEF Run, Open, Update, Snapshot, installedSnapshot, Publish, failInstall,
           Add, Look, Ended
  <1>3. DOMAIN job' = Jobs /\ \A i \in Jobs \ {j} : job'[i] = job[i]
    BY <1>1 DEF Run, Open, Update, Snapshot, installedSnapshot, Publish,
                failInstall, Add, Look, Go, TypeOK
  <1>4. job'[j].list = job[j].list
    BY <1>1 DEF Run, Open, Update, Snapshot, installedSnapshot, Publish,
                failInstall, Add, Look, Go, TypeOK, Goroutine
  <1>5. UNCHANGED <<last, tab, overlap>> /\ present \subseteq present'
    BY DEF Run, Open, Update, Snapshot, installedSnapshot, Publish, failInstall,
           Add, Look, OfJob
  <1> QED
    BY <1>2, <1>3, <1>4, <1>5

(* Each step of a goroutine: where it goes, what it copies and what it     *)
(* tells.                                                                  *)
LEMMA RunEffect ==
  ASSUME TypeOK, NEW j \in Jobs, Run(j)
  PROVE  \/ /\ Open(j) \/ Update(j)
            /\ job[j].at \in {"start", "update"} /\ job'[j].next = job[j].next
            /\ \/ /\ job'[j].at \in {"update", "copy"}
                  /\ state'.phase \in {"updating", "installing"}
                  /\ state'.installed = {}
               \/ job'[j].at = "fail" /\ state' = state
         \/ /\ Snapshot(j)
            /\ job[j].at \in {"copy", "fail"} /\ job'[j].next = job[j].next
            /\ job'[j].at \in {"publish", "giveUp"}
            /\ job'[j].copy = state.installed /\ state' = state
         \/ /\ Publish(j)
            /\ job[j].at = "publish" /\ job'[j].next = job[j].next
            /\ state'.installed = job[j].copy
            /\ \/ /\ job[j].next > Len(job[j].list)
                  /\ job'[j].at = "done" /\ state'.phase = "done"
               \/ job'[j].at = "add" /\ state'.phase = "installing"
         \/ /\ failInstall(j)
            /\ job[j].at = "giveUp" /\ job'[j].next = job[j].next
            /\ job'[j].at = "failed" /\ state'.phase = "error"
            /\ state'.installed = job[j].copy
         \/ /\ Add(j)
            /\ job[j].at = "add" /\ job'[j].next = job[j].next
            /\ job'[j].at \in {"look", "fail"} /\ state' = state
         \/ /\ Look(j)
            /\ job[j].at = "look" /\ job'[j].next = job[j].next + 1
            /\ job'[j].at = "copy" /\ state'.phase = state.phase
            /\ state'.installed \in
                 {state.installed, state.installed \union {job[j].list[job[j].next]}}
            /\ state'.installed # state.installed
                 => job[j].list[job[j].next] \in present
  <1>1. job[j] \in Goroutine /\ DOMAIN job = Jobs /\ state \in Progress
    BY DEF TypeOK
  <1>2. ASSUME NEW at, Go(j, at)
        PROVE  job'[j].at = at /\ job'[j].next = job[j].next
    BY <1>1, <1>2 DEF Go, Goroutine
  <1>3. ASSUME NEW phase, NEW installed, setInstallJob(j, phase, installed)
        PROVE  state'.phase = phase /\ state'.installed = installed
    BY <1>3 DEF setInstallJob
  <1>4. CASE Open(j)
    BY <1>2, <1>3, <1>4 DEF Open
  <1>5. CASE Update(j)
    BY <1>2, <1>3, <1>5 DEF Update
  <1>6. CASE Snapshot(j)
    <2>1. PICK to \in {"publish", "giveUp"} :
            job' = [job EXCEPT ![j].at = to, ![j].copy = state.installed]
      BY <1>6 DEF Snapshot, installedSnapshot
    <2>2. job'[j].at = to /\ job'[j].next = job[j].next
      BY <1>1, <2>1 DEF Goroutine
    <2>3. job'[j].copy = state.installed
      BY <1>1, <2>1 DEF Goroutine
    <2> QED
      BY <1>6, <2>2, <2>3 DEF Snapshot, installedSnapshot
  <1>7. CASE Publish(j)
    <2> DEFINE over == job[j].next > Len(job[j].list)
    <2>1. job'[j].at = (IF over THEN "done" ELSE "add") /\ job'[j].next = job[j].next
      BY <1>1, <1>7 DEF Publish, Goroutine
    <2>2. setInstallJob(j, IF over THEN "done" ELSE "installing", job[j].copy)
          /\ job[j].at = "publish"
      BY <1>7 DEF Publish
    <2>3. state'.phase = (IF over THEN "done" ELSE "installing")
          /\ state'.installed = job[j].copy
      BY <1>3, <2>2
    <2> QED
      BY <1>7, <2>1, <2>2, <2>3
  <1>8. CASE failInstall(j)
    BY <1>2, <1>3, <1>8 DEF failInstall
  <1>9. CASE Add(j)
    BY <1>2, <1>9 DEF Add
  <1>10. CASE Look(j)
    <2>1. job'[j].at = "copy" /\ job'[j].next = job[j].next + 1
      BY <1>1, <1>10 DEF Look, Goroutine
    <2>2. /\ state'.phase = state.phase
          /\ state'.installed = IF job[j].list[job[j].next] \in present
               THEN state.installed \union {job[j].list[job[j].next]}
               ELSE state.installed
      BY <1>1, <1>10 DEF Look, Progress
    <2> QED
      BY <1>10, <2>1, <2>2 DEF Look
  <1> QED
    BY <1>4, <1>5, <1>6, <1>7, <1>8, <1>9, <1>10 DEF Run

LEMMA LoneRun ==
  ASSUME TypeOK, LoneInv, NEW j \in Jobs, Run(j)
  PROVE  LoneInv'
  <1>1. /\ job[j].at \notin Ended /\ last' = last /\ overlap' = overlap
        /\ \A i \in Jobs \ {j} : job'[i] = job[i]
        /\ job'[j].list = job[j].list /\ last \in Nat
    BY RunFrame DEF TypeOK
  <1>2. NotYet'
    BY <1>1 DEF LoneInv, NotYet, Ended
  <1>3. Active' \subseteq Active
    BY <1>1 DEF Active
  <1> SUFFICES ASSUME ~overlap
               PROVE  Lone' /\ OfTheLast' /\ Busy'
    BY <1>1, <1>2 DEF LoneInv
  <1>4. j \in Active /\ j = last /\ Lone /\ OfTheLast /\ Busy
    BY <1>1 DEF LoneInv, Lone, Active
  <1>5. Lone'
    BY <1>1, <1>3, <1>4 DEF Lone
  <1>6. state.phase \in {"updating", "installing"} /\ state.phase # ""
    BY <1>4 DEF Busy
  <1>7. last \in Active' <=> job'[j].at \notin Ended
    BY <1>4 DEF Active
  <1>8. CASE state' = state /\ job'[j].at \in {"look", "fail"}
    BY <1>1, <1>4, <1>5, <1>6, <1>7, <1>8 DEF OfTheLast, Busy, Ended
  <1>9. CASE Snapshot(j)
    <2>1. /\ job'[j].at \in {"publish", "giveUp"} /\ state' = state
          /\ job'[j].copy = state.installed
      BY <1>9, RunEffect
      DEF Snapshot, installedSnapshot, Open, Update, Publish, failInstall, Add, Look
    <2> QED
      BY <1>1, <1>4, <1>5, <1>6, <1>7, <2>1 DEF OfTheLast, Busy, Ended
  <1>10. CASE Publish(j)
    <2>1. /\ job[j].at = "publish" /\ state'.installed = job[j].copy
          /\ \/ job'[j].at = "done" /\ state'.phase = "done"
             \/ job'[j].at = "add" /\ state'.phase = "installing"
      BY <1>10, RunEffect
      DEF Snapshot, installedSnapshot, Open, Update, Publish, failInstall, Add, Look
    <2>2. state'.installed \subseteq Range(job'[last].list)
      BY <1>1, <1>4, <1>6, <2>1 DEF OfTheLast, Busy
    <2> QED
      BY <1>1, <1>4, <1>5, <1>7, <2>1, <2>2 DEF OfTheLast, Busy, Ended
  <1>11. CASE failInstall(j)
    <2>1. /\ job[j].at = "giveUp" /\ state'.installed = job[j].copy
          /\ job'[j].at = "failed" /\ state'.phase = "error"
      BY <1>11, RunEffect
      DEF Snapshot, installedSnapshot, Open, Update, Publish, failInstall, Add, Look
    <2>2. state'.installed \subseteq Range(job'[last].list)
      BY <1>1, <1>4, <1>6, <2>1 DEF OfTheLast, Busy
    <2> QED
      BY <1>1, <1>4, <1>5, <1>7, <2>1, <2>2 DEF OfTheLast, Busy, Ended
  <1>12. CASE Look(j)
    <2>1. /\ job[j].at = "look" /\ job'[j].at = "copy" /\ state'.phase = state.phase
          /\ state'.installed \in
               {state.installed, state.installed \union {job[j].list[job[j].next]}}
      BY <1>12, RunEffect
      DEF Snapshot, installedSnapshot, Open, Update, Publish, failInstall, Add, Look
    <2>2. job[j].next <= Len(job[j].list)
      BY <2>1, JobParts DEF Within
    <2>3. state'.installed \subseteq Range(job'[last].list)
      BY <1>1, <1>4, <1>6, <2>1, <2>2, Listed DEF OfTheLast
    <2> QED
      BY <1>1, <1>4, <1>5, <1>6, <1>7, <2>1, <2>3 DEF OfTheLast, Busy, Ended
  <1>13. CASE Add(j)
    <2>1. state' = state /\ job'[j].at \in {"look", "fail"}
      BY <1>13, RunEffect
      DEF Snapshot, installedSnapshot, Open, Update, Publish, failInstall, Add, Look
    <2> QED
      BY <1>8, <2>1
  <1>14. CASE Open(j) \/ Update(j)
    <2>1. \/ job'[j].at = "fail" /\ state' = state
          \/ /\ job'[j].at \in {"update", "copy"}
             /\ state'.installed = {} /\ state'.phase \in {"updating", "installing"}
      BY <1>14, RunEffect
      DEF Snapshot, installedSnapshot, Open, Update, Publish, failInstall, Add, Look
    <2> QED
      BY <1>1, <1>4, <1>5, <1>7, <1>8, <2>1 DEF OfTheLast, Busy, Ended
  <1> QED
    BY <1>9, <1>10, <1>11, <1>12, <1>13, <1>14 DEF Run

LEMMA LoneStep ==
  ASSUME TypeOK, LoneInv, [Next]_vars
  PROVE  LoneInv'
  <1>1. CASE UNCHANGED <<state, job, last, overlap>>
    BY <1>1 DEF LoneInv, NotYet, Lone, OfTheLast, Busy, Active
  <1>2. ASSUME NEW j \in Jobs, Run(j) PROVE LoneInv'
    BY <1>2, LoneRun
  <1>3. ASSUME NEW b \in Tabs, StartInstallPackages(b) PROVE LoneInv'
    <2>1. PICK list \in Lists :
            job' = [job EXCEPT ![last + 1] =
                      [NoJob EXCEPT !.at = "start", !.list = list]]
      BY <1>3 DEF StartInstallPackages
    <2>2. /\ last + 1 \in Jobs /\ last' = last + 1 /\ last \in Nat
          /\ overlap' = (Active # {})
          /\ state'.phase = "updating" /\ state'.installed = {}
      BY <1>3 DEF StartInstallPackages, setInstallJob, TypeOK
    <2>3. /\ \A i \in Jobs \ {last + 1} : job'[i] = job[i]
          /\ job'[last + 1].at = "start"
      BY <2>1, <2>2 DEF TypeOK, NoJob
    <2>4. NotYet'
      BY <2>2, <2>3, JobsAreNumbered DEF LoneInv, NotYet
    <2>5. last' \in Active'
      BY <2>2, <2>3 DEF Active, Ended
    <2>6. ~overlap' => Lone'
      <3>1. Active' \subseteq Active \union {last + 1}
        BY <2>3 DEF Active
      <3> QED
        BY <2>2, <3>1 DEF Lone
    <2>7. OfTheLast' /\ Busy'
      BY <2>2, <2>3, <2>5 DEF OfTheLast, Busy
    <2> QED
      BY <2>4, <2>6, <2>7 DEF LoneInv
  <1>4. CASE Restart
    <2>1. state'.phase = "" /\ state'.installed = {} /\ last' = last
      BY <1>4 DEF Restart, Blank
    <2>2. \A j \in Jobs : job'[j].at \in {job[j].at, "killed"} \intersect Ended
                         /\ (job[j].at = "none" => job'[j].at = "none")
      BY <1>4, JobParts DEF Restart, Ended, Goroutine
    <2>3. Active' = {}
      BY <2>2 DEF Active
    <2>4. NotYet'
      BY <2>1, <2>2 DEF LoneInv, NotYet
    <2> QED
      BY <2>1, <2>3, <2>4 DEF LoneInv, Lone, OfTheLast, Busy
  <1> QED
    BY <1>1, <1>2, <1>3, <1>4 DEF Next, begin, JobStatus, PollFails, vars

LEMMA LoneAlways == Spec => []LoneInv
  <1>1. ASSUME Init PROVE LoneInv
    <2>1. /\ state.phase = "" /\ state.installed = {} /\ last = 0 /\ overlap = FALSE
          /\ \A j \in Jobs : job[j].at = "none"
      BY <1>1 DEF Init, Blank, NoJob
    <2>2. Active = {}
      BY <2>1 DEF Active, Ended
    <2> QED
      BY <2>1, <2>2 DEF LoneInv, NotYet, Lone, OfTheLast, Busy
  <1>2. TypeOK /\ LoneInv /\ [Next]_vars => LoneInv'
    BY LoneStep
  <1> QED
    BY <1>1, <1>2, InstallTypeCorrect, PTL DEF Spec

(* A job that has ended stays as it ended, with its list.                  *)
LEMMA EndStays ==
  ASSUME TypeOK, LoneInv, [Next]_vars, NEW j \in Jobs,
         job[j].at \in {"done", "failed"}
  PROVE  job'[j] = job[j]
  <1>1. ASSUME NEW i \in Jobs, Run(i) PROVE job'[j] = job[j]
    BY <1>1, RunFrame DEF Ended
  <1>2. ASSUME NEW b \in Tabs, StartInstallPackages(b) PROVE job'[j] = job[j]
    <2>1. last + 1 \in Jobs /\ last \in Nat
      BY <1>2 DEF StartInstallPackages, TypeOK
    <2>2. j # last + 1
      BY <2>1 DEF LoneInv, NotYet
    <2> QED
      BY <1>2, <2>1, <2>2 DEF StartInstallPackages, TypeOK
  <1>3. Restart => job'[j] = job[j]
    BY DEF Restart, Ended
  <1> QED
    BY <1>1, <1>2, <1>3 DEF Next, begin, JobStatus, PollFails, vars

(* The record is of its author: it says "done" or "error" only while that  *)
(* job has ended so.  The author is a job a waiting tab may hear of, and so*)
(* is every job that may still write; and where two met, the last of them  *)
(* began with a rival.                                                     *)
Signed ==
  state.phase \in {"done", "error"} =>
    author \in Jobs /\ job[author].at = Says(state.phase)
MayHear(b, j) == j = tab[b].job \/ j > tab[b].job \/ j \in tab[b].rivals
Hears(b) ==
  tab[b].at = "waiting" =>
    /\ tab[b].job <= last
    /\ \A j \in Active : MayHear(b, j)
    /\ state.phase # "" => MayHear(b, author)
    /\ overlap /\ tab[b].job = last => tab[b].rivals # {}
Heard(h, jobs) ==
  h.seen.phase \in {"done", "error"} =>
    /\ h.by \in Jobs /\ jobs[h.by].at = Says(h.seen.phase)
    /\ h.by = h.job \/ h.by > h.job \/ h.by \in h.rivals
    /\ h.own => /\ h.by = h.job
                /\ h.seen.installed \subseteq Range(jobs[h.job].list)
OwnInv == Signed /\ \A b \in Tabs : Hears(b) /\ Heard(tab[b], job)

(* A step of a goroutine signs what it writes and looks.                   *)
LEMMA Signs ==
  ASSUME TypeOK, NEW j \in Jobs, Run(j)
  PROVE  \/ author' = j /\ state'.phase \in {"updating", "installing"}
         \/ /\ author' = j /\ state'.phase \in {"done", "error"}
            /\ job'[j].at = Says(state'.phase)
         \/ author' = author /\ state'.phase = state.phase
  <1>1. state \in Progress
    BY DEF TypeOK
  <1>2. ASSUME NEW phase, NEW installed, setInstallJob(j, phase, installed)
        PROVE  state'.phase = phase /\ author' = j
    BY <1>2 DEF setInstallJob
  <1>3. CASE Open(j) \/ Update(j)
    BY <1>2, <1>3 DEF Open, Update
  <1>4. CASE Snapshot(j) \/ Add(j)
    BY <1>4 DEF Snapshot, installedSnapshot, Add
  <1>5. CASE Look(j)
    BY <1>1, <1>5 DEF Look, Progress
  <1>6. CASE Publish(j)
    <2>1. PICK phase \in {"done", "installing"} :
            /\ setInstallJob(j, phase, job[j].copy)
            /\ phase = "done" => job'[j].at = "done"
      <3>1. job[j] \in Goroutine /\ DOMAIN job = Jobs
        BY DEF TypeOK
      <3> QED
        BY <1>6, <3>1 DEF Publish, Goroutine
    <2> QED
      BY <1>2, <2>1 DEF Says
  <1>7. CASE failInstall(j)
    <2>1. job[j] \in Goroutine /\ DOMAIN job = Jobs
      BY DEF TypeOK
    <2>2. job'[j].at = "failed"
      BY <1>7, <2>1 DEF failInstall, Go, Goroutine
    <2>3. state'.phase = "error" /\ author' = j
      BY <1>2, <1>7 DEF failInstall
    <2> QED
      BY <2>2, <2>3 DEF Says
  <1> QED
    BY <1>3, <1>4, <1>5, <1>6, <1>7 DEF Run

(* What a tab was told stays true.                                         *)
LEMMA HeardStays ==
  ASSUME TypeOK, LoneInv, [Next]_vars, NEW h, Heard(h, job)
  PROVE  Heard(h, job')
  <1> SUFFICES ASSUME h.seen.phase \in {"done", "error"}
               PROVE  /\ job'[h.by].at = Says(h.seen.phase)
                      /\ h.own => job'[h.job] = job[h.job]
    BY DEF Heard
  <1>1. /\ h.by \in Jobs /\ job[h.by].at \in {"done", "failed"}
        /\ job[h.by].at = Says(h.seen.phase) /\ (h.own => h.by = h.job)
    BY DEF Heard, Says
  <1> QED
    BY <1>1, EndStays

(* A tab that goes on waiting while jobs run hears of nobody else: only the*)
(* jobs under way write.                                                   *)
LEMMA HearsOn ==
  ASSUME TypeOK, NEW b \in Tabs, Hears(b), tab'[b] = tab[b],
         last' = last, overlap' = overlap \/ ~overlap',
         Active' \subseteq Active,
         \/ author' = author /\ state'.phase = state.phase
         \/ author' \in Active
         \/ state'.phase = ""
  PROVE  Hears(b)'
  BY DEF Hears, MayHear

LEMMA OwnStep ==
  ASSUME TypeOK, LoneInv, OwnInv, [Next]_vars
  PROVE  OwnInv'
  <1>0. /\ last \in Nat /\ \A b \in Tabs : tab[b] \in Hook /\ tab[b].job \in Nat
        /\ DOMAIN tab = Tabs /\ author \in Nat /\ Jobs \subseteq Nat \ {0}
    BY JobsAreNumbered DEF TypeOK, Hook
  <1>1. Signed /\ \A b \in Tabs : Hears(b) /\ Heard(tab[b], job)
    BY DEF OwnInv
  <1>2. \A b \in Tabs : Heard(tab[b], job')
    BY <1>1, HeardStays
  <1>3. CASE UNCHANGED vars
    <2>1. Signed' /\ \A b \in Tabs : Hears(b)'
      BY <1>1, <1>3 DEF vars, Signed, Hears, MayHear, Active
    <2> QED
      BY <1>2, <1>3, <2>1 DEF vars, OwnInv
  <1>4. ASSUME NEW j \in Jobs, Run(j) PROVE OwnInv'
    <2>1. /\ j \in Active /\ UNCHANGED <<last, tab, overlap>>
          /\ \A i \in Jobs \ {j} : job'[i] = job[i]
      BY <1>4, RunFrame DEF Active
    <2>2. Active' \subseteq Active
      BY <2>1 DEF Active
    <2>3. Signed'
      <3>1. CASE author' = j /\ state'.phase \in {"updating", "installing"}
        BY <3>1 DEF Signed
      <3>2. CASE /\ author' = j /\ state'.phase \in {"done", "error"}
                 /\ job'[j].at = Says(state'.phase)
        BY <3>2 DEF Signed, Says
      <3>3. CASE author' = author /\ state'.phase = state.phase
        <4>1. ASSUME state.phase \in {"done", "error"}
              PROVE  author \in Jobs /\ job'[author] = job[author]
          BY <1>1, <1>4, <4>1, EndStays DEF Signed, Says, Next
        <4> QED
          BY <1>1, <3>3, <4>1 DEF Signed, Says
      <3> QED
        BY <1>4, <3>1, <3>2, <3>3, Signs
    <2>4. ASSUME NEW b \in Tabs PROVE Hears(b)'
      <3>1. \/ author' = author /\ state'.phase = state.phase
            \/ author' \in Active
        BY <1>4, <2>1, Signs
      <3> QED
        BY <1>1, <2>1, <2>2, <3>1, HearsOn
    <2> QED
      BY <1>2, <2>1, <2>3, <2>4 DEF OwnInv
  \* a request makes its own job the author, and a job that may be heard of
  <1>5. ASSUME NEW b \in Tabs, StartInstallPackages(b) PROVE OwnInv'
    <2> DEFINE h == [NoTab EXCEPT !.at = "waiting", !.job = last + 1,
                                  !.rivals = Active]
    <2>1. PICK list \in Lists :
            job' = [job EXCEPT ![last + 1] =
                      [NoJob EXCEPT !.at = "start", !.list = list]]
      BY <1>5 DEF StartInstallPackages
    <2>2. /\ last + 1 \in Jobs /\ last' = last + 1 /\ author' = last + 1
          /\ overlap' = (Active # {}) /\ state'.phase = "updating"
          /\ tab' = [tab EXCEPT ![b] = h]
      BY <1>5 DEF StartInstallPackages, setInstallJob
    <2>3. h.job = last + 1 /\ h.rivals = Active /\ h.seen.phase = ""
      BY DEF NoTab, Blank
    <2>4. tab'[b] = h /\ \A t \in Tabs \ {b} : tab'[t] = tab[t]
      BY <1>0, <2>2
    <2> HIDE DEF h
    <2>10. tab'[b].job = last + 1 /\ tab'[b].rivals = Active
      BY <2>3, <2>4
    <2>5. Active' \subseteq Active \union {last + 1}
      BY <2>1, <2>2 DEF Active, TypeOK
    <2>6. Signed'
      BY <2>2 DEF Signed
    <2>7. Hears(b)'
      <3>1. ASSUME NEW j \in Active' PROVE MayHear(b, j)'
        <4>1. j = last + 1 \/ j \in Active
          BY <2>5, <3>1
        <4> QED
          BY <2>10, <4>1 DEF MayHear
      <3>2. MayHear(b, author)'
        BY <2>2, <2>10 DEF MayHear
      <3>3. tab'[b].job <= last'
        BY <1>0, <2>2, <2>10
      <3>4. overlap' => tab'[b].rivals # {}
        BY <2>2, <2>10
      <3> QED
        BY <3>1, <3>2, <3>3, <3>4 DEF Hears
    <2>8. ASSUME NEW t \in Tabs \ {b}, tab'[t].at = "waiting" PROVE Hears(t)'
      <3>1. tab'[t] = tab[t] /\ tab[t].job \in Nat
        BY <1>0, <2>4, <2>8
      <3>2. tab[t].job <= last /\ \A j \in Active : MayHear(t, j)
        BY <1>1, <2>8, <3>1 DEF Hears
      <3>3. last \in Nat /\ last' = last + 1 /\ author' = last + 1
        BY <1>0, <2>2
      <3>4. last + 1 > tab[t].job /\ tab[t].job # last + 1
            /\ tab[t].job <= last + 1
        BY <3>1, <3>2, <3>3
      <3>5. ASSUME NEW j \in Active' PROVE MayHear(t, j)'
        <4>1. j = last + 1 \/ j \in Active
          BY <2>5, <3>5
        <4> QED
          BY <3>1, <3>2, <3>4, <4>1 DEF MayHear
      <3>6. MayHear(t, author)'
        BY <3>1, <3>3, <3>4 DEF MayHear
      <3> QED
        BY <3>1, <3>3, <3>4, <3>5, <3>6 DEF Hears
    <2>11. \A t \in Tabs : Hears(t)'
      BY <2>7, <2>8 DEF Hears
    <2>9. \A t \in Tabs : Heard(tab'[t], job')
      <3>1. Heard(h, job')
        BY <2>3 DEF Heard
      <3> QED
        BY <1>2, <2>4, <3>1
    <2> QED
      BY <2>6, <2>9, <2>11 DEF OwnInv
  <1>6. ASSUME NEW b \in Tabs, begin(b) PROVE OwnInv'
    <2>1. /\ UNCHANGED <<state, job, last, overlap, author>>
          /\ \A t \in Tabs \ {b} : tab'[t] = tab[t]
          /\ tab'[b].at = "idle"
      BY <1>0, <1>6 DEF begin, JobStatus, PollFails, NoTab, Hook
    <2>2. Signed'
      BY <1>1, <2>1 DEF Signed
    <2>3. ASSUME NEW t \in Tabs PROVE Hears(t)'
      BY <1>1, <2>1 DEF Hears, MayHear, Active
    <2>4. Heard(tab'[b], job')
      <3>1. CASE PollFails(b)
        <4>1. tab'[b].seen.phase = ""
          BY <1>0, <3>1 DEF PollFails, NoTab, Blank
        <4> QED
          BY <4>1 DEF Heard
      <3>2. CASE JobStatus(b)
        <4> DEFINE h == tab[b]
                   g == [h EXCEPT !.at = "idle", !.seen = state, !.by = author,
                                  !.own = h.rivals = {} /\ last = h.job]
        <4>1. tab'[b] = g
          BY <1>0, <3>2 DEF JobStatus
        <4>2. /\ g.seen = state /\ g.by = author /\ g.job = h.job
              /\ g.rivals = h.rivals
              /\ g.own = (h.rivals = {} /\ last = h.job)
          BY <1>0 DEF Hook
        <4> SUFFICES ASSUME state.phase \in {"done", "error"}
                     PROVE  Heard(g, job)
          BY <2>1, <4>1, <4>2 DEF Heard
        <4>3. /\ author \in Jobs /\ job[author].at = Says(state.phase)
              /\ MayHear(b, author) /\ h.job <= last
              /\ overlap /\ h.job = last => h.rivals # {}
          BY <1>1, <3>2 DEF Signed, Hears, JobStatus
        <4>4. ASSUME h.rivals = {}, last = h.job
              PROVE  author = h.job /\ state.installed \subseteq Range(job[h.job].list)
          <5>1. author <= last
            BY <1>0, <4>3 DEF LoneInv, NotYet, Says
          <5>2. author = h.job /\ ~overlap
            BY <1>0, <4>3, <4>4, <5>1 DEF MayHear
          <5> QED
            BY <4>4, <5>2 DEF LoneInv, OfTheLast
        <4> QED
          BY <4>2, <4>3, <4>4 DEF Heard, MayHear
      <3> QED
        BY <1>6, <3>1, <3>2 DEF begin
    <2> QED
      BY <1>2, <2>1, <2>2, <2>3, <2>4 DEF OwnInv
  <1>7. CASE Restart
    <2>1. /\ state'.phase = "" /\ ~overlap' /\ UNCHANGED <<last, tab>>
      BY <1>7 DEF Restart, Blank
    <2>2. Active' = {}
      <3>1. \A j \in Jobs : job'[j].at \in Ended
        BY <1>7, JobParts DEF Restart, Ended, Goroutine
      <3> QED
        BY <3>1 DEF Active
    <2>3. Signed' /\ \A b \in Tabs : Hears(b)'
      BY <1>1, <2>1, <2>2 DEF Signed, Hears, MayHear
    <2> QED
      BY <1>2, <2>1, <2>3 DEF OwnInv
  <1> QED
    BY <1>3, <1>4, <1>5, <1>6, <1>7 DEF Next

(* When begin returns with "done" or "error" a job has ended so: the tab's *)
(* own, one that was under way when that began, or a later one; never one  *)
(* that was over before, though the record is one for all.  A tab that no  *)
(* other job met is told of its own job, and of packages of its list only; *)
(* for any number of tabs and jobs, lost polls and restarts.               *)
THEOREM OwnOutcomeAlways == Spec => []OwnOutcome
  <1>1. Init => OwnInv
    <2> SUFFICES ASSUME Init PROVE OwnInv
      OBVIOUS
    <2>1. /\ state.phase = "" /\ NoTab.at = "idle" /\ NoTab.seen.phase = ""
          /\ \A b \in Tabs : tab[b] = NoTab
      BY DEF Init, NoTab, Blank
    <2> QED
      BY <2>1 DEF OwnInv, Signed, Hears, Heard
  <1>2. TypeOK /\ LoneInv /\ OwnInv /\ [Next]_vars => OwnInv'
    BY OwnStep
  <1>3. OwnInv => OwnOutcome
    BY DEF OwnInv, Heard, OwnOutcome
  <1> QED
    BY <1>1, <1>2, <1>3, InstallTypeCorrect, LoneAlways, PTL DEF Spec

-----------------------------------------------------------------------------
(* The installation as the one who asked for it sees it.                   *)
Wanted == IF Stage \in {"none", "lost"} THEN <<>> ELSE Current.list
Tried == IF Stage \in {"none", "lost"} THEN 0 ELSE Current.next - 1
ToldOf == IF overlap THEN {} ELSE state.installed

(* While two jobs are under way the record is lost to its readers, and only*)
(* packages arrive.                                                        *)
LEMMA LostStep ==
  ASSUME overlap', present \subseteq present',
         overlap \/ present' = present
  PROVE  Promise!Overlap
  <1>1. Stage' = "lost" /\ (overlap => Stage = "lost")
    BY DEF Stage
  <1> QED
    BY <1>1 DEF Promise!Overlap

(* A step that changes nothing the reader sees.                            *)
LEMMA SameView ==
  ASSUME UNCHANGED <<Stage, Wanted, Tried, ToldOf, present>>
  PROVE  UNCHANGED Promise!vars
  BY DEF Promise!vars, Wanted, Tried, ToldOf

(* A step of a goroutine is a package that arrives, one that was tried, an *)
(* end, or nothing the reader sees.                                        *)
LEMMA RunImplements ==
  ASSUME TypeOK, LoneInv, InstalledIsTrue, NEW j \in Jobs, Run(j)
  PROVE  Promise!Next \/ UNCHANGED Promise!vars
  <1>1. /\ job[j].at \notin Ended /\ job'[j].list = job[j].list
        /\ UNCHANGED <<last, tab, overlap>> /\ present \subseteq present'
    BY RunFrame
  <1>2. CASE overlap
    BY <1>1, <1>2, LostStep DEF Promise!Next
  <1> SUFFICES ASSUME ~overlap
               PROVE  Promise!Next \/ UNCHANGED Promise!vars
    BY <1>2
  <1>3. /\ last = j /\ last \in Active /\ last # 0
        /\ state.phase \in {"updating", "installing"} /\ Busy
    BY <1>1, JobsAreNumbered DEF LoneInv, Lone, Active, Busy
  <1>4. /\ Stage = "running" /\ Wanted = job[j].list
        /\ Tried = job[j].next - 1 /\ ToldOf = state.installed
    BY <1>3 DEF Stage, Wanted, Tried, ToldOf, Current
  <1>5. ~overlap' /\ Current' = job'[j] /\ ToldOf' = state'.installed
    BY <1>1, <1>3 DEF Current, ToldOf
  <1>6. /\ job[j].next \in Nat /\ Len(job[j].list) \in Nat
        /\ job[j].next <= Len(job[j].list) + 1
    <2>1. job[j].list \in Lists \union {<<>>}
      BY JobParts
    <2>2. Len(job[j].list) \in Nat
      BY <2>1, ListsAreSequences
    <2> QED
      BY <2>2, JobParts DEF Within
  <1>7. ASSUME state'.phase \in {"updating", "installing", "done", "error"}
        PROVE  /\ Wanted' = job[j].list /\ Tried' = job'[j].next - 1
               /\ Stage' = IF state'.phase = "done" THEN "done"
                           ELSE IF state'.phase = "error" THEN "failed" ELSE "running"
    <2>1. Stage' = IF state'.phase = "done" THEN "done"
                   ELSE IF state'.phase = "error" THEN "failed" ELSE "running"
      BY <1>5, <1>7 DEF Stage
    <2>2. Stage' \notin {"none", "lost"}
      BY <2>1
    <2> QED
      BY <1>1, <1>5, <2>1, <2>2 DEF Wanted, Tried
  <1>8. ASSUME state'.phase \in {"updating", "installing"},
               job'[j].next = job[j].next, state'.installed = state.installed,
               present' = present
        PROVE  UNCHANGED Promise!vars
    <2>1. UNCHANGED <<Stage, Wanted, Tried, ToldOf, present>>
      BY <1>4, <1>5, <1>7, <1>8
    <2> QED
      BY <2>1, SameView
  <1>9. CASE Open(j) \/ Update(j)
    <2>1. /\ job[j].at \in {"start", "update"} /\ job'[j].next = job[j].next
          /\ \/ /\ state'.phase \in {"updating", "installing"}
                /\ state'.installed = {}
             \/ state' = state
      BY <1>9, RunEffect
      DEF Snapshot, installedSnapshot, Open, Update, Publish, failInstall, Add, Look
    <2>2. state'.installed = state.installed /\ present' = present
      BY <1>3, <1>9, <2>1 DEF Busy, Open, Update
    <2> QED
      BY <1>3, <1>8, <2>1, <2>2
  <1>10. CASE Snapshot(j)
    <2>1. state' = state /\ job'[j].next = job[j].next /\ present' = present
      BY <1>10, RunEffect
      DEF Snapshot, installedSnapshot, Open, Update, Publish, failInstall, Add, Look
    <2> QED
      BY <1>3, <1>8, <2>1
  <1>11. CASE Publish(j)
    <2>1. /\ job[j].at = "publish" /\ job'[j].next = job[j].next
          /\ state'.installed = job[j].copy /\ present' = present
          /\ \/ job[j].next > Len(job[j].list) /\ state'.phase = "done"
             \/ state'.phase = "installing"
      BY <1>11, RunEffect
      DEF Snapshot, installedSnapshot, Open, Update, Publish, failInstall, Add, Look
    <2>2. state'.installed = state.installed
      BY <1>3, <2>1 DEF Busy
    <2>3. CASE job[j].next > Len(job[j].list) /\ state'.phase = "done"
      <3>1. Tried = Len(Wanted)
        BY <1>4, <1>6, <2>3
      <3>2. Stage' = "done" /\ UNCHANGED <<Wanted, Tried, ToldOf, present>>
        BY <1>4, <1>5, <1>7, <2>1, <2>2, <2>3
      <3>3. Promise!Finish
        BY <1>4, <3>1, <3>2 DEF Promise!Finish, Wanted, Tried, ToldOf
      <3> QED
        BY <3>3 DEF Promise!Next
    <2> QED
      BY <1>8, <2>1, <2>2, <2>3
  <1>12. CASE failInstall(j)
    <2>1. /\ job[j].at = "giveUp" /\ job'[j].next = job[j].next
          /\ state'.installed = job[j].copy /\ present' = present
          /\ state'.phase = "error"
      BY <1>12, RunEffect
      DEF Snapshot, installedSnapshot, Open, Update, Publish, failInstall, Add, Look
    <2>2. state'.installed = state.installed
      BY <1>3, <2>1 DEF Busy
    <2>3. Stage' = "failed" /\ UNCHANGED <<Wanted, Tried, ToldOf, present>>
      BY <1>4, <1>5, <1>7, <2>1, <2>2
    <2>4. Promise!Fail
      BY <1>4, <2>3 DEF Promise!Fail, Wanted, Tried, ToldOf
    <2> QED
      BY <2>4 DEF Promise!Next
  <1>13. CASE Add(j)
    <2>1. /\ job'[j].next = job[j].next /\ state' = state /\ job[j].at = "add"
          /\ present' \in {present, present \union {job[j].list[job[j].next]}}
      BY <1>13, RunEffect
      DEF Snapshot, installedSnapshot, Open, Update, Publish, failInstall, Add, Look
    <2>2. job[j].next <= Len(job[j].list)
      BY <2>1, JobParts DEF Within
    <2>3. CASE present' = present
      BY <1>3, <1>8, <2>1, <2>3
    <2>4. CASE present' = present \union {job[j].list[job[j].next]}
      <3>1. Tried < Len(Wanted) /\ Tried + 1 = job[j].next
        BY <1>4, <1>6, <2>2
      <3>2. UNCHANGED <<Stage, Wanted, Tried, ToldOf>>
        BY <1>3, <1>4, <1>5, <1>7, <2>1
      <3>3. Promise!Put
        BY <1>4, <2>4, <3>1, <3>2 DEF Promise!Put, Wanted, Tried, ToldOf
      <3> QED
        BY <3>3 DEF Promise!Next
    <2> QED
      BY <2>1, <2>3, <2>4
  <1>14. CASE Look(j)
    <2> DEFINE pkg == job[j].list[job[j].next]
    <2>1. /\ job[j].at = "look" /\ job'[j].next = job[j].next + 1
          /\ state'.phase = state.phase /\ present' = present
          /\ state'.installed \in {state.installed, state.installed \union {pkg}}
          /\ state'.installed # state.installed => pkg \in present
      BY <1>14, RunEffect
      DEF Snapshot, installedSnapshot, Open, Update, Publish, failInstall, Add, Look
    <2>2. job[j].next <= Len(job[j].list)
      BY <2>1, JobParts DEF Within
    <2>3. /\ Tried < Len(Wanted) /\ Tried + 1 = job[j].next
          /\ Wanted[Tried + 1] = pkg
      BY <1>4, <1>6, <2>2
    <2>4. Tried' = job'[j].next - 1 /\ Stage' = "running" /\ Wanted' = Wanted
      BY <1>3, <1>4, <1>7, <2>1
    <2>5. Tried' = Tried + 1
      BY <1>4, <1>6, <2>1, <2>4
    <2>6. ToldOf' \in {ToldOf, (ToldOf \union {pkg}) \intersect present}
      BY <1>4, <1>5, <2>1 DEF InstalledIsTrue
    <2>7. Promise!Try
      BY <1>4, <2>1, <2>3, <2>4, <2>5, <2>6 DEF Promise!Try, Wanted, Tried, ToldOf
    <2> QED
      BY <2>7 DEF Promise!Next
  <1> QED
    BY <1>9, <1>10, <1>11, <1>12, <1>13, <1>14 DEF Run

(* A request begins the installation of one of the lists, or meets another.*)
LEMMA StartImplements ==
  ASSUME TypeOK, LoneInv, NEW b \in Tabs, StartInstallPackages(b)
  PROVE  Promise!Next
  <1>1. PICK list \in Lists :
          job' = [job EXCEPT ![last + 1] =
                    [NoJob EXCEPT !.at = "start", !.list = list]]
    BY DEF StartInstallPackages
  <1>2. /\ last + 1 \in Jobs /\ last' = last + 1 /\ last \in Nat /\ present' = present
        /\ overlap' = (Active # {})
        /\ state'.phase = "updating" /\ state'.installed = {}
    BY DEF StartInstallPackages, setInstallJob, TypeOK
  <1>3. CASE overlap'
    BY <1>2, <1>3, LostStep DEF Promise!Next
  <1>4. CASE ~overlap'
    <2>1. Stage # "running"
      BY <1>2, <1>4 DEF Stage, LoneInv, OfTheLast
    <2>2. job'[last + 1].list = list /\ job'[last + 1].next = 1
      BY <1>1, <1>2 DEF TypeOK, NoJob
    <2>3. Current' = job'[last + 1]
      BY <1>2 DEF Current
    <2>4. Stage' = "running" /\ ToldOf' = {}
      BY <1>2, <1>4 DEF Stage, ToldOf
    <2>5. Wanted' = list /\ Tried' = 0
      BY <2>2, <2>3, <2>4 DEF Wanted, Tried
    <2>6. Promise!Begin
      BY <1>2, <2>1, <2>4, <2>5 DEF Promise!Begin, Wanted, Tried, ToldOf
    <2> QED
      BY <2>6 DEF Promise!Next
  <1> QED
    BY <1>3, <1>4

(* The record the goroutines and the tabs share implements Installer:      *)
(* packages are tried in the order asked for, said to be installed only    *)
(* when they are, done only when all were tried, and nothing is taken back *)
(* until the next request or a restart; two requests at once are lost.     *)
THEOREM InstallImplements == Spec => Implements
  <1> DEFINE Inv == TypeOK /\ LoneInv /\ InstalledIsTrue
  <1>1. Init => Promise!Init
    <2>1. ASSUME Init PROVE Stage = "none" /\ state.installed = {} /\ present = {}
      BY <2>1 DEF Init, Stage, Blank
    <2> QED
      BY <2>1 DEF Init, Promise!Init
  <1>2. ASSUME Inv, [Next]_vars
        PROVE  Promise!Next \/ UNCHANGED Promise!vars
    <2>1. CASE UNCHANGED <<state, job, last, overlap, present>>
      <3>1. UNCHANGED <<Stage, Current>>
        BY <2>1 DEF Stage, Current
      <3>2. UNCHANGED <<Stage, Wanted, Tried, ToldOf, present>>
        BY <2>1, <3>1 DEF Wanted, Tried, ToldOf
      <3> QED
        BY <3>2, SameView
    <2>2. ASSUME NEW j \in Jobs, Run(j)
          PROVE  Promise!Next \/ UNCHANGED Promise!vars
      BY <1>2, <2>2, RunImplements
    <2>3. ASSUME NEW b \in Tabs, StartInstallPackages(b)
          PROVE  Promise!Next
      BY <1>2, <2>3, StartImplements
    <2>4. CASE Restart
      <3>1. Stage' = "none" /\ state'.installed = {} /\ ~overlap' /\ present' = present
        BY <2>4 DEF Restart, Stage, Blank
      <3>2. Promise!Restart
        BY <3>1 DEF Promise!Restart
      <3> QED
        BY <3>2 DEF Promise!Next
    <2> QED
      BY <1>2, <2>1, <2>2, <2>3, <2>4 DEF Next, begin, JobStatus, PollFails, vars
  <1>3. Inv /\ [Next]_vars => [Promise!Next]_(Promise!vars)
    BY <1>2
  <1> QED
    BY <1>1, <1>3, InstallTypeCorrect, LoneAlways, InstalledIsTrueAlways, PTL
    DEF Spec, Implements, Promise!Spec
=============================================================================
