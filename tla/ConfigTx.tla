------------------------------ MODULE ConfigTx ------------------------------
(***************************************************************************)
(* How NetGrip changes the configuration of the router.                    *)
(*                                                                         *)
(* Every write handler of internal/modules has one shape: export the UCI   *)
(* packages it may change (executor.Snapshot), run a list of operations in *)
(* order (executor.Apply over executor.Run), probe the result, and on a    *)
(* failed operation or probe import the exports again (executor.Restore)   *)
(* and reload the daemons.  A handler's list is a plan: data, given by     *)
(* Plan, so that this module is the machine that runs any handler and      *)
(* module WritePaths holds the handlers.                                   *)
(*                                                                         *)
(* The handlers run on the goroutines of the HTTP server and of the        *)
(* schedulers.  Nothing serialises them: each command below is a process   *)
(* of its own, and the commands of two handlers interleave freely.         *)
(*                                                                         *)
(* The content of a package is the set of the edits in it.  An edit is     *)
(* known by the worker that made it and the position of the operation in   *)
(* its plan, so one can tell whose edits a package holds and how much of a *)
(* change is there.                                                        *)
(***************************************************************************)
EXTENDS Naturals, Sequences

CONSTANTS
  Workers,     \* the goroutines that run write handlers, one change each
  Pkgs,        \* UCI packages: "network", "dhcp", ...
  Svcs,        \* init.d services, and "wifi" for the radios
  Reads,       \* Reads[s]: the package service s loads when it (re)starts
  Drives,      \* Drives[s]: the services an action on s reaches
  Plan,        \* Plan[id]: what the handler of that name does
  Boots,       \* the [en, up] service states the system may start in
  MaxFaults    \* bound: how many commands and probes fail in a behaviour

PlanIds == DOMAIN Plan

Ops == {"edit", "commit", "restore", "svc", "svcIfEnabled", "svcIfWasUp",
        "putEnabled", "putRunning", "pkg"}

Acts == {"none", "enable", "disable", "start", "stop", "restart", "reload",
         "poke"}

(***************************************************************************)
(* One operation of a plan: executor.Op.  "on" is its package or service.  *)
(* must says what the handler does with its error: an operation given to   *)
(* executor.Apply stops the list and starts the rollback, one run on its   *)
(* own with the error dropped does not.                                    *)
(***************************************************************************)
Op == [op : Ops, on : Pkgs \cup Svcs, act : Acts, must : BOOLEAN]

SnapReq == [pkg : Pkgs, must : BOOLEAN]

ASSUME ShapeAssumption ==
  /\ Reads \in [Svcs -> Pkgs]
  /\ Drives \in [Svcs -> SUBSET Svcs]
  /\ \A s \in Svcs : s \in Drives[s]
  /\ Boots \subseteq [en : SUBSET Svcs, up : SUBSET Svcs]
  /\ MaxFaults \in Nat

ASSUME PlanAssumption ==
  \A id \in PlanIds :
    /\ Plan[id].snaps \in Seq(SnapReq)
    /\ Plan[id].steps \in Seq(Op)
    /\ Plan[id].undo \in Seq(Op)
    /\ Plan[id].unprobe \in Seq(Op)
    /\ Plan[id].health \in BOOLEAN
    /\ Plan[id].needs \in SUBSET Svcs

(* A package operation names a package and a service operation a service.  *)
ASSUME TargetAssumption ==
  \A id \in PlanIds :
   \A s \in {Plan[id].steps, Plan[id].undo, Plan[id].unprobe} :
    \A i \in DOMAIN s :
      IF s[i].op \in {"edit", "commit", "restore"} THEN s[i].on \in Pkgs
                                                   ELSE s[i].on \in Svcs

Mark == Workers \X Nat
Content == SUBSET Mark
Busy == {"snap", "run", "check", "undo", "unprobe"}
Phases == {"idle"} \cup Busy \cup {"done", "undone", "refused"}

VARIABLES
  committed,   \* committed[p]: /etc/config/p
  staged,      \* staged[p]: the delta in /tmp/.uci/p, shared by everyone
  en,          \* services with a boot symlink
  up,          \* services that run
  loaded,      \* loaded[s]: the content of its package s last read
  pc,          \* pc[w]: the phase of w's handler
  plan,        \* plan[w]: the handler w runs
  at,          \* at[w]: the position of the next operation
  snap,        \* snap[w][p]: the export of p held in w's handler
  has,         \* has[w]: the packages w holds an export of
  was,         \* was[w]: the service states w probed before it wrote
  before,      \* history: what w's packages held when its handler began
  met,         \* history: the workers whose handlers were at work at the
               \* same time as w's, on a package of w's
  clean,       \* clean[w]: every command of w's rollback succeeded
  faults       \* how many commands and probes have failed

sys == <<committed, staged, en, up, loaded>>
ctl == <<pc, plan, at, snap, has, was, before, met, clean, faults>>
vars == <<committed, staged, en, up, loaded, pc, plan, at, snap, has, was,
          before, met, clean, faults>>

(* What uci show and uci export print: the file with the delta applied.    *)
Visible(p) == committed[p] \cup staged[p]

Touched(ops) ==
  {ops[i].on : i \in {j \in DOMAIN ops :
                        ops[j].op \in {"edit", "commit", "restore"}}}

(* The packages a handler may read or write.                               *)
Footprint(id) ==
  {Plan[id].snaps[i].pkg : i \in DOMAIN Plan[id].snaps}
    \cup Touched(Plan[id].steps) \cup Touched(Plan[id].undo)
    \cup Touched(Plan[id].unprobe)

Undos(id) == {Plan[id].undo, Plan[id].unprobe}
Undoing == {"undo", "unprobe"}
Todo(w) ==
  IF pc[w] = "run" THEN Plan[plan[w]].steps
  ELSE IF pc[w] = "undo" THEN Plan[plan[w]].undo ELSE Plan[plan[w]].unprobe
Cur(w) == Todo(w)[at[w]]
Running(w) == pc[w] \in {"run"} \cup Undoing /\ at[w] \in DOMAIN Todo(w)

TypeOK ==
  /\ committed \in [Pkgs -> Content]
  /\ staged \in [Pkgs -> Content]
  /\ en \in SUBSET Svcs
  /\ up \in SUBSET Svcs
  /\ loaded \in [Svcs -> Content]
  /\ pc \in [Workers -> Phases]
  /\ plan \in [Workers -> PlanIds]
  /\ at \in [Workers -> Nat \ {0}]
  /\ snap \in [Workers -> [Pkgs -> Content]]
  /\ has \in [Workers -> SUBSET Pkgs]
  /\ was \in [Workers -> [en : SUBSET Svcs, up : SUBSET Svcs]]
  /\ before \in [Workers -> [Pkgs -> Content]]
  /\ met \in [Workers -> SUBSET Workers]
  /\ clean \in [Workers -> BOOLEAN]
  /\ faults \in 0..MaxFaults
-----------------------------------------------------------------------------
Init ==
  /\ committed = [p \in Pkgs |-> {}]
  /\ staged = [p \in Pkgs |-> {}]
  /\ \E b \in Boots : en = b.en /\ up = b.up
  /\ loaded = [s \in Svcs |-> {}]
  /\ pc = [w \in Workers |-> "idle"]
  /\ plan \in [Workers -> PlanIds]
  /\ at = [w \in Workers |-> 1]
  /\ snap = [w \in Workers |-> [p \in Pkgs |-> {}]]
  /\ has = [w \in Workers |-> {}]
  /\ was = [w \in Workers |-> [en |-> {}, up |-> {}]]
  /\ before = [w \in Workers |-> [p \in Pkgs |-> {}]]
  /\ met = [w \in Workers |-> {}]
  /\ clean = [w \in Workers |-> TRUE]
  /\ faults = 0

(* Whose handlers are at work on a package of w's.  No lock keeps them off. *)
Near(w) ==
  {v \in Workers : /\ pc[v] \in Busy
                   /\ Footprint(plan[v]) \cap Footprint(plan[w]) # {}}
Alone(w) == met[w] = {}

(* The request passes the handler's checks, the ones on services among     *)
(* them ("firewall not enabled").                                          *)
Begin(w) ==
  /\ pc[w] = "idle"
  /\ Plan[plan[w]].needs \subseteq en
  /\ pc' = [pc EXCEPT ![w] = "snap"]
  /\ before' = [before EXCEPT ![w] = [p \in Pkgs |-> Visible(p)]]
  /\ met' = [v \in Workers |-> IF v = w THEN met[w] \cup Near(w)
                               ELSE IF v \in Near(w) THEN met[v] \cup {w}
                                                     ELSE met[v]]
  /\ UNCHANGED <<sys, plan, at, snap, has, was, clean, faults>>

(* executor.Snapshot: uci export of the next package.                      *)
Snapshot(w) ==
  /\ pc[w] = "snap"
  /\ at[w] \in DOMAIN Plan[plan[w]].snaps
  /\ LET p == Plan[plan[w]].snaps[at[w]].pkg
     IN /\ snap' = [snap EXCEPT ![w][p] = Visible(p)]
        /\ has' = [has EXCEPT ![w] = @ \cup {p}]
  /\ at' = [at EXCEPT ![w] = @ + 1]
  /\ UNCHANGED <<sys, pc, plan, was, before, met, clean, faults>>

(* "snap, _ := executor.Snapshot(p)" and no test of snap: the empty export *)
(* of a failed command counts as the content of the package.               *)
SnapshotUntested(w) ==
  /\ pc[w] = "snap"
  /\ at[w] \in DOMAIN Plan[plan[w]].snaps
  /\ faults < MaxFaults
  /\ faults' = faults + 1
  /\ has' = [has EXCEPT ![w] = @ \cup {Plan[plan[w]].snaps[at[w]].pkg}]
  /\ at' = [at EXCEPT ![w] = @ + 1]
  /\ UNCHANGED <<sys, pc, plan, snap, was, before, met, clean>>

(* A failed export ends the handler before it wrote anything, unless the   *)
(* handler drops the error and goes on without that export.                *)
SnapshotFails(w) ==
  /\ pc[w] = "snap"
  /\ at[w] \in DOMAIN Plan[plan[w]].snaps
  /\ faults < MaxFaults
  /\ faults' = faults + 1
  /\ IF Plan[plan[w]].snaps[at[w]].must
       THEN pc' = [pc EXCEPT ![w] = "refused"] /\ at' = at
       ELSE at' = [at EXCEPT ![w] = @ + 1] /\ pc' = pc
  /\ UNCHANGED <<sys, plan, snap, has, was, before, met, clean>>

(* The handler looks at the services and builds its list of operations.    *)
Prepare(w) ==
  /\ pc[w] = "snap"
  /\ at[w] \notin DOMAIN Plan[plan[w]].snaps
  /\ pc' = [pc EXCEPT ![w] = "run"]
  /\ at' = [at EXCEPT ![w] = 1]
  /\ was' = [was EXCEPT ![w] = [en |-> en, up |-> up]]
  /\ UNCHANGED <<sys, plan, snap, has, before, met, clean, faults>>
-----------------------------------------------------------------------------
(* uci set, add_list, del_list and delete stage a change.                  *)
Edit(w) ==
  /\ Cur(w).op = "edit"
  /\ staged' = [staged EXCEPT ![Cur(w).on] = @ \cup {<<w, at[w]>>}]
  /\ UNCHANGED <<committed, en, up, loaded>>

(* uci commit writes the whole delta of the package, whoever staged it.    *)
Commit(w) ==
  /\ Cur(w).op = "commit"
  /\ committed' = [committed EXCEPT ![Cur(w).on] = Visible(Cur(w).on)]
  /\ staged' = [staged EXCEPT ![Cur(w).on] = {}]
  /\ UNCHANGED <<en, up, loaded>>

(* uci import -m instead of uci import: the export is merged.              *)
RestoreMerges(w) ==
  /\ Cur(w).op = "restore"
  /\ IF Cur(w).on \in has[w]
       THEN /\ committed' = [committed EXCEPT
                               ![Cur(w).on] = Visible(Cur(w).on)
                                                \cup snap[w][Cur(w).on]]
            /\ staged' = [staged EXCEPT ![Cur(w).on] = {}]
       ELSE UNCHANGED <<committed, staged>>
  /\ UNCHANGED <<en, up, loaded>>

(* executor.Restore: uci import replaces the package by the export, and a  *)
(* commit follows.  Without an export the handler skips it.                *)
Restore(w) ==
  /\ Cur(w).op = "restore"
  /\ IF Cur(w).on \in has[w]
       THEN /\ committed' = [committed EXCEPT ![Cur(w).on] = snap[w][Cur(w).on]]
            /\ staged' = [staged EXCEPT ![Cur(w).on] = {}]
       ELSE UNCHANGED <<committed, staged>>
  /\ UNCHANGED <<en, up, loaded>>

(* The running services of S read their packages again.                    *)
Load(S) ==
  loaded' = [s \in Svcs |-> IF s \in S THEN committed[Reads[s]] ELSE loaded[s]]

(* /etc/init.d/<s> <act>, wifi reload, ifup and their kin.                 *)
Act(s, act) ==
  /\ en' = IF act = "enable" THEN en \cup {s}
           ELSE IF act = "disable" THEN en \ {s} ELSE en
  /\ up' = IF act \in {"start", "restart"} THEN up \cup Drives[s]
           ELSE IF act = "stop" THEN up \ {s} ELSE up
  /\ \/ act \in {"start", "restart"} /\ Load(Drives[s])
     \/ act = "reload" /\ Load(Drives[s] \cap up)
     \/ act \notin {"start", "restart", "reload"} /\ loaded' = loaded
  /\ UNCHANGED <<committed, staged>>

(* initd, and its uses behind a test: on the service being enabled now, or *)
(* on what the handler probed before it wrote.                             *)
ActIf(test, s, act) == IF test THEN Act(s, act) ELSE UNCHANGED sys

(* ServiceAsItIs looks at the service when it is put back, not before the  *)
(* write.                                                                  *)
ServiceAsItIs(w) ==
  LET s == Cur(w).on
  IN \/ Cur(w).op = "svc" /\ Act(s, Cur(w).act)
     \/ Cur(w).op = "svcIfEnabled" /\ ActIf(s \in en, s, Cur(w).act)
     \/ Cur(w).op = "svcIfWasUp" /\ ActIf(s \in was[w].up, s, Cur(w).act)
     \/ /\ Cur(w).op = "putEnabled"
        /\ Act(s, IF s \in en THEN "enable" ELSE "disable")
     \/ /\ Cur(w).op = "putRunning"
        /\ Act(s, IF s \in up THEN "start" ELSE "stop")

Service(w) ==
  LET s == Cur(w).on
  IN \/ Cur(w).op = "svc" /\ Act(s, Cur(w).act)
     \/ Cur(w).op = "svcIfEnabled" /\ ActIf(s \in en, s, Cur(w).act)
     \/ Cur(w).op = "svcIfWasUp" /\ ActIf(s \in was[w].up, s, Cur(w).act)
     \/ /\ Cur(w).op = "putEnabled"
        /\ Act(s, IF s \in was[w].en THEN "enable" ELSE "disable")
     \/ /\ Cur(w).op = "putRunning"
        /\ Act(s, IF s \in was[w].up THEN "start" ELSE "stop")

(* pkg_add: apk or opkg; what it installs is outside the configuration.    *)
Package(w) == Cur(w).op = "pkg" /\ UNCHANGED sys

Effect(w) == Edit(w) \/ Commit(w) \/ Restore(w) \/ Service(w) \/ Package(w)
-----------------------------------------------------------------------------
(* executor.Run returns nil.                                               *)
OpOk(w) ==
  /\ Running(w)
  /\ Effect(w)
  /\ at' = [at EXCEPT ![w] = @ + 1]
  /\ UNCHANGED <<pc, plan, snap, has, was, before, met, clean, faults>>

(* An Apply that goes on after the error of an operation.                  *)
ApplyGoesOn(w) ==
  /\ Running(w)
  /\ faults < MaxFaults
  /\ faults' = faults + 1
  /\ Effect(w) \/ UNCHANGED sys
  /\ at' = [at EXCEPT ![w] = @ + 1]
  /\ clean' = [clean EXCEPT ![w] = @ /\ pc[w] = "run"]
  /\ UNCHANGED <<pc, plan, snap, has, was, before, met>>

(* executor.Run returns an error; the command may have taken effect all    *)
(* the same.  Apply stops at it and the handler rolls back; an error of a  *)
(* best-effort operation, and every error of the rollback, is dropped.     *)
OpFails(w) ==
  /\ Running(w)
  /\ faults < MaxFaults
  /\ faults' = faults + 1
  /\ Effect(w) \/ UNCHANGED sys
  /\ IF pc[w] = "run" /\ Cur(w).must
       THEN /\ pc' = [pc EXCEPT ![w] = "undo"]
            /\ at' = [at EXCEPT ![w] = 1]
       ELSE /\ at' = [at EXCEPT ![w] = @ + 1]
            /\ pc' = pc
  /\ clean' = [clean EXCEPT ![w] = @ /\ pc[w] = "run"]
  /\ UNCHANGED <<plan, snap, has, was, before, met>>

(* The loop over the list stops one operation short.                       *)
AppliedEarly(w) ==
  /\ pc[w] = "run"
  /\ at[w] + 1 \notin DOMAIN Plan[plan[w]].steps
  /\ pc' = [pc EXCEPT ![w] = IF Plan[plan[w]].health THEN "check" ELSE "done"]
  /\ UNCHANGED <<sys, plan, at, snap, has, was, before, met, clean, faults>>

(* The list is through: probe the result, where the handler does.          *)
Applied(w) ==
  /\ pc[w] = "run"
  /\ at[w] \notin DOMAIN Plan[plan[w]].steps
  /\ pc' = [pc EXCEPT ![w] = IF Plan[plan[w]].health THEN "check" ELSE "done"]
  /\ UNCHANGED <<sys, plan, at, snap, has, was, before, met, clean, faults>>

Healthy(w) ==
  /\ pc[w] = "check"
  /\ pc' = [pc EXCEPT ![w] = "done"]
  /\ UNCHANGED <<sys, plan, at, snap, has, was, before, met, clean, faults>>

Unhealthy(w) ==
  /\ pc[w] = "check"
  /\ faults < MaxFaults
  /\ faults' = faults + 1
  /\ pc' = [pc EXCEPT ![w] = "unprobe"]
  /\ at' = [at EXCEPT ![w] = 1]
  /\ UNCHANGED <<sys, plan, snap, has, was, before, met, clean>>

(* The rollback stops one command short.                                   *)
UndoneEarly(w) ==
  /\ pc[w] \in Undoing
  /\ at[w] + 1 \notin DOMAIN Todo(w)
  /\ pc' = [pc EXCEPT ![w] = "undone"]
  /\ UNCHANGED <<sys, plan, at, snap, has, was, before, met, clean, faults>>

(* The rollback is through and the handler answers with the error.         *)
Undone(w) ==
  /\ pc[w] \in Undoing
  /\ at[w] \notin DOMAIN Todo(w)
  /\ pc' = [pc EXCEPT ![w] = "undone"]
  /\ UNCHANGED <<sys, plan, at, snap, has, was, before, met, clean, faults>>

Step(w) ==
  \/ Snapshot(w) \/ Prepare(w) \/ OpOk(w) \/ Applied(w) \/ Healthy(w)
  \/ Undone(w)

Fault(w) == SnapshotFails(w) \/ OpFails(w) \/ Unhealthy(w)

Next == \E w \in Workers : Begin(w) \/ Step(w) \/ Fault(w)

Spec == Init /\ [][Next]_vars

(* The discipline a handler is written in.  It exports first what it is    *)
(* about to touch, or ends; both its rollbacks put every package back that *)
(* it may touch and write none in another way; every edit is followed by a *)
(* commit whose error counts.                                              *)
Written(id) == Touched(Plan[id].steps)
Exports(id, packages) ==
  \A p \in packages :
    [pkg |-> p, must |-> TRUE] \in
      {Plan[id].snaps[i] : i \in DOMAIN Plan[id].snaps}
PutsBack(id) ==
  \A ops \in Undos(id) :
    /\ \A p \in Footprint(id) :
         \E i \in DOMAIN ops : ops[i].op = "restore" /\ ops[i].on = p
    /\ \A i \in DOMAIN ops : ops[i].op \notin {"edit", "commit"}
WellGuarded(id) == Exports(id, Footprint(id)) /\ PutsBack(id)

CommitsEdits(id) ==
  LET steps == Plan[id].steps
  IN \A i \in DOMAIN steps : steps[i].op = "edit" =>
       \E j \in DOMAIN steps :
         /\ i < j
         /\ steps[j].op = "commit" /\ steps[j].on = steps[i].on
         /\ steps[j].must
-----------------------------------------------------------------------------
MarksOf(w) == {w} \X Nat
Holds(p, w) == Visible(p) \cap MarksOf(w) # {}
Ends(w, phase) == pc[w] # phase /\ pc'[w] = phase
RollsBack(w) == Ends(w, "undone") /\ clean[w]

(* README.md 52-54, ADR-003: a change that fails undoes itself.  When a    *)
(* rollback whose commands all worked ends, every package the handler      *)
(* touches holds what it held when the handler began, with nothing staged. *)
UndoesItself(w) ==
  RollsBack(w) =>
    \A p \in Footprint(plan[w]) :
      committed'[p] = before[w][p] /\ staged'[p] = {}
(* ... for a handler that met no other on its packages; the others may     *)
(* meet each other, and nothing keeps them from doing so.                  *)
RollbackExact == [][\A w \in Workers : Alone(w) => UndoesItself(w)]_vars

(* A change that was refused or rolled back, of a handler that met no      *)
(* other on its packages, leaves none of its edits, in the files or staged *)
(* for whoever commits next, from then on.                                 *)
Rejected(w) == pc[w] = "refused" \/ (pc[w] = "undone" /\ clean[w])
LeavesNo(w) == Rejected(w) => \A p \in Pkgs : ~Holds(p, w)
LeavesNothing == \A w \in Workers : Alone(w) => LeavesNo(w)

(* ADR-003 names the failure this design is there to exclude: a failed     *)
(* batch picked up later by an unrelated commit.  What a handler failed to *)
(* change is not changed for it by whoever commits the package next.       *)
RejectedStaysOut ==
  [][\A w \in Workers : Rejected(w) /\ Alone(w) =>
       \A p \in Pkgs : committed'[p] \cap MarksOf(w) \subseteq committed[p]]_vars

(* A handler that answers success has committed every edit it made: none   *)
(* of them waits in a delta for whoever commits or reverts next.           *)
CommitsAll(w) ==
  pc[w] = "done" => \A p \in Pkgs : staged[p] \cap MarksOf(w) = {}

(* The services that run and read a package of the handler work with what  *)
(* the package holds.                                                      *)
Live(w) ==
  \A s \in up : Reads[s] \in Footprint(plan[w])
                 => loaded[s] = committed[Reads[s]]

(* A successful change is committed when the handler answers, whatever     *)
(* failed on the way, and in force if nothing did: each service that reads *)
(* the files was made to.                                                  *)
TakesEffect(w) ==
  Ends(w, "done") => CommitsAll(w)' /\ (faults = 0 => Live(w))

(* After a rollback the running services work with the restored packages:  *)
(* a rollback of the files alone leaves the rejected change in force.      *)
UndoTakesEffect(w) == RollsBack(w) => Live(w)
RollbackIsLive == [][\A w \in Workers : UndoTakesEffect(w)]_vars

(* After a rollback every service is enabled, and runs, as it did before.  *)
ServicesAsBefore(w) ==
  RollsBack(w) => en' = was[w].en /\ up' = was[w].up
ServicesBack == [][\A w \in Workers : ServicesAsBefore(w)]_vars

(* A step takes nothing of w's change out of the files.                    *)
Stays(w) ==
  \A p \in Pkgs : committed[p] \cap MarksOf(w) \subseteq committed'[p]

(* An acknowledged change can be lost in one way only.  Handlers may be at *)
(* work on the same package at the same time, each holding an export that  *)
(* predates the edits of the other; what w reported as done is taken out   *)
(* of the files only after one of those that worked next to w rolled back. *)
(* One that began later, or fell behind and succeeded, never does it,      *)
(* whomever else it met, and however many rollbacks there were elsewhere.  *)
Undisturbed(w) == \A v \in met[w] : pc[v] \notin Undoing \cup {"undone"}
AckSurvives ==
  [][\A w \in Workers : pc[w] = "done" /\ Undisturbed(w) => Stays(w)]_vars

(* What a user would expect: an acknowledged change stays.  The code does  *)
(* not keep this one: executor.Restore of a handler that overlapped puts   *)
(* an export back that has no trace of the change (MCLostAck.cfg).         *)
AckStays == [][\A w \in Workers : pc[w] = "done" => Stays(w)]_vars

(* What is seen of the changes: the files without the edits of the         *)
(* handlers at work and of those that met another on their packages.       *)
Seen ==
  [p \in Pkgs |->
     {m \in Visible(p) : pc[m[1]] \notin Busy /\ Alone(m[1])}]
Outcome ==
  [w \in Workers |->
     IF ~Alone(w) THEN "tangled"
     ELSE IF pc[w] \in Busy THEN "working"
     ELSE IF pc[w] = "undone" /\ ~clean[w] THEN "broken"
     ELSE IF pc[w] \in {"undone", "refused"} THEN "failed" ELSE pc[w]]
Required(id) ==
  {i \in DOMAIN Plan[id].steps :
     Plan[id].steps[i].op = "edit" /\ Plan[id].steps[i].must}
Request ==
  [w \in Workers |->
     {<<Plan[plan[w]].steps[i].on, i>> : i \in Required(plan[w])}]

Change == INSTANCE AtomicChange
            WITH files <- Seen, state <- Outcome, asked <- Request

(* README.md 52-54.  A handler that meets no other on its packages makes   *)
(* all of its change or leaves none of it, and the change stays, unless a  *)
(* command of its rollback fails.  The others come and go, overlap and     *)
(* roll back around it, and touch nothing of it.                           *)
IsAtomic == Change!Spec
=============================================================================
