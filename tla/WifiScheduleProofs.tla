-------------------------- MODULE WifiScheduleProofs --------------------------
(***************************************************************************)
(* What WifiSchedule promises for any interfaces, edits, failures and      *)
(* crashes: its type, that the tick and the handler never reconcile at the *)
(* same time, and that the scheduler never puts an interface back on the   *)
(* air that the user switched off, unless the ledger had an entry for it   *)
(* or a reconcile was at work when he did.                                 *)
(***************************************************************************)
EXTENDS WifiSchedule, TLAPS

Stages == {"idle", "want", "apply", "check", "save"}

(* What is written down of the calls of reconcileWifiSchedule.             *)
CallsTyped ==
  /\ mutex \in Procs \cup {None}
  /\ pc \in [Procs -> Stages] /\ sec \in [Procs -> Sections \cup {None}]
  /\ off \in [Procs -> BOOLEAN] /\ snap \in [Procs -> [Sections -> Flags]]

(* A call that comes to an end leaves nothing behind.                      *)
LEMMA LeaveTyped ==
  ASSUME CallsTyped, NEW p \in Procs, Leave(p)
  PROVE  CallsTyped'
  <1>1. NoSnap \in [Sections -> Flags]
    BY DEF NoSnap, Flags
  <1> QED
    BY <1>1 DEF CallsTyped, Leave, Stages

LEMMA CallTyped ==
  ASSUME CallsTyped, NEW p \in Procs, NEW s \in Sections, NEW o \in BOOLEAN,
         Call(p, s, o), UNCHANGED <<mutex, snap>>
  PROVE  CallsTyped'
  BY DEF CallsTyped, Call, Stages

(* A step keeps the types of the calls.                                    *)
LEMMA CallsStep ==
  ASSUME TypeOK, [Next]_vars
  PROVE  CallsTyped'
  <1>1. /\ CallsTyped /\ flag \in [Sections -> Flags] /\ todo \subseteq Sections
        /\ NoSnap \in [Sections -> Flags]
    BY DEF TypeOK, CallsTyped, Stages, NoSnap, Flags
  <1>2. CASE UNCHANGED <<mutex, pc, sec, off, snap>>
    BY <1>1, <1>2 DEF CallsTyped
  <1>3. CASE Crash
    BY <1>1, <1>3 DEF Crash, CallsTyped, Stages
  <1>4. CASE TickLooks
    <2>1. PICK s \in todo :
            IF (phase = "rules") = (sched[s] # "none")
              THEN Call("tick", s, phase = "rules" /\ OffAt(s, now))
              ELSE UNCHANGED <<pc, sec, off>>
      BY <1>4 DEF TickLooks
    <2>2. UNCHANGED <<mutex, snap>>
      BY <1>4 DEF TickLooks
    <2>3. (phase = "rules" /\ OffAt(s, now)) \in BOOLEAN
      OBVIOUS
    <2>4. CASE Call("tick", s, phase = "rules" /\ OffAt(s, now))
      BY <1>1, <2>2, <2>3, <2>4, CallTyped DEF Procs
    <2> QED
      BY <1>2, <2>1, <2>2, <2>4
  <1>5. ASSUME NEW s \in Sections, NEW x, SetWifiSchedule(s, x)
        PROVE  CallsTyped'
    <2>1. (x = "paused" \/ s \in window) \in BOOLEAN
      OBVIOUS
    <2>2. Call("set", s, x = "paused" \/ s \in window) /\ UNCHANGED <<mutex, snap>>
      BY <1>5 DEF SetWifiSchedule
    <2> QED
      BY <1>1, <2>1, <2>2, CallTyped DEF Procs
  <1>6. ASSUME NEW p \in Procs, Reconcile(p)
        PROVE  CallsTyped'
    <2>1. CASE Leave(p)
      BY <1>1, <2>1, LeaveTyped
    <2>2. CASE Enter(p) /\ ~Leave(p)
      BY <1>1, <2>2 DEF Enter, CallsTyped, Stages
    <2>3. CASE Apply(p)
      BY <1>1, <2>3 DEF Apply, CallsTyped, Stages
    <2>4. CASE Up(p)
      BY <1>1, <2>4 DEF Up, CallsTyped, Stages
    <2> QED
      BY <1>6, <2>1, <2>2, <2>3, <2>4
      DEF Reconcile, SnapshotFails, ApplyFails, NotUp, RollBack, Save, SaveFails
  <1> QED
    BY <1>2, <1>3, <1>4, <1>5, <1>6
    DEF Next, User, Scheduler, TickBegins, TickTurns, DropSchedule, SetWifi,
        Clock, vars

(* A step keeps the types of what is stored: the flags, the schedules, the *)
(* ledger and where the tick is.                                           *)
StoreTyped ==
  /\ flag \in [Sections -> Flags]
  /\ sched \in [Sections -> {"none", "enabled", "paused"}]
  /\ window \subseteq Sections /\ ledger \subseteq Sections
  /\ phase \in {"rest", "rules", "heal"} /\ todo \subseteq Sections
  /\ now \subseteq Sections

(* A call is always about an interface: the type alone does not say it, and*)
(* without it an Apply could switch off what is none.                      *)
Named == \A p \in Procs : pc[p] # "idle" => sec[p] \in Sections
Typed == TypeOK /\ Named

LEMMA NamedStep ==
  ASSUME Typed, [Next]_vars
  PROVE  Named'
  <1>1. /\ pc \in [Procs -> Stages] /\ sec \in [Procs -> Sections \cup {None}]
        /\ todo \subseteq Sections /\ Named
    BY DEF Typed, TypeOK, Stages
  <1>2. ASSUME NEW p \in Procs, Leave(p)
        PROVE  Named'
    BY <1>1, <1>2 DEF Leave, Named
  <1>3. ASSUME NEW p \in Procs, NEW s \in Sections, NEW o, Call(p, s, o)
        PROVE  Named'
    BY <1>1, <1>3 DEF Call, Named
  <1>4. CASE UNCHANGED <<pc, sec>>
    BY <1>1, <1>4 DEF Named
  <1>5. CASE Crash
    BY <1>5 DEF Crash, Named
  <1>6. CASE TickLooks
    BY <1>1, <1>3, <1>4, <1>6 DEF TickLooks, Procs
  <1>7. ASSUME NEW s \in Sections, NEW x, SetWifiSchedule(s, x)
        PROVE  Named'
    BY <1>3, <1>7 DEF SetWifiSchedule, Procs
  <1>8. ASSUME NEW p \in Procs, Reconcile(p)
        PROVE  Named'
    <2>1. CASE Enter(p) /\ ~Leave(p)
      BY <1>1, <2>1 DEF Enter, Named
    <2>2. CASE Apply(p) \/ Up(p)
      BY <1>1, <2>2 DEF Apply, Up, Named
    <2> QED
      BY <1>2, <1>8, <2>1, <2>2
      DEF Reconcile, SnapshotFails, ApplyFails, NotUp, RollBack, Save, SaveFails
  <1> QED
    BY <1>4, <1>5, <1>6, <1>7, <1>8
    DEF Next, User, Scheduler, TickBegins, TickTurns, DropSchedule, SetWifi,
        Clock, vars

LEMMA StoreStep ==
  ASSUME Typed, [Next]_vars
  PROVE  StoreTyped'
  <1>1. /\ StoreTyped
        /\ snap \in [Procs -> [Sections -> Flags]]
        /\ \A p \in Procs : pc[p] # "idle" => sec[p] \in Sections
    BY DEF Typed, TypeOK, Named, StoreTyped
  <1>2. CASE UNCHANGED <<flag, sched, window, ledger, phase, todo, now>>
    BY <1>1, <1>2 DEF StoreTyped
  <1>3. CASE Crash \/ Scheduler
    BY <1>1, <1>3
    DEF Crash, Scheduler, TickBegins, TickLooks, TickTurns, StoreTyped
  <1>4. CASE User
    BY <1>1, <1>4
    DEF User, SetWifiSchedule, DropSchedule, SetWifi, Clock, tick, StoreTyped,
        Flags
  <1>5. ASSUME NEW p \in Procs, Apply(p)
        PROVE  StoreTyped'
    BY <1>1, <1>5 DEF Apply, tick, StoreTyped, Flags
  <1>6. ASSUME NEW p \in Procs, ApplyFails(p) \/ NotUp(p)
        PROVE  StoreTyped'
    BY <1>1, <1>6 DEF ApplyFails, NotUp, RollBack, tick, StoreTyped
  <1>7. ASSUME NEW p \in Procs, Save(p)
        PROVE  StoreTyped'
    BY <1>1, <1>7 DEF Save, tick, StoreTyped
  <1> QED
    BY <1>2, <1>3, <1>4, <1>5, <1>6, <1>7
    DEF Next, Reconcile, Enter, SnapshotFails, Up, SaveFails, tick, vars

LEMMA BoundsStep ==
  ASSUME TypeOK, [Next]_vars
  PROVE  edits' \in 0 .. MaxEdits /\ faults' \in 0 .. MaxMishaps
         /\ losses' \in 0 .. MaxMishaps
  <1>1. /\ edits \in 0 .. MaxEdits /\ faults \in 0 .. MaxMishaps
        /\ losses \in 0 .. MaxMishaps
    BY DEF TypeOK
  <1>2. /\ edits' = edits \/ Edits
        /\ faults' = faults \/ Fails
        /\ losses' = losses \/ Loses
    BY DEF Next, User, SetWifiSchedule, DropSchedule, SetWifi, Clock, Scheduler,
       TickBegins, TickLooks, TickTurns, Reconcile, Enter, SnapshotFails, Apply,
       ApplyFails, Up, NotUp, Save, SaveFails, Crash, bounds, vars
  <1> QED
    BY <1>1, <1>2, ScheduleAssumption DEF Edits, Fails, Loses, MishapLeft

LEMMA TypedAlways == Spec => []Typed
  <1>1. ASSUME Init PROVE Typed
    BY <1>1, ScheduleAssumption DEF Init, Typed, TypeOK, Named, NoSnap, Flags
  <1>2. ASSUME Typed, [Next]_vars PROVE Typed'
    BY <1>2, CallsStep, NamedStep, StoreStep, BoundsStep
    DEF Typed, TypeOK, CallsTyped, StoreTyped, Stages
  <1> QED
    BY <1>1, <1>2, PTL DEF Spec

(* Every variable has its type: the ledger names interfaces, and a rollback*)
(* restores flags of interfaces.                                           *)
THEOREM ScheduleTyped == Spec => []TypeOK
  <1>1. Typed => TypeOK
    BY DEF Typed
  <1> QED
    BY <1>1, TypedAlways, PTL

-----------------------------------------------------------------------------
Holds(p) == pc[p] \in {"apply", "check", "save"}
(* The mutex is held by the one who is between its snapshot and its save.  *)
Locked == \A p \in Procs : Holds(p) <=> mutex = p
Exclusive == \A p, q \in Procs : Holds(p) /\ Holds(q) => p = q

LEMMA LockedStep ==
  ASSUME Typed, Locked, [Next]_vars
  PROVE  Locked'
  <1>1. pc \in [Procs -> Stages] /\ None \notin Procs
    BY NobodyIsNoProc DEF Typed, TypeOK, Stages
  <1>2. CASE UNCHANGED <<pc, mutex>>
    BY <1>2 DEF Locked, Holds
  <1>3. CASE Crash
    BY <1>1, <1>3 DEF Crash, Locked, Holds
  <1>4. ASSUME NEW p \in Procs, NEW s, NEW o, Call(p, s, o), mutex' = mutex
        PROVE  Locked'
    BY <1>1, <1>4 DEF Call, Locked, Holds
  <1>5. CASE User \/ Scheduler
    BY <1>2, <1>4, <1>5 DEF User, SetWifiSchedule, DropSchedule, SetWifi, Clock,
       Scheduler, TickBegins, TickLooks, TickTurns, Procs
  <1>6. ASSUME NEW p \in Procs, Leave(p), mutex \in {p, None}
        PROVE  Locked'
    BY <1>1, <1>6 DEF Leave, Locked, Holds
  <1>7. ASSUME NEW p \in Procs, Enter(p) \/ SnapshotFails(p)
        PROVE  Locked'
    <2>1. CASE Leave(p)
      BY <1>6, <1>7, <2>1 DEF Enter, SnapshotFails
    <2>2. CASE ~Leave(p)
      BY <1>1, <1>7, <2>2 DEF Enter, SnapshotFails, Locked, Holds
    <2> QED
      BY <2>1, <2>2
  <1>8. ASSUME NEW p \in Procs, Apply(p) \/ Up(p)
        PROVE  Locked'
    BY <1>1, <1>8 DEF Apply, Up, Locked, Holds
  <1>9. ASSUME NEW p \in Procs,
               ApplyFails(p) \/ NotUp(p) \/ Save(p) \/ SaveFails(p)
        PROVE  Locked'
    <2>1. mutex = p
      BY <1>9 DEF ApplyFails, NotUp, Save, SaveFails, Locked, Holds
    <2>2. Leave(p)
      BY <1>9 DEF ApplyFails, NotUp, RollBack, Save, SaveFails
    <2> QED
      BY <1>6, <2>1, <2>2
  <1> QED
    BY <1>2, <1>3, <1>5, <1>7, <1>8, <1>9 DEF Next, Reconcile, vars

LEMMA LockedAlways == Spec => []Locked
  <1>1. ASSUME Init PROVE Locked
    BY <1>1, NobodyIsNoProc DEF Init, Locked, Holds
  <1> QED
    BY <1>1, LockedStep, TypedAlways, PTL DEF Spec

(* The tick and the handler are never both between the snapshot of wireless*)
(* and the save of the ledger: wifiSchedMu is theirs one after the other,  *)
(* also where a command fails, a probe fails or the process dies.          *)
THEOREM OneReconcileAtATime == Spec => []Exclusive
  <1>1. Locked => Exclusive
    BY DEF Locked, Exclusive
  <1> QED
    BY <1>1, LockedAlways, PTL

-----------------------------------------------------------------------------
(* An interface that the user switched off beforehand is not in the ledger,*)
(* so no call that wants it on the air gets to apply; and the export that a*)
(* rollback restores has it off, and none that is in the ledger off by him.*)
NotOurs == ledger \cap Manual = {}
SnapKeeps ==
  \A p \in Procs : Holds(p) =>
    /\ \A s \in Manual : snap[p][s] = "hand"
    /\ \A s \in ledger \cup {sec[p]} : snap[p][s] # "hand"
KeptInv == NotOurs /\ SnapKeeps

LEMMA KeptStep ==
  ASSUME Typed, Locked, KeptInv, [Next]_vars
  PROVE  KeptInv'
  <1>1. /\ pc \in [Procs -> Stages] /\ sec \in [Procs -> Sections \cup {None}]
        /\ off \in [Procs -> BOOLEAN]
        /\ snap \in [Procs -> [Sections -> Flags]]
        /\ flag \in [Sections -> Flags]
        /\ ledger \subseteq Sections /\ Manual \subseteq Sections
        /\ NotOurs /\ SnapKeeps
        /\ \A p \in Procs : pc[p] # "idle" => sec[p] \in Sections
    BY DEF Typed, TypeOK, Named, Stages, KeptInv, Manual
  <1>2. CASE UNCHANGED <<flag, ledger, pc, sec, snap>>
    BY <1>1, <1>2 DEF KeptInv, NotOurs, SnapKeeps, Holds, Manual
  <1>3. CASE Crash
    BY <1>1, <1>3 DEF Crash, KeptInv, NotOurs, SnapKeeps, Holds, Manual
  \* a call that waits for the mutex has not looked yet
  <1>4. ASSUME NEW p \in Procs, NEW s, NEW o, Call(p, s, o),
               UNCHANGED <<flag, ledger, snap>>
        PROVE  KeptInv'
    BY <1>1, <1>4 DEF Call, KeptInv, NotOurs, SnapKeeps, Holds, Manual
  \* what the user switches off while somebody is at it does not count
  <1>5. ASSUME NEW s \in Sections, SetWifi(s)
        PROVE  KeptInv'
    <2>1. /\ ledger' = ledger /\ UNCHANGED <<pc, sec, snap>>
          /\ Manual' \subseteq Manual \cup {s}
          /\ s \in Manual' => s \notin ledger /\ mutex = None
      BY <1>1, <1>5 DEF SetWifi, Manual
    <2>2. CASE mutex = None
      <3>1. \A p \in Procs : ~Holds(p)
        BY <2>2, NobodyIsNoProc DEF Locked
      <3>2. NotOurs'
        BY <1>1, <2>1 DEF NotOurs
      <3>3. SnapKeeps'
        BY <2>1, <3>1 DEF SnapKeeps, Holds
      <3> QED
        BY <3>2, <3>3 DEF KeptInv
    <2>3. CASE mutex # None
      <3>1. Manual' \subseteq Manual
        BY <2>1, <2>3
      <3> QED
        BY <1>1, <2>1, <3>1 DEF KeptInv, NotOurs, SnapKeeps, Holds
    <2> QED
      BY <2>2, <2>3
  <1>6. CASE User \/ Scheduler
    BY <1>2, <1>4, <1>5, <1>6 DEF User, SetWifiSchedule, DropSchedule, Clock,
       Scheduler, TickBegins, TickLooks, TickTurns, Procs
  \* when the holder of the mutex leaves, nobody has an export any more
  <1>7. ASSUME NEW p \in Procs, Leave(p), mutex \in {p, None},
               ledger' \cap Manual' = {}
        PROVE  KeptInv'
    <2>1. \A q \in Procs : pc'[q] \notin {"apply", "check", "save"}
      BY <1>1, <1>7, NobodyIsNoProc DEF Leave, Locked, Holds
    <2> QED
      BY <1>7, <2>1 DEF KeptInv, NotOurs, SnapKeeps, Holds
  <1>8. ASSUME NEW p \in Procs, Enter(p) \/ SnapshotFails(p)
        PROVE  KeptInv'
    <2>1. mutex = None /\ UNCHANGED <<flag, ledger>> /\ Manual' = Manual
      BY <1>8 DEF Enter, SnapshotFails, Manual
    <2>2. CASE Leave(p)
      BY <1>1, <1>7, <2>1, <2>2 DEF NotOurs
    <2>3. CASE ~Leave(p)
      <3>1. /\ Due(p) /\ pc[p] = "want" /\ pc' = [pc EXCEPT ![p] = "apply"]
            /\ snap' = [snap EXCEPT ![p] = flag] /\ UNCHANGED sec
        BY <1>8, <2>3 DEF Enter, SnapshotFails
      <3>2. \A s \in ledger \cup {sec[p]} : flag[s] # "hand"
        BY <1>1, <3>1 DEF Due, NotOurs, Manual, disabled
      <3>3. \A q \in Procs \ {p} : pc'[q] \notin {"apply", "check", "save"}
        BY <2>1, <3>1, NobodyIsNoProc DEF Locked, Holds
      <3>4. NotOurs' /\ SnapKeeps'
        BY <1>1, <2>1, <3>1, <3>2, <3>3 DEF NotOurs, SnapKeeps, Holds, Manual
      <3> QED
        BY <3>4 DEF KeptInv
    <2> QED
      BY <2>2, <2>3
  \* what the scheduler switches off is not the user's
  <1>9. ASSUME NEW p \in Procs, Apply(p)
        PROVE  KeptInv'
    <2>1. /\ UNCHANGED <<ledger, sec, snap>>
          /\ \A q \in Procs : Holds(q)' <=> Holds(q)
      BY <1>1, <1>9 DEF Apply, Holds
    <2>2. Manual' \subseteq Manual
      BY <1>1, <1>9 DEF Apply, Manual
    <2> QED
      BY <1>1, <2>1, <2>2 DEF KeptInv, NotOurs, SnapKeeps
  <1>10. ASSUME NEW p \in Procs, Up(p)
         PROVE  KeptInv'
    BY <1>1, <1>10 DEF Up, KeptInv, NotOurs, SnapKeeps, Holds, Manual
  <1>11. ASSUME NEW p \in Procs, Holds(p)
         PROVE  mutex = p
    BY <1>11 DEF Locked
  <1>12. ASSUME NEW p \in Procs, ApplyFails(p) \/ NotUp(p)
         PROVE  KeptInv'
    <2>1. Holds(p) /\ Leave(p) /\ flag' = snap[p] /\ ledger' = ledger
      BY <1>12 DEF ApplyFails, NotUp, RollBack, Holds
    <2>2. ledger' \cap Manual' = {}
      BY <1>1, <2>1 DEF SnapKeeps, Manual
    <2> QED
      BY <1>7, <1>11, <2>1, <2>2
  <1>13. ASSUME NEW p \in Procs, Save(p) \/ SaveFails(p)
         PROVE  KeptInv'
    <2>1. /\ Holds(p) /\ Leave(p) /\ Manual' = Manual
          /\ ledger' \subseteq ledger \cup {sec[p]}
      BY <1>13 DEF Save, SaveFails, Holds, Manual
    <2>2. ledger' \cap Manual' = {}
      BY <1>1, <2>1 DEF NotOurs, SnapKeeps
    <2> QED
      BY <1>7, <1>11, <2>1, <2>2
  <1> QED
    BY <1>2, <1>3, <1>6, <1>8, <1>9, <1>10, <1>12, <1>13
    DEF Next, Reconcile, vars

(* "A manual disable is never clobbered", as far as the code keeps it: the *)
(* user edits whatever he likes whenever he likes, commands and probes     *)
(* fail, the process dies and the ledger cannot be written, and an         *)
(* interface that he switched off while the ledger had no entry for it and *)
(* no reconcile was at work is put on the air by no step of a reconcile,   *)
(* neither its apply nor the rollback to its export.                       *)
THEOREM ManualKeptAlways == Spec => ManualKept
  <1>1. ASSUME Init PROVE KeptInv
    BY <1>1 DEF Init, KeptInv, NotOurs, SnapKeeps, Holds, Manual
  <1>2. Typed /\ Locked /\ KeptInv /\ [Next]_vars => KeptInv'
    BY KeptStep
  <1>3. ASSUME Typed, Locked, KeptInv, [Next]_vars, NEW p \in Procs,
               pc[p] \in {"apply", "check"}, pc'[p] # pc[p]
        PROVE  Manual \subseteq disabled'
    <2>1. /\ Manual \subseteq disabled /\ pc \in [Procs -> Stages]
          /\ flag \in [Sections -> Flags] /\ Manual \subseteq Sections
          /\ \A s \in Manual : snap[p][s] = "hand"
          /\ snap[p][sec[p]] # "hand"
      BY <1>3 DEF Typed, TypeOK, Stages, Manual, disabled, KeptInv, SnapKeeps,
                  Holds
    <2>2. CASE flag' = flag
      BY <2>1, <2>2 DEF disabled
    <2>3. ASSUME NEW q \in Procs, Reconcile(q), q # p
          PROVE  FALSE
      <3>1. pc'[p] = pc[p]
        BY <2>1, <2>3 DEF Reconcile, Enter, SnapshotFails, Apply, ApplyFails, Up,
           NotUp, RollBack, Save, SaveFails, Leave
      <3> QED
        BY <1>3, <3>1
    <2>4. CASE Apply(p)
      <3>1. sec[p] \notin Manual
        BY <2>1
      <3> QED
        BY <2>1, <2>4, <3>1 DEF Apply, disabled, Manual
    <2>5. CASE ApplyFails(p) \/ NotUp(p)
      BY <2>1, <2>5 DEF ApplyFails, NotUp, RollBack, disabled
    <2>6. ASSUME NEW s \in Sections, SetWifi(s)
          PROVE  FALSE
      BY <1>3, <2>6 DEF SetWifi
    <2> QED
      BY <1>3, <2>2, <2>3, <2>4, <2>5, <2>6
      DEF Next, User, SetWifiSchedule, DropSchedule, Clock, Scheduler, TickBegins,
          TickLooks, TickTurns, Crash, Reconcile, Enter, SnapshotFails, Up, Save,
          SaveFails, vars
  <1>4. Typed /\ Locked /\ KeptInv /\ [Next]_vars => [Kept(Manual)]_vars
    BY <1>3 DEF Kept
  <1> QED
    BY <1>1, <1>2, <1>4, TypedAlways, LockedAlways, PTL DEF Spec, ManualKept
=============================================================================
