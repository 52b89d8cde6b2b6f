---------------------------- MODULE WifiSchedule ----------------------------
(***************************************************************************)
(* wifischedule.go: the scheduler that takes Wi-Fi interfaces off the air  *)
(* in a weekly window, the handler that stores a schedule and applies it   *)
(* at once, and the ledger file by which the scheduler knows the           *)
(* interfaces it switched off itself.  The Wi-Fi editor (SetWifi) writes   *)
(* the same disabled flags and does not know of either.                    *)
(*                                                                         *)
(* The clock is whether now is inside the window of a schedule; a schedule *)
(* is paused, or enabled, or absent.                                       *)
(***************************************************************************)
EXTENDS Naturals

CONSTANTS
  Sections,    \* the wifi-iface sections
  None,        \* nobody holds the mutex, no section
  MaxEdits,    \* bound: what the user does
  MaxMishaps   \* bound: failed commands and probes, crashes, and failed
               \* writes of the ledger

ASSUME ScheduleAssumption ==
  /\ None \notin Sections
  /\ MaxEdits \in Nat /\ MaxMishaps \in Nat

Procs == {"tick", "set"}
ASSUME NobodyIsNoProc == None \notin Procs

VARIABLES
  flag,        \* flag[s]: wireless.<s>.disabled, "on" if it is not 1, and as
               \* history whose the 1 is: see SetWifi and Apply
  sched,       \* sched[s]: "none", "enabled" or "paused"
  window,      \* the sections whose window now is in
  ledger,      \* /etc/netgrip/wifischedule-applied.json
  mutex,       \* who holds wifiSchedMu
  pc,          \* pc[p]: where p is in reconcileWifiSchedule
  sec,         \* sec[p]: its argument section
  off,         \* off[p]: its argument off
  snap,        \* snap[p]: the flags of its export of wireless
  phase,       \* where wifiSchedTick is
  todo,        \* the sections it has yet to look at
  now,         \* the window it goes by: the clock when the tick began
  edits, faults, losses

tick == <<phase, todo, now>>
bounds == <<edits, faults, losses>>
vars == <<flag, sched, window, ledger, mutex, pc, sec, off, snap,
          phase, todo, now, edits, faults, losses>>

Flags == {"on", "sched", "hand", "late"}
disabled == {s \in Sections : flag[s] # "on"}

TypeOK ==
  /\ flag \in [Sections -> Flags]
  /\ sched \in [Sections -> {"none", "enabled", "paused"}]
  /\ window \subseteq Sections /\ ledger \subseteq Sections
  /\ mutex \in Procs \cup {None}
  /\ pc \in [Procs -> {"idle", "want", "apply", "check", "save"}]
  /\ sec \in [Procs -> Sections \cup {None}]
  /\ off \in [Procs -> BOOLEAN]
  /\ snap \in [Procs -> [Sections -> Flags]]
  /\ phase \in {"rest", "rules", "heal"} /\ todo \subseteq Sections
  /\ now \subseteq Sections
  /\ edits \in 0..MaxEdits
  /\ faults \in 0..MaxMishaps /\ losses \in 0..MaxMishaps

(* wifiScheduleOffAt: a pause wins over the window.  A schedule that is    *)
(* not enabled is one whose window is never open.                          *)
OffAt(s, open) == sched[s] = "paused" \/ (sched[s] = "enabled" /\ s \in open)
Off(s) == OffAt(s, window)

NoSnap == [s \in Sections |-> "on"]

Init ==
  /\ flag \in [Sections -> {"on", "hand"}]
  /\ sched = [s \in Sections |-> "none"]
  /\ window \in SUBSET Sections /\ ledger = {}
  /\ mutex = None
  /\ pc = [p \in Procs |-> "idle"]
  /\ sec = [p \in Procs |-> None]
  /\ off = [p \in Procs |-> FALSE]
  /\ snap = [p \in Procs |-> NoSnap]
  /\ phase = "rest" /\ todo = {} /\ now = {}
  /\ edits = 0 /\ faults = 0 /\ losses = 0
-----------------------------------------------------------------------------
(* reconcileWifiSchedule(s, o) is called and waits for wifiSchedMu.        *)
Call(p, s, o) ==
  /\ pc[p] = "idle"
  /\ pc' = [pc EXCEPT ![p] = "want"]
  /\ sec' = [sec EXCEPT ![p] = s]
  /\ off' = [off EXCEPT ![p] = o]

Leave(p) ==
  /\ pc' = [pc EXCEPT ![p] = "idle"]
  /\ sec' = [sec EXCEPT ![p] = None]
  /\ off' = [off EXCEPT ![p] = FALSE]
  /\ snap' = [snap EXCEPT ![p] = NoSnap]
  /\ mutex' = None

(* The test that forgets the ledger, and the one that asks it both ways.   *)
DueUnowned(p) ==
  IF off[p] THEN sec[p] \notin disabled ELSE sec[p] \in disabled
DueOwned(p) ==
  IF off[p] THEN sec[p] \notin disabled /\ sec[p] \in ledger
            ELSE sec[p] \in disabled /\ sec[p] \in ledger

(* There is a transition to make, and it is ours to make.                  *)
Due(p) ==
  IF off[p] THEN sec[p] \notin disabled
            ELSE sec[p] \in disabled /\ sec[p] \in ledger

Enter(p) ==
  /\ pc[p] = "want" /\ mutex = None
  /\ IF Due(p)
       THEN /\ mutex' = p
            /\ pc' = [pc EXCEPT ![p] = "apply"]
            /\ snap' = [snap EXCEPT ![p] = flag]
            /\ UNCHANGED <<sec, off>>
       ELSE Leave(p)
  /\ UNCHANGED <<flag, sched, window, ledger, tick, bounds>>

MishapLeft == faults + losses < MaxMishaps
Fails == MishapLeft /\ faults' = faults + 1

SnapshotFails(p) ==
  /\ pc[p] = "want" /\ mutex = None /\ Due(p)
  /\ Fails
  /\ Leave(p)
  /\ UNCHANGED <<flag, sched, window, ledger, tick, edits, losses>>

(* wifiScheduleOps: the flag, the commit and the radio.  An interface that *)
(* is off by now stays with whoever switched it off.                       *)
Apply(p) ==
  /\ pc[p] = "apply"
  /\ flag' = [flag EXCEPT ![sec[p]] = IF ~off[p] THEN "on"
                                      ELSE IF @ = "on" THEN "sched" ELSE @]
  /\ pc' = [pc EXCEPT ![p] = IF off[p] THEN "save" ELSE "check"]
  /\ UNCHANGED <<sched, window, ledger, mutex, sec, off, snap, tick, bounds>>

(* executor.Restore of the whole package: every flag is what it was when   *)
(* the export was made, and whose it was.                                  *)
RollBack(p) ==
  /\ flag' = snap[p]
  /\ Leave(p)

ApplyFails(p) ==
  /\ pc[p] = "apply"
  /\ Fails
  /\ RollBack(p)
  /\ UNCHANGED <<sched, window, ledger, tick, edits, losses>>

(* waitIfaceUp, of an interface that is to be on the air again.            *)
Up(p) ==
  /\ pc[p] = "check" /\ sec[p] \notin disabled
  /\ pc' = [pc EXCEPT ![p] = "save"]
  /\ UNCHANGED <<flag, sched, window, ledger, mutex, sec, off,
                 snap, tick, bounds>>

NotUp(p) ==
  /\ pc[p] = "check"
  /\ \/ Fails
     \/ sec[p] \in disabled /\ faults' = faults
  /\ RollBack(p)
  /\ UNCHANGED <<sched, window, ledger, tick, edits, losses>>

(* The entry is not made when the interface goes off.                      *)
SaveNothing(p) ==
  /\ pc[p] = "save"
  /\ ledger' = ledger \ {sec[p]}
  /\ Leave(p)
  /\ UNCHANGED <<flag, sched, window, tick, bounds>>

(* saveWifiSchedLedger, with the entry made or dropped.                    *)
Save(p) ==
  /\ pc[p] = "save"
  /\ ledger' = IF off[p] THEN ledger \cup {sec[p]} ELSE ledger \ {sec[p]}
  /\ Leave(p)
  /\ UNCHANGED <<flag, sched, window, tick, bounds>>

Loses == MishapLeft /\ losses' = losses + 1

(* The file cannot be written, and the error is dropped.                   *)
SaveFails(p) ==
  /\ pc[p] = "save"
  /\ Loses
  /\ Leave(p)
  /\ UNCHANGED <<flag, sched, window, ledger, tick, edits, faults>>

(* The process dies, and procd starts it again.                            *)
Crash ==
  /\ Loses
  /\ mutex' = None
  /\ pc' = [p \in Procs |-> "idle"]
  /\ sec' = [p \in Procs |-> None]
  /\ off' = [p \in Procs |-> FALSE]
  /\ snap' = [p \in Procs |-> NoSnap]
  /\ phase' = "rest" /\ todo' = {} /\ now' = {}
  /\ UNCHANGED <<flag, sched, window, ledger, edits, faults>>
-----------------------------------------------------------------------------
(* wifiSchedTick: every 30 seconds, every section; then those that are in  *)
(* the ledger and have no schedule any more.                               *)
TickBegins ==
  /\ phase = "rest"
  /\ phase' = "rules" /\ todo' = Sections /\ now' = window
  /\ UNCHANGED <<flag, sched, window, ledger, mutex, pc, sec, off,
                 snap, bounds>>

(* The schedule is loaded and the window compared before the mutex is      *)
(* asked for; the time is that of the start of the tick.                   *)
TickLooks ==
  /\ phase \in {"rules", "heal"} /\ pc["tick"] = "idle"
  /\ \E s \in todo :
       /\ todo' = todo \ {s}
       /\ IF (phase = "rules") = (sched[s] # "none")
            THEN Call("tick", s, phase = "rules" /\ OffAt(s, now))
            ELSE UNCHANGED <<pc, sec, off>>
  /\ UNCHANGED <<flag, sched, window, ledger, mutex, snap, phase,
                 now, bounds>>

TickTurns ==
  /\ todo = {} /\ pc["tick"] = "idle"
  /\ \/ phase = "rules" /\ phase' = "heal" /\ todo' = ledger
     \/ phase = "heal" /\ phase' = "rest" /\ todo' = {}
  /\ now' = {}
  /\ UNCHANGED <<flag, sched, window, ledger, mutex, pc, sec, off,
                 snap, bounds>>

Reconcile(p) ==
  \/ Enter(p) \/ SnapshotFails(p) \/ Apply(p) \/ ApplyFails(p) \/ Up(p)
  \/ NotUp(p) \/ Save(p) \/ SaveFails(p)
-----------------------------------------------------------------------------
Edits == edits < MaxEdits /\ edits' = edits + 1

(* SetWifiSchedule stores the schedule and applies it.                     *)
SetWifiSchedule(s, x) ==
  /\ Edits
  /\ sched' = [sched EXCEPT ![s] = x]
  /\ Call("set", s, x = "paused" \/ s \in window)
  /\ UNCHANGED <<flag, window, ledger, mutex, snap, tick, faults,
                 losses>>

(* A schedule is deleted from UCI by other means.                          *)
DropSchedule(s) ==
  /\ Edits
  /\ sched' = [sched EXCEPT ![s] = "none"]
  /\ UNCHANGED <<flag, window, ledger, mutex, pc, sec, off, snap,
                 tick, faults, losses>>

(* SetWifi with the disabled flag: the user switches an interface, at any  *)
(* time.  Neither the ledger nor the mutex is asked.  What he switches off *)
(* is "hand" if the ledger has no entry for it and nobody is between an    *)
(* export and the save of the ledger, and "late" otherwise.                *)
SetWifi(s) ==
  /\ Edits
  /\ flag' = [flag EXCEPT ![s] = IF @ # "on" THEN "on"
                                 ELSE IF s \in ledger \/ mutex # None
                                 THEN "late" ELSE "hand"]
  /\ UNCHANGED <<sched, window, ledger, mutex, pc, sec, off, snap, tick,
                 faults, losses>>

Clock(s) ==
  /\ window' = IF s \in window THEN window \ {s} ELSE window \cup {s}
  /\ UNCHANGED <<flag, sched, ledger, mutex, pc, sec, off, snap,
                 tick, bounds>>

User ==
  \E s \in Sections :
    \/ \E x \in {"enabled", "paused"} : SetWifiSchedule(s, x)
    \/ DropSchedule(s) \/ SetWifi(s) \/ Clock(s)

Scheduler == TickBegins \/ TickLooks \/ TickTurns

Next == User \/ Scheduler \/ (\E p \in Procs : Reconcile(p)) \/ Crash

Spec == Init /\ [][Next]_vars

(* The loop of StartWifiScheduleScheduler goes on for ever, and what the   *)
(* kernel and the mutex are asked for comes.                               *)
FairSpec ==
  /\ Spec
  /\ WF_vars(Scheduler)
  /\ \A p \in Procs :
       /\ SF_vars(Enter(p))
       /\ WF_vars(Apply(p) \/ Up(p) \/ NotUp(p) \/ Save(p))
-----------------------------------------------------------------------------
(* wifischedule.go 269-272: "the ledger makes the scheduler re-enable only *)
(* interfaces it disabled itself, so a manual disable from the WiFi editor *)
(* is never clobbered".  An interface that the user switched off while the *)
(* ledger had no entry for it and no reconcile was at work stays off,      *)
(* whatever he does with the others, and whenever: no apply and no         *)
(* rollback to an earlier export puts it on the air.                       *)
Manual == {s \in Sections : flag[s] = "hand"}
Kept(S) ==
  \A p \in Procs : pc[p] \in {"apply", "check"} /\ pc'[p] # pc[p] =>
    S \subseteq disabled'
ManualKept == [][Kept(Manual)]_vars

(* The sentence as it stands, of every manual disable.  The code does not  *)
(* keep it: an entry of the ledger outlives the interface being switched   *)
(* on by hand and passes the next manual disable off as the scheduler's,   *)
(* and a rollback undoes an edit made since its export (MCSchedByHand.cfg).*)
NeverClobbered ==
  [][Kept({s \in Sections : flag[s] \in {"hand", "late"}})]_vars

(* An interface the scheduler switched off comes back once its schedule    *)
(* asks for it, or once it has no schedule at all (the self-heal of the    *)
(* tick), unless the user takes it over.                                   *)
ComesBack ==
  \A s \in Sections :
    flag[s] = "sched" /\ ~Off(s) ~> flag[s] # "sched" \/ Off(s)

(* The same where every write of the ledger gets to the file before the    *)
(* process can die: what is left is failed commands, probes and rollbacks. *)
ComesBackUnlessLost ==
  \A s \in Sections :
    flag[s] = "sched" /\ ~Off(s)
      ~> flag[s] # "sched" \/ Off(s) \/ losses > 0

(* An interface goes off once its schedule says so.                        *)
GoesOff == \A s \in Sections : Off(s) ~> s \in disabled \/ ~Off(s)
=============================================================================
