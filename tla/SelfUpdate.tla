----------------------------- MODULE SelfUpdate -----------------------------
(***************************************************************************)
(* The update of the panel by itself: internal/modules/selfupdate.go, the  *)
(* three that start it (the dialog of the panel, the scheduler of          *)
(* selfupdate_schedule.go, the upgrade event of a NetPulse server) and the *)
(* dialog that follows it.  A start tests the phase under a lock, may ask  *)
(* GitHub, and sends a goroutine on its way that sets the phase later; the *)
(* goroutines share the downloaded file, the rescue copy and the binary.   *)
(***************************************************************************)
EXTENDS Naturals

CONSTANTS
  MaxStarts,    \* how many starts there are
  By,           \* who may start: "panel", "schedule", "netpulse"
  MaxCuts       \* how often the service restarts or the power is cut

ASSUME StartsAreCounted == MaxStarts \in Nat
ASSUME ByIsKnown == By \subseteq {"panel", "schedule", "netpulse"}

Starts == 1 .. MaxStarts

VARIABLES
  phase,     \* updateStatus.Phase
  known,     \* updateCheck says that an update is available
  run,       \* the starts: where each is, and who asked
  hook,      \* the start whose trigger armed the outcome hook, or 0
  told,      \* what each NetPulse trigger was told
  tmp,       \* the file at tmpPath: the start that created it, or 0
  file,      \* what the file a start created holds
  cutter,    \* the start that last emptied that file
  bin,       \* the binary on flash: what it is, and who writes it
  prev,      \* the rescue copy
  running,   \* the version that runs, or "dead"
  dialog,    \* the dialog, and the start it follows
  cuts,      \* restarts that are not the updater's
  past       \* what has happened (history)

core == <<phase, known, hook, told>>
files == <<tmp, file, cutter, bin, prev>>
vars == <<core, files, run, running, dialog, cuts, past>>

Idle == {"none", "refused", "failed", "gone"}
Steps == {"look", "start", "recheck", "go"}
Works == {"spawned", "fetch", "write", "verify", "rescue", "space", "unlink",
          "open", "copy", "finish", "restart"}
Working == {p \in Starts : run[p].at \in Works}
Whole == {"old", "new"}
Busy == {"downloading", "installing"}
NoRun == [at |-> "none", by |-> "none", ino |-> 0, cut |-> FALSE]

TypeOK ==
  /\ phase \in Busy \union {"idle", "restarting", "error"}
  /\ known \in BOOLEAN /\ hook \in Starts \union {0}
  /\ told \in [Starts -> {"nothing", "ok", "failed"}]
  /\ run \in [Starts -> [at : Idle \union Steps \union Works,
                         by : By \union {"none"}, ino : Starts \union {0},
                         cut : BOOLEAN]]
  /\ tmp \in Starts \union {0} /\ file \in [Starts -> {"part", "whole"}]
  /\ cutter \in [Starts -> Starts \union {0}]
  /\ bin \in [what : Whole \union {"none", "part"}, by : Starts \union {0}]
  /\ prev \in Whole \union {"none", "part"}
  /\ running \in Whole \union {"dead"}
  /\ dialog \in {"closed", "asking", "watch", "wait", "done", "failed", "reloaded"}
  /\ past \in [overlap : BOOLEAN, norescue : BOOLEAN, cut : BOOLEAN]
  \* only a NetPulse trigger arms the hook
  /\ hook # 0 => run[hook].by = "netpulse"

Init ==
  /\ phase = "idle" /\ known \in BOOLEAN /\ hook = 0
  /\ told = [p \in Starts |-> "nothing"] /\ run = [p \in Starts |-> NoRun]
  /\ tmp = 0 /\ file = [p \in Starts |-> "part"]
  /\ cutter = [p \in Starts |-> 0]
  /\ bin = [what |-> "old", by |-> 0] /\ prev = "none" /\ running = "old"
  /\ dialog = "closed" /\ cuts = 0
  /\ past = [overlap |-> FALSE, norescue |-> FALSE, cut |-> FALSE]

-----------------------------------------------------------------------------
Go(p, at) == run' = [run EXCEPT ![p].at = at]

(* Wrong on purpose: every outcome is reported as a success.               *)
reportSuccess(outcome) ==
  /\ told' = IF hook = 0 THEN told ELSE [told EXCEPT ![hook] = "ok"]
  /\ hook' = 0

(* The hook is taken by the first outcome there is, whoever armed it.      *)
reportSelfUpdateOutcome(outcome) ==
  /\ told' = IF hook = 0 THEN told ELSE [told EXCEPT ![hook] = outcome]
  /\ hook' = 0

failUpdate(p) ==
  /\ phase' = "error" /\ reportSelfUpdateOutcome("failed") /\ Go(p, "failed")
  /\ UNCHANGED <<known, running, dialog, cuts>>
(* Most failures take the downloaded file away, whoever's it is.           *)
failAndRemove(p) ==
  /\ failUpdate(p) /\ tmp' = 0 /\ UNCHANGED <<file, cutter, prev>>

-----------------------------------------------------------------------------
(* Who starts.  The scheduler has one tick at a time, and looks at the     *)
(* phase; the dialog is open for one update at a time.                     *)
Ask(p, by) ==
  /\ run[p].at = "none"
  /\ \A q \in 1 .. p - 1 : run[q].at # "none"
  /\ running # "dead"
  /\ by = "panel" => dialog \in {"closed", "done", "failed"}
  /\ by = "schedule" =>
       /\ phase \notin Busy
       /\ \A q \in Starts : run[q].by = "schedule" => run[q].at \notin Steps
  /\ run' = [run EXCEPT ![p].at = IF by = "panel" THEN "start" ELSE "look",
                        ![p].by = by]
  /\ dialog' = IF by = "panel" THEN "asking" ELSE dialog
  /\ UNCHANGED <<core, files, running, cuts, past>>

(* GitHub answers, or does not, or has nothing newer than what runs.       *)
CheckSelfUpdate(available) ==
  /\ available => running = "old"
  /\ known' \in IF available THEN {TRUE} ELSE {known, FALSE}

refuse(p) ==
  /\ Go(p, "refused")
  /\ dialog' = IF run[p].by = "panel" THEN "failed" ELSE dialog

(* The tick and the upgrade event ask first; the event then arms the hook. *)
Look(p) ==
  /\ run[p].at = "look"
  /\ \/ CheckSelfUpdate(FALSE) /\ refuse(p) /\ UNCHANGED hook
     \/ /\ CheckSelfUpdate(TRUE) /\ Go(p, "start") /\ UNCHANGED dialog
        /\ hook' = IF run[p].by = "netpulse" THEN p ELSE hook
  /\ UNCHANGED <<phase, told, files, running, cuts, past>>

(* Wrong on purpose: a refusal does not consume the hook.                  *)
refuseSilently(p) == refuse(p) /\ UNCHANGED <<hook, told>>

(* A trigger whose update cannot start consumes the hook itself.           *)
refuseStart(p) ==
  /\ refuse(p)
  /\ IF run[p].by = "netpulse" THEN reportSelfUpdateOutcome("failed")
                               ELSE UNCHANGED <<hook, told>>

StartSelfUpdate(p) ==
  /\ run[p].at = "start"
  /\ IF phase \in Busy THEN refuseStart(p)
     ELSE /\ Go(p, IF known THEN "go" ELSE "recheck")
          /\ UNCHANGED <<hook, told, dialog>>
  /\ UNCHANGED <<phase, known, files, running, cuts, past>>
Recheck(p) ==
  /\ run[p].at = "recheck"
  /\ \/ CheckSelfUpdate(FALSE) /\ refuseStart(p)
     \/ /\ CheckSelfUpdate(TRUE) /\ Go(p, "go")
        /\ UNCHANGED <<hook, told, dialog>>
  /\ UNCHANGED <<phase, files, running, cuts, past>>
Spawn(p) ==
  /\ run[p].at = "go" /\ Go(p, "spawned")
  /\ past' = [past EXCEPT !.overlap = @ \/ Working # {}]
  /\ dialog' = IF run[p].by = "panel" THEN "watch" ELSE dialog
  /\ UNCHANGED <<core, files, running, cuts>>

Starting(p) == Look(p) \/ StartSelfUpdate(p) \/ Recheck(p) \/ Spawn(p)

-----------------------------------------------------------------------------
(* runSelfUpdate.                                                          *)
rest == <<known, hook, told, running, dialog, cuts>>

Begin(p) ==
  /\ run[p].at = "spawned" /\ Go(p, "fetch") /\ phase' = "downloading"
  /\ UNCHANGED <<rest, files, past>>

(* os.Create empties the file that is there, also under a copy of it.      *)
Create(p) ==
  LET ino == IF tmp = 0 THEN p ELSE tmp
  IN  /\ run[p].at = "fetch"
      /\ tmp' = ino
      /\ file' = [file EXCEPT ![ino] = "part"]
      /\ cutter' = [cutter EXCEPT ![ino] = p]
      /\ run' = [q \in Starts |->
                   IF q = p THEN [run[p] EXCEPT !.at = "write", !.ino = ino]
                   ELSE [run[q] EXCEPT !.cut = @ \/ run[q].ino = ino]]
      /\ UNCHANGED <<rest, phase, bin, prev, past>>
FetchFails(p) ==
  run[p].at = "fetch" /\ failUpdate(p) /\ UNCHANGED <<files, past>>

(* The last to empty the file fills it; another leaves what it wrote after *)
(* that, which completes the file or does not.                             *)
Write(p) ==
  LET ino == run[p].ino
  IN  /\ run[p].at = "write" /\ Go(p, "verify") /\ phase' = "downloading"
      /\ \E held \in {file[ino], "whole"} :
           /\ cutter[ino] = p => held = "whole"
           /\ file' = [file EXCEPT ![ino] = held]
      /\ UNCHANGED <<rest, tmp, cutter, bin, prev, past>>
WriteFails(p) == run[p].at = "write" /\ failAndRemove(p) /\ UNCHANGED <<bin, past>>

(* Only the header is looked at.                                           *)
elfArchMatches(p) ==
  /\ run[p].at = "verify" /\ tmp # 0
  /\ Go(p, "rescue") /\ phase' = "installing"
  /\ UNCHANGED <<rest, files, past>>
NoMatch(p) ==
  /\ run[p].at = "verify" /\ (tmp # 0 => file[tmp] = "part")
  /\ failAndRemove(p) /\ UNCHANGED <<bin, past>>

(* Wrong on purpose: no rescue copy; an update that goes on though the copy*)
(* failed.                                                                 *)
NoRescue(p) ==
  /\ run[p].at = "rescue" /\ Go(p, "space")
  /\ UNCHANGED <<rest, phase, files, past>>
CopyFailsUnseen(p) ==
  /\ run[p].at = "copy" /\ Go(p, "finish")
  /\ bin' = [bin EXCEPT !.by = 0]
  /\ UNCHANGED <<rest, phase, tmp, file, cutter, prev, past>>

(* installSelfUpdate: the rescue copy, at best; room; the binary removed;  *)
(* the file opened; its copy.                                              *)
Rescue(p) ==
  /\ run[p].at = "rescue" /\ Go(p, "space")
  /\ \/ /\ prev' = IF bin.what = "none" THEN prev ELSE bin.what
        /\ past' = [past EXCEPT !.norescue = @ /\ bin.what = "none"]
     \/ /\ bin.what # "none" /\ prev' = "part"
        /\ past' = [past EXCEPT !.norescue = TRUE]
  /\ UNCHANGED <<rest, phase, tmp, file, cutter, bin>>
Space(p) ==
  /\ run[p].at = "space"
  /\ \/ tmp # 0 /\ Go(p, "unlink") /\ UNCHANGED <<rest, phase, files>>
     \/ failAndRemove(p) /\ UNCHANGED bin
  /\ UNCHANGED past
Unlink(p) ==
  /\ run[p].at = "unlink" /\ Go(p, "open")
  /\ bin' = [what |-> "none", by |-> 0]
  /\ UNCHANGED <<rest, phase, tmp, file, cutter, prev, past>>
Open(p) ==
  /\ run[p].at = "open"
  /\ IF tmp = 0 THEN failAndRemove(p) /\ UNCHANGED bin
     ELSE /\ bin' = [what |-> "part", by |-> p]
          /\ run' = [run EXCEPT ![p].at = "copy", ![p].ino = tmp,
                                ![p].cut = file[tmp] = "part"]
          /\ UNCHANGED <<rest, phase, tmp, file, cutter, prev>>
  /\ UNCHANGED past
Copy(p) ==
  /\ run[p].at = "copy" /\ Go(p, "finish")
  /\ \E what \in IF run[p].cut THEN {"part", "new"} ELSE {"new"} :
       bin' = IF bin.by = p THEN [what |-> what, by |-> 0] ELSE bin
  /\ UNCHANGED <<rest, phase, tmp, file, cutter, prev, past>>
CopyFails(p) ==
  /\ run[p].at = "copy" /\ failAndRemove(p) /\ UNCHANGED past
  /\ bin' = IF bin.by = p THEN [bin EXCEPT !.by = 0] ELSE bin

Finish(p) ==
  /\ run[p].at = "finish"
  /\ IF bin.what = "none" THEN failAndRemove(p) /\ UNCHANGED bin
     ELSE /\ tmp' = 0 /\ phase' = "restarting"
          /\ reportSelfUpdateOutcome("ok") /\ Go(p, "restart")
          /\ UNCHANGED <<known, running, dialog, cuts, file, cutter, bin, prev>>
  /\ UNCHANGED past

-----------------------------------------------------------------------------
(* The service starts again from the binary there is, and remembers none of*)
(* this; a power cut empties /tmp as well.                                 *)
StartAgain ==
  /\ phase' = "idle" /\ known' = FALSE /\ hook' = 0 /\ UNCHANGED told
  /\ running' = IF bin.what \in Whole THEN bin.what ELSE "dead"
  /\ run' = [q \in Starts |-> IF run[q].at \in Idle THEN run[q]
                              ELSE [run[q] EXCEPT !.at = "gone"]]
  /\ bin' = [bin EXCEPT !.by = 0]
  /\ dialog' = IF dialog = "asking" THEN "failed" ELSE dialog
Restart(p) ==
  /\ run[p].at = "restart" /\ StartAgain
  /\ UNCHANGED <<tmp, file, cutter, prev, cuts, past>>
Cut(power) ==
  /\ cuts < MaxCuts /\ cuts' = cuts + 1 /\ running # "dead" /\ StartAgain
  /\ past' = [past EXCEPT !.cut = TRUE, !.norescue = @ \/ power]
  /\ tmp' = IF power THEN 0 ELSE tmp
  /\ prev' = IF power THEN "none" ELSE prev
  /\ UNCHANGED <<file, cutter>>

Work(p) ==
  \/ Begin(p) \/ Create(p) \/ FetchFails(p) \/ Write(p) \/ WriteFails(p)
  \/ elfArchMatches(p) \/ NoMatch(p) \/ Rescue(p) \/ Space(p) \/ Unlink(p)
  \/ Open(p) \/ Copy(p) \/ CopyFails(p) \/ Finish(p) \/ Restart(p)

-----------------------------------------------------------------------------
(* Wrong on purpose: it takes an error for the end, or does not heed it.   *)
PollTakes(error) ==
  /\ dialog = "watch" /\ running # "dead"
  /\ \A p \in Starts : run[p].at # "spawned"
  /\ phase \notin Busy
  /\ dialog' = CASE phase = "restarting" -> "wait"
                 [] phase = "error" -> error
                 [] phase = "idle" -> "done"
  /\ UNCHANGED <<core, files, run, running, cuts, past>>
PollTakesErrorForDone == PollTakes("done")
PollHeedsNoError == PollTakes("watch")

(* The dialog.  It reads the phase every 800 ms, by when a goroutine that  *)
(* was sent on its way has set it, and then waits for an answer of         *)
(* /api/me, which the process that is to be restarted may still give.  When*)
(* the shell draws itself anew the dialog goes back to reading the phase.  *)
Poll ==
  /\ dialog = "watch" /\ running # "dead"
  /\ \A p \in Starts : run[p].at # "spawned"
  /\ phase \notin Busy
  /\ dialog' = CASE phase = "restarting" -> "wait"
                 [] phase = "error" -> "failed"
                 [] phase = "idle" -> "done"
  /\ UNCHANGED <<core, files, run, running, cuts, past>>
Me ==
  /\ dialog = "wait" /\ running # "dead" /\ dialog' = "reloaded"
  /\ UNCHANGED <<core, files, run, running, cuts, past>>
ShellRenders ==
  /\ dialog = "wait" /\ dialog' = "watch"
  /\ UNCHANGED <<core, files, run, running, cuts, past>>

Next ==
  \/ \E p \in Starts :
       \/ \E by \in By : Ask(p, by)
       \/ Starting(p) \/ Work(p)
  \/ \E power \in BOOLEAN : Cut(power)
  \/ Poll \/ Me \/ ShellRenders

Spec == Init /\ [][Next]_vars

(* Downloads time out, and the browser goes on asking; that a dialog that  *)
(* waits is answered in the end needs that the shell is not always drawn   *)
(* anew just then.                                                         *)
FairSpec ==
  /\ Spec /\ WF_vars(Poll) /\ SF_vars(Me)
  /\ \A p \in Starts : WF_vars(Starting(p)) /\ WF_vars(Work(p))

-----------------------------------------------------------------------------
(* A panel that is stopped and started finds a binary that works, unless   *)
(* it was not the updater that stopped it: whatever fails on the way, what *)
(* an update restarts into is whole.  Of two updates at once this is not   *)
(* so: one empties the file that the other copies.                         *)
RestartsWhole == running = "dead" => past.overlap \/ past.cut

(* "It exists so a bad update can be reverted by hand" (the rescue copy):  *)
(* while there is no binary that works there is a copy of one that did,    *)
(* if making it did not fail and no power cut took it.                     *)
RescueKept ==
  bin.what \notin Whole /\ ~past.norescue /\ ~past.overlap => prev \in Whole
(* So it is at least when the binary that works is taken away.             *)
RescueFirst ==
  [][bin.what \in Whole /\ bin'.what \notin Whole /\ ~past.norescue /\ ~past.overlap
       => prev \in Whole]_vars

(* A NetPulse server that is told that the router was updated can rely on  *)
(* the binary being the new one, if its trigger was not one of two at work.*)
ToldTheTruth ==
  [][\A p \in Starts :
       told[p] = "nothing" /\ told'[p] = "ok" /\ ~past.overlap
         => bin.what = "new"]_vars

(* The hook is not left armed: it goes off, a later trigger arms it, or    *)
(* the panel is started again.                                             *)
HookGoesOff == \A p \in Starts : hook = p ~> hook # p

(* The dialog, which cannot be closed while it follows an update, comes to *)
(* an end, unless the panel does not answer any more.                      *)
DialogEnds == dialog = "watch" ~> dialog # "watch" \/ running = "dead"

(* It says that the update is done only when the new version runs; a       *)
(* restart by somebody else looks the same to it.                          *)
DoneIsNew ==
  [][dialog = "watch" /\ dialog' = "done"
       => running = "new" \/ past.cut]_vars
=============================================================================
