-------------------------------- MODULE Panel --------------------------------
(***************************************************************************)
(* One tab of the panel: App.tsx, which shows the login, the first-run     *)
(* wizard (pages/Wizard.tsx and its steps) or the shell (Shell.tsx), and   *)
(* goes back to the login at the first 401 of any call.                    *)
(*                                                                         *)
(* The wizard's screens follow each other by timers of 120 ms that are     *)
(* never cancelled, and a step's save answers when it likes: going holds   *)
(* the timers set, sent the save on its way.  The router is what the saves *)
(* change; the session is the one of this tab's cookie.                    *)
(***************************************************************************)
EXTENDS Naturals, Sequences, SequencesExt

CONSTANTS
  HasMode, HasWifi, HasWireguard,   \* what the hardware offers
  SetupAnswers, PackagesAnswer,     \* the optional requests that worked
  MaxDetours,   \* how often the person does more than go on
  MaxCuts,      \* how often something else ends the session
  MaxFaults     \* how many calls fail

ASSUME SwitchesAreBooleans ==
  {HasMode, HasWifi, HasWireguard, SetupAnswers, PackagesAnswer} \subseteq BOOLEAN

VARIABLES
  session,    \* the cookie is good
  completed,  \* netgrip.wizard.completed
  router,     \* what the wizard's saves have made of the router
  app,        \* the state of App
  shell,      \* the state of Shell's load
  wiz,        \* the state of Wizard
  sent,       \* a step's save
  finishing,  \* the wizardComplete() of finish
  leave,      \* the timer of SecurityCard that logs out
  detours, cuts, faults

backend == <<session, completed, router>>
browser == <<app, shell, wiz, sent, finishing, leave>>
bounds == <<detours, cuts, faults>>
vars == <<backend, browser, bounds>>

Extras == {"guest", "iot", "wireguard"}
NewApp == [asks |-> "me", authed |-> FALSE, wizardDone |-> TRUE, checking |-> TRUE]
NoWizard == [load |-> "none", step |-> "welcome", going |-> <<>>, mode |-> "router",
             known |-> {}, rows |-> {}, undone |-> {}]
NewWizard == [NoWizard EXCEPT !.load = "loading"]
Nothing == [step |-> "none", to |-> "none", value |-> "on",
            here |-> FALSE, heard |-> FALSE]

Init ==
  /\ session \in BOOLEAN /\ completed = FALSE
  /\ \E on \in {{}, {"guest"}} : router = [mode |-> "router", on |-> on]
  /\ app = NewApp /\ shell = "none" /\ wiz = NoWizard
  /\ sent = Nothing /\ finishing = "none" /\ leave = FALSE
  /\ detours = 0 /\ cuts = 0 /\ faults = 0

-----------------------------------------------------------------------------
(* What App renders, and what is mounted and unmounted as that changes: a  *)
(* wizard that comes back starts again, and nobody hears the saves of one  *)
(* that is gone.                                                           *)
InWizard(a) == ~a.checking /\ a.authed /\ ~a.wizardDone
InShell(a) == ~a.checking /\ a.authed /\ a.wizardDone

(* App becomes a, its wizard, if it stays, w, its shell sh, the save s.    *)
Render(a, w, sh, s) ==
  /\ app' = a
  /\ wiz' = CASE ~InWizard(a) -> NoWizard
              [] InWizard(a) /\ InWizard(app) -> w
              [] OTHER -> NewWizard
  /\ shell' = CASE ~InShell(a) -> "none"
                [] InShell(a) /\ InShell(app) -> sh
                [] OTHER -> "loading"
  /\ sent' = IF InWizard(a) /\ InWizard(app) THEN s
             ELSE [s EXCEPT !.heard = FALSE, !.here = FALSE]

Only(a) == Render(a, wiz, shell, sent)
TheWizard(w) == Render(app, w, shell, sent)

(* A call either fails on the way or is answered, with 401 when the        *)
(* session is over: request() then tells App, which shows the login.       *)
Fault == faults < MaxFaults /\ faults' = faults + 1
NoFault == UNCHANGED faults
(* Wrong on purpose: a 401 changes nothing.                               *)
Deaf(a) == a
Unauthorized(a) == [a EXCEPT !.authed = FALSE]

-----------------------------------------------------------------------------
(* checkSession: me(), which decides between the login and the rest, then  *)
(* wizardState(); a failure of the latter counts as a wizard done.         *)
Me ==
  /\ app.asks = "me"
  /\ \/ /\ session /\ NoFault
        /\ Only([app EXCEPT !.authed = TRUE, !.asks = "state"])
     \/ /\ \/ ~session /\ NoFault
           \/ Fault
        /\ Only([app EXCEPT !.checking = FALSE, !.asks = "none"])
  /\ UNCHANGED <<backend, finishing, leave, detours, cuts>>

State ==
  /\ app.asks = "state"
  /\ LET answered == [app EXCEPT !.asks = "none", !.checking = FALSE]
     IN \/ /\ session /\ NoFault
           /\ Only([answered EXCEPT !.wizardDone = completed])
        \/ /\ ~session /\ NoFault
           /\ Only(Unauthorized([answered EXCEPT !.wizardDone = TRUE]))
        \/ /\ Fault
           /\ Only([answered EXCEPT !.wizardDone = TRUE])
  /\ UNCHANGED <<backend, finishing, leave, detours, cuts>>

(* The right password.  The app shows what it last knew, shell or wizard,  *)
(* until wizardState() answers.                                            *)
LogIn ==
  /\ ~app.checking /\ ~app.authed /\ app.asks = "none"
  /\ session' = TRUE
  /\ Only([app EXCEPT !.authed = TRUE, !.asks = "state"])
  /\ UNCHANGED <<completed, router, finishing, leave, bounds>>

(* onLogout: a failure of the call is swallowed and the session lives on.  *)
SignOut ==
  /\ \/ session' = FALSE /\ NoFault
     \/ Fault /\ UNCHANGED session
  /\ Only(Unauthorized(app))
  /\ UNCHANGED <<completed, router, finishing>>

LogOut ==
  /\ InShell(app) /\ detours < MaxDetours
  /\ detours' = detours + 1
  /\ SignOut
  /\ UNCHANGED <<leave, cuts>>

(* SecurityCard: the new password ends every session, and 2.5 s later the  *)
(* card logs out, wherever the tab is by then.                             *)
ChangePassword ==
  /\ InShell(app) /\ session /\ ~leave /\ detours < MaxDetours
  /\ detours' = detours + 1
  /\ session' = FALSE /\ leave' = TRUE
  /\ UNCHANGED <<completed, router, app, shell, wiz, sent, finishing, cuts, faults>>

LeaveLater ==
  /\ leave /\ leave' = FALSE
  /\ SignOut
  /\ UNCHANGED <<detours, cuts>>

(* F5.  What was asked is still done; nobody waits for it.                 *)
Reloaded ==
  /\ app' = NewApp /\ shell' = "none" /\ wiz' = NoWizard
  /\ sent' = [sent EXCEPT !.heard = FALSE, !.here = FALSE]
  /\ finishing' = IF finishing = "none" THEN "none" ELSE "unheard"
  /\ leave' = FALSE

Reload ==
  /\ detours < MaxDetours /\ detours' = detours + 1
  /\ Reloaded
  /\ UNCHANGED <<backend, cuts, faults>>

(* WizardRelaunchCard: wizardReset(), then a reload.                       *)
Relaunch ==
  /\ InShell(app) /\ session /\ detours < MaxDetours
  /\ detours' = detours + 1
  /\ completed' = FALSE
  /\ Reloaded
  /\ UNCHANGED <<session, router, cuts, faults>>

(* Another browser changes the password, or the session grows too old.     *)
Cut ==
  /\ session /\ cuts < MaxCuts
  /\ session' = FALSE /\ cuts' = cuts + 1
  /\ UNCHANGED <<completed, router, browser, detours, faults>>

-----------------------------------------------------------------------------
(* The shell's load, with its automatic retry, and any call a page makes.  *)
Load ==
  /\ shell = "loading"
  /\ \/ session /\ NoFault /\ Render(app, wiz, "shown", sent)
     \/ ~session /\ NoFault /\ Render(Unauthorized(app), wiz, "failed", sent)
     \/ Fault /\ Render(app, wiz, "failed", sent)
  /\ UNCHANGED <<backend, finishing, leave, detours, cuts>>

RetryLoad ==
  /\ shell = "failed"
  /\ Render(app, wiz, "loading", sent)
  /\ UNCHANGED <<backend, finishing, leave, bounds>>

PageCall ==
  /\ shell = "shown" /\ ~session
  /\ Only(Unauthorized(app))
  /\ UNCHANGED <<backend, finishing, leave, bounds>>

-----------------------------------------------------------------------------
(* The wizard.                                                             *)
AllSteps == <<"welcome", "setup", "mode", "password", "wifi", "guest", "iot",
              "wireguard", "packages", "done">>

(* steps: the screens this router has a use for, in either mode.           *)
Offered(step, mode) ==
  /\ step = "mode" => HasMode
  /\ step = "wifi" => HasWifi
  /\ step \in {"guest", "iot"} => mode = "router"
  /\ step = "wireguard" => HasWireguard
  /\ step = "packages" => PackagesAnswer
(* Wrong on purpose: every step is offered in every mode.                 *)
AllOffered == [mode \in {"router", "ap"} |-> AllSteps]
StepsIn == [mode \in {"router", "ap"} |->
              SelectSeq(AllSteps, LAMBDA step : Offered(step, mode))]
PlaceIn == [mode \in {"router", "ap"} |->
              [step \in ToSet(AllSteps) |->
                 SelectInSeq(StepsIn[mode], LAMBDA s : s = step)]]
Steps == StepsIn[wiz.mode]
Place(step) == PlaceIn[wiz.mode][step]

(* next: a screen that is no longer offered has place 0, and ends it.      *)
After(step) ==
  IF Place(step) \in 1 .. Len(Steps) - 1 THEN Steps[Place(step) + 1] ELSE "finish"

(* renderStep draws nothing for a step whose probe is missing.             *)
Blank(step) ==
  \/ step = "setup" /\ ~SetupAnswers
  \/ step = "packages" /\ ~PackagesAnswer
Busy == sent.here
Usable == wiz.load = "yes" /\ ~Blank(wiz.step) /\ ~Busy

WizardLoad ==
  /\ wiz.load = "loading"
  /\ \/ /\ session /\ NoFault
        /\ TheWizard([wiz EXCEPT !.load = "yes", !.mode = router.mode,
                                 !.known = router.on])
     \/ /\ ~session /\ NoFault
        /\ Render(Unauthorized(app), [wiz EXCEPT !.load = "failed"], shell, sent)
     \/ Fault /\ TheWizard([wiz EXCEPT !.load = "failed"])
  /\ UNCHANGED <<backend, finishing, leave, detours, cuts>>

RetryWizardLoad ==
  /\ wiz.load = "failed"
  /\ TheWizard([wiz EXCEPT !.load = "loading"])
  /\ UNCHANGED <<backend, finishing, leave, bounds>>

(* go: a timer, or finish, where there is no screen to go to.              *)
Go(w, to) == IF to = "finish" THEN w ELSE [w EXCEPT !.going = Append(@, to)]
FinishIf(to) == finishing' = IF to = "finish" /\ finishing = "none" THEN "heard" ELSE finishing

(* Start, Skip, or Continue with nothing to change; at the end, Finish.    *)
GoOn ==
  /\ Usable /\ Len(wiz.going) < 2
  /\ After(wiz.step) = "finish" => finishing = "none"
  /\ TheWizard(Go(wiz, After(wiz.step)))
  /\ FinishIf(After(wiz.step))
  /\ UNCHANGED <<backend, leave, bounds>>

(* Straight to the panel, from the first screen.                           *)
SkipAll ==
  /\ Usable /\ wiz.step = "welcome" /\ finishing = "none"
  /\ finishing' = "heard"
  /\ UNCHANGED <<backend, app, shell, wiz, sent, leave, bounds>>

GoBack ==
  /\ Usable /\ wiz.step \notin {"welcome", "done"} /\ Place(wiz.step) > 1
  /\ Len(wiz.going) < 2 /\ detours < MaxDetours
  /\ detours' = detours + 1
  /\ TheWizard(Go(wiz, Steps[Place(wiz.step) - 1]))
  /\ UNCHANGED <<backend, finishing, leave, cuts, faults>>

(* The timer: the other screen is mounted afresh.                          *)
Arrive ==
  /\ wiz.going # <<>>
  /\ LET to == Head(wiz.going)
     IN Render(app, [wiz EXCEPT !.step = to, !.going = Tail(@)], shell,
               [sent EXCEPT !.here = sent.here /\ to = wiz.step])
  /\ UNCHANGED <<backend, finishing, leave, bounds>>

(* What save of each step may send, if it sends anything: a mode that is   *)
(* not the present one, an extra network on, or off if it was on,          *)
(* WireGuard on, and never off.                                            *)
ModeStep == {"router", "ap"} \ {wiz.mode}
ExtraNetStep(net) == {"on"} \union {v \in {"off"} : net \in wiz.known}
WireguardStep == {v \in {"on"} : "wireguard" \notin wiz.known}
FormStep == {"on"}  \* the packages, the password, the main Wi-Fi
Values(step) ==
  CASE step = "mode" -> ModeStep
    [] step \in {"guest", "iot"} -> ExtraNetStep(step)
    [] step = "wireguard" -> WireguardStep
    [] step \in {"setup", "password", "wifi", "packages"} -> FormStep
    [] OTHER -> {}

Save ==
  /\ Usable /\ sent = Nothing /\ detours < MaxDetours
  /\ detours' = detours + 1
  /\ \E v \in Values(wiz.step) :
       Render(app, [wiz EXCEPT !.undone = @ \union {s \in {wiz.step} : v = "off"}],
              shell, [step |-> wiz.step, to |-> After(wiz.step), value |-> v,
                      here |-> TRUE, heard |-> TRUE])
  /\ UNCHANGED <<backend, finishing, leave, cuts, faults>>

(* What the save does to the router, and to what the wizard knows.         *)
Applied(r) ==
  CASE sent.step = "mode" -> [r EXCEPT !.mode = sent.value]
    [] sent.step \in Extras /\ sent.value = "on" -> [r EXCEPT !.on = @ \union {sent.step}]
    [] sent.step \in Extras /\ sent.value = "off" -> [r EXCEPT !.on = @ \ {sent.step}]
    [] OTHER -> r

(* The record the last screen reads out: a network switched off adds no    *)
(* row and takes none away.                                                *)
Row == CASE sent.step = "mode" -> {sent.value}
         [] sent.step = "setup" \/ sent.value = "off" -> {}
         [] OTHER -> {sent.step}
Changes == IF sent.step = "mode" THEN {"router", "ap"} ELSE {sent.step}
Recorded ==
  LET now == Applied(router)
      kept == IF sent.step = "mode" THEN wiz.rows \ {"router", "ap"} ELSE wiz.rows
  IN [wiz EXCEPT !.mode = IF sent.step = "mode" THEN now.mode ELSE @,
                 !.known = IF sent.step \in Extras
                           THEN (@ \ {sent.step}) \union (now.on \cap {sent.step}) ELSE @,
                 !.rows = kept \union Row]

(* Applied, then on to the next screen; anything else stays here.  The     *)
(* password takes the session with it.                                     *)
Saved ==
  /\ session /\ NoFault
  /\ router' = Applied(router)
  /\ session' = (sent.step # "password")
  /\ IF sent.heard
     THEN Render(app, Go(Recorded, sent.to), shell, Nothing) /\ FinishIf(sent.to)
     ELSE Render(app, wiz, shell, Nothing) /\ UNCHANGED finishing

(* Applied, but the answer is lost: the step says it failed.               *)
Lost ==
  /\ session /\ Fault
  /\ router' = Applied(router)
  /\ session' = (sent.step # "password")
  /\ Render(app, [wiz EXCEPT !.undone = @ \union {s \in Changes : sent.heard}],
            shell, Nothing)
  /\ UNCHANGED finishing

(* Wrong on purpose: a refused step is recorded as done.                  *)
RecordedAnyway ==
  /\ NoFault /\ Render(app, Go(Recorded, sent.to), shell, Nothing) /\ FinishIf(sent.to)
  /\ UNCHANGED <<session, router>>
Refused ==
  /\ NoFault /\ Render(app, wiz, shell, Nothing)
  /\ UNCHANGED <<session, router, finishing>>

Answer ==
  /\ sent # Nothing
  /\ \/ Saved \/ Lost
     \/ session /\ Refused
     \/ /\ ~session /\ NoFault
        /\ Render(Unauthorized(app), wiz, shell, Nothing)
        /\ UNCHANGED <<session, router, finishing>>
  /\ UNCHANGED <<completed, leave, detours, cuts>>

(* finish: onDone() follows whatever wizardComplete() answered.            *)
Finished ==
  /\ finishing # "none" /\ finishing' = "none"
  /\ LET done == IF finishing = "heard" THEN [app EXCEPT !.wizardDone = TRUE] ELSE app
     IN \/ session /\ NoFault /\ completed' = TRUE /\ Only(done)
        \/ ~session /\ NoFault /\ UNCHANGED completed
           /\ Only(IF finishing = "heard" THEN Unauthorized(done) ELSE done)
        \/ Fault /\ completed' \in {completed, completed \/ session} /\ Only(done)
  /\ UNCHANGED <<session, router, leave, detours, cuts>>

-----------------------------------------------------------------------------
Answers == Me \/ State \/ Load \/ WizardLoad \/ Answer \/ Finished
Timers == RetryLoad \/ Arrive \/ LeaveLater
Person == LogIn \/ LogOut \/ ChangePassword \/ Reload \/ Relaunch \/ GoOn
          \/ SkipAll \/ GoBack \/ Save \/ RetryWizardLoad

Next == Answers \/ Timers \/ Person \/ PageCall \/ Cut

Spec == Init /\ [][Next]_vars

(* Every call is answered or fails, every timer goes off, and the person   *)
(* presses the button on the screen: Start, Skip, Continue, Finish, Retry. *)
FairSpec ==
  /\ Spec
  /\ WF_vars(Me) /\ WF_vars(State) /\ WF_vars(Load) /\ WF_vars(WizardLoad)
  /\ WF_vars(Answer) /\ WF_vars(Finished)
  /\ WF_vars(RetryLoad) /\ WF_vars(Arrive) /\ WF_vars(LeaveLater)
  /\ WF_vars(RetryWizardLoad) /\ WF_vars(GoOn)

-----------------------------------------------------------------------------
(* en.ts 2410: "You can skip any step": whoever just goes on gets out of   *)
(* the wizard, whatever was saved, refused or overtaken on the way.        *)
WizardEnds == InWizard(app) ~> ~InWizard(app)

(* App.tsx 41-43: a call made with a dead session takes the app to the     *)
(* login; no page loads, or tries again, for ever.                         *)
Waiting ==
  \/ app.asks = "state" \/ shell \in {"loading", "failed"}
  \/ wiz.load \in {"loading", "failed"} \/ sent.heard \/ finishing = "heard"
DeadSessionShows == (app.authed /\ ~session /\ Waiting) ~> ~(app.authed /\ Waiting)

(* en.ts "Here's what's now set up:": what the last screen of the wizard   *)
(* reads out is so on the router, but for what was switched off again,     *)
(* whose row stays, and what was changed by a save whose answer was lost.  *)
Holds(row) ==
  CASE row \in {"router", "ap"} -> router.mode = row
    [] row \in Extras -> row \in router.on
    [] OTHER -> TRUE
SummaryHolds == wiz.step = "done" => \A row \in wiz.rows \ wiz.undone : Holds(row)
=============================================================================
