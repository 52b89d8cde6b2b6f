----------------------------- MODULE PanelProofs -----------------------------
(***************************************************************************)
(* What Panel promises for any hardware and any number of detours, lost    *)
(* sessions and failed calls: the last screen of the wizard reads out what *)
(* is so on the router.  The screens and their order are left out of it:   *)
(* what follows holds wherever the wizard goes next.                       *)
(***************************************************************************)
EXTENDS Panel, TLAPS

WizFields == {"load", "step", "going", "mode", "known", "rows", "undone"}
SentFields == {"step", "to", "value", "here", "heard"}
SaveSteps == {"mode", "guest", "iot", "wireguard", "setup", "password", "wifi",
              "packages"}

(* The records keep their fields, and a save is one a step can send.       *)
Shapes ==
  /\ DOMAIN wiz = WizFields /\ DOMAIN sent = SentFields
  /\ DOMAIN router = {"mode", "on"}
  /\ sent.step \in SaveSteps \union {"none"}
  /\ sent.step = "mode" => sent.value \in {"router", "ap"}
  /\ sent.step \in Extras => sent.value \in {"on", "off"}

(* What the wizard would read out is so at any time, not only at the end.  *)
RowsHold == \A row \in wiz.rows \ wiz.undone : Holds(row)

(* A save that nobody waits for any more is one of an earlier wizard: the  *)
(* present one cannot save before it is answered, and has no rows.         *)
Unheard == sent.step = "none" \/ sent.heard \/ wiz.rows = {}

(* While a network is being switched off the wizard knows it.              *)
OffIsKnown ==
  sent.heard /\ sent.value = "off" => sent.step \in wiz.undone

SummaryInv == Shapes /\ RowsHold /\ Unheard /\ OffIsKnown

(* A render keeps the wizard it is given and the save with it, or mounts   *)
(* one without rows that does not hear the save.                           *)
LEMMA RenderCases ==
  ASSUME NEW a, NEW w, NEW sh, NEW s, Render(a, w, sh, s),
         DOMAIN s = SentFields
  PROVE  \/ wiz' = w /\ sent' = s
         \/ /\ DOMAIN wiz' = WizFields /\ wiz'.rows = {}
            /\ DOMAIN sent' = SentFields /\ sent'.heard = FALSE
            /\ sent'.step = s.step /\ sent'.value = s.value
  <1>1. CASE InWizard(a) /\ InWizard(app)
    BY <1>1 DEF Render
  <1>2. CASE ~(InWizard(a) /\ InWizard(app))
    <2>1. wiz' = NoWizard \/ wiz' = NewWizard
      BY <1>2 DEF Render
    <2>2. \A z \in {NoWizard, NewWizard} : DOMAIN z = WizFields /\ z.rows = {}
      BY DEF NoWizard, NewWizard, WizFields
    <2>3. sent' = [s EXCEPT !.heard = FALSE, !.here = FALSE]
      BY <1>2 DEF Render
    <2> QED
      BY <2>1, <2>2, <2>3 DEF SentFields
  <1> QED
    BY <1>1, <1>2

(* What a step that leaves the router, the rows and the save alone, or     *)
(* mounts another wizard, keeps.                                           *)
SameRows ==
  /\ DOMAIN wiz' = WizFields /\ DOMAIN sent' = SentFields
  /\ sent'.step = sent.step /\ sent'.value = sent.value
  /\ \/ /\ wiz'.rows = wiz.rows /\ wiz'.undone = wiz.undone
        /\ sent'.heard = sent.heard
     \/ wiz'.rows = {} /\ sent'.heard = FALSE

LEMMA SameRowsKeep ==
  ASSUME SummaryInv, SameRows, router' = router
  PROVE  SummaryInv'
  BY DEF SummaryInv, Shapes, RowsHold, Unheard, OffIsKnown, SameRows, Holds

LEMMA RenderKeeps ==
  ASSUME SummaryInv, NEW a, NEW w, NEW sh, NEW s, Render(a, w, sh, s),
         DOMAIN w = WizFields, w.rows = wiz.rows, w.undone = wiz.undone,
         DOMAIN s = SentFields, s.step = sent.step, s.value = sent.value,
         s.heard = sent.heard
  PROVE  SameRows
  BY RenderCases DEF SameRows

LEMMA OnlyKeeps ==
  ASSUME SummaryInv, NEW a, Only(a)
  PROVE  SameRows
  BY RenderKeeps DEF Only, SummaryInv, Shapes

LEMMA TheWizardKeeps ==
  ASSUME SummaryInv, NEW w, TheWizard(w), DOMAIN w = WizFields,
         w.rows = wiz.rows, w.undone = wiz.undone
  PROVE  SameRows
  BY RenderKeeps DEF TheWizard, SummaryInv, Shapes

LEMMA ReloadedKeeps ==
  ASSUME SummaryInv, Reloaded
  PROVE  SameRows
  <1>1. DOMAIN NoWizard = WizFields /\ NoWizard.rows = {}
    BY DEF NoWizard, WizFields
  <1>2. /\ DOMAIN sent' = SentFields /\ sent'.heard = FALSE
        /\ sent'.step = sent.step /\ sent'.value = sent.value
    BY DEF Reloaded, SummaryInv, Shapes, SentFields
  <1> QED
    BY <1>1, <1>2 DEF Reloaded, SameRows

LEMMA StillKeeps ==
  ASSUME SummaryInv, wiz' = wiz, sent' = sent
  PROVE  SameRows
  BY DEF SummaryInv, Shapes, SameRows

(* Going on changes the timers, and nothing the last screen reads.         *)
LEMMA GoKeeps ==
  ASSUME NEW w, NEW to, DOMAIN w = WizFields
  PROVE  /\ DOMAIN Go(w, to) = WizFields
         /\ Go(w, to).rows = w.rows /\ Go(w, to).undone = w.undone
  <1>1. CASE to = "finish"
    BY <1>1 DEF Go
  <1>2. CASE to # "finish"
    BY <1>2 DEF Go, WizFields
  <1> QED
    BY <1>1, <1>2
-----------------------------------------------------------------------------
(* The steps of the app and its timers, and of the person but for a save.  *)
LEMMA AppSteps ==
  ASSUME SummaryInv,
         \/ Me \/ State \/ LogIn \/ LogOut \/ ChangePassword \/ LeaveLater
         \/ Reload \/ Relaunch \/ Cut \/ PageCall \/ Finished \/ SkipAll
  PROVE  SameRows /\ router' = router
  <1>1. router' = router
    BY DEF Me, State, LogIn, LogOut, ChangePassword, LeaveLater, Reload,
           Relaunch, Cut, PageCall, Finished, SkipAll, SignOut, backend
  <1>2. \/ \E a : Only(a)
        \/ Reloaded
        \/ wiz' = wiz /\ sent' = sent
    BY DEF Me, State, LogIn, LogOut, ChangePassword, LeaveLater, Reload,
           Relaunch, Cut, PageCall, Finished, SkipAll, SignOut, browser
  <1> QED
    BY <1>1, <1>2, OnlyKeeps, ReloadedKeeps, StillKeeps

LEMMA LoadSteps ==
  ASSUME SummaryInv, Load \/ RetryLoad
  PROVE  SameRows /\ router' = router
  <1>1. router' = router
    BY DEF Load, RetryLoad, backend
  <1>2. \E a, sh : Render(a, wiz, sh, sent)
    BY DEF Load, RetryLoad
  <1> QED
    BY <1>1, <1>2, RenderKeeps DEF SummaryInv, Shapes

LEMMA WizardSteps ==
  ASSUME SummaryInv,
         WizardLoad \/ RetryWizardLoad \/ GoOn \/ GoBack \/ Arrive
  PROVE  SameRows /\ router' = router
  <1>1. router' = router
    BY DEF WizardLoad, RetryWizardLoad, GoOn, GoBack, Arrive, backend
  <1>2. DOMAIN wiz = WizFields /\ DOMAIN sent = SentFields
    BY DEF SummaryInv, Shapes
  <1>3. CASE WizardLoad
    <2>1. /\ DOMAIN [wiz EXCEPT !.load = "failed"] = WizFields
          /\ [wiz EXCEPT !.load = "failed"].rows = wiz.rows
          /\ [wiz EXCEPT !.load = "failed"].undone = wiz.undone
      BY <1>2 DEF WizFields
    <2> DEFINE w == [wiz EXCEPT !.load = "yes", !.mode = router.mode,
                                !.known = router.on]
    <2>2. DOMAIN w = WizFields /\ w.rows = wiz.rows /\ w.undone = wiz.undone
      BY <1>2 DEF WizFields
    <2>3. \/ TheWizard(w)
          \/ Render(Unauthorized(app), [wiz EXCEPT !.load = "failed"], shell, sent)
          \/ TheWizard([wiz EXCEPT !.load = "failed"])
      BY <1>3 DEF WizardLoad
    <2> HIDE DEF w
    <2> QED
      BY <1>1, <1>2, <2>1, <2>2, <2>3, RenderKeeps, TheWizardKeeps
  <1>4. CASE RetryWizardLoad
    <2> DEFINE w == [wiz EXCEPT !.load = "loading"]
    <2>1. DOMAIN w = WizFields /\ w.rows = wiz.rows /\ w.undone = wiz.undone
      BY <1>2 DEF WizFields
    <2>2. TheWizard(w)
      BY <1>4 DEF RetryWizardLoad
    <2> HIDE DEF w
    <2> QED
      BY <1>1, <2>1, <2>2, TheWizardKeeps
  <1>5. CASE GoOn \/ GoBack
    <2>1. \E to : TheWizard(Go(wiz, to))
      BY <1>5 DEF GoOn, GoBack
    <2> QED
      BY <1>1, <1>2, <2>1, GoKeeps, TheWizardKeeps
  <1>6. CASE Arrive
    <2> DEFINE to == Head(wiz.going)
               w == [wiz EXCEPT !.step = to, !.going = Tail(@)]
               s == [sent EXCEPT !.here = sent.here /\ to = wiz.step]
    <2>1. DOMAIN w = WizFields /\ w.rows = wiz.rows /\ w.undone = wiz.undone
      BY <1>2 DEF WizFields
    <2>2. /\ DOMAIN s = SentFields /\ s.step = sent.step
          /\ s.value = sent.value /\ s.heard = sent.heard
      BY <1>2 DEF SentFields
    <2>3. Render(app, w, shell, s)
      BY <1>6 DEF Arrive
    <2> HIDE DEF w, s
    <2> QED
      BY <1>1, <2>1, <2>2, <2>3, RenderKeeps
  <1> QED
    BY <1>3, <1>4, <1>5, <1>6
-----------------------------------------------------------------------------
(* A step sends what the wizard offers, and what it switches off is known. *)
LEMMA SaveStep ==
  ASSUME SummaryInv, Save
  PROVE  SummaryInv'
  <1>1. DOMAIN wiz = WizFields /\ DOMAIN sent = SentFields
    BY DEF SummaryInv, Shapes
  <1>2. PICK v \in Values(wiz.step) :
          Render(app, [wiz EXCEPT !.undone = @ \union {s \in {wiz.step} : v = "off"}],
              shell, [step |-> wiz.step, to |-> After(wiz.step), value |-> v,
                      here |-> TRUE, heard |-> TRUE])
    BY DEF Save
  <1>3. /\ wiz.step \in SaveSteps
        /\ wiz.step = "mode" => v \in {"router", "ap"}
        /\ wiz.step \in Extras => v \in {"on", "off"}
    BY <1>2 DEF Values, ModeStep, ExtraNetStep, WireguardStep, FormStep, Extras,
                SaveSteps
  <1> DEFINE w == [wiz EXCEPT !.undone = @ \union {s \in {wiz.step} : v = "off"}]
             s == [step |-> wiz.step, to |-> After(wiz.step), value |-> v,
                   here |-> TRUE, heard |-> TRUE]
  <1>4. /\ DOMAIN w = WizFields /\ w.rows = wiz.rows
        /\ wiz.undone \subseteq w.undone
        /\ v = "off" => wiz.step \in w.undone
    BY <1>1 DEF WizFields
  <1>5. DOMAIN s = SentFields /\ s.step = wiz.step /\ s.value = v /\ s.heard
    BY DEF SentFields
  <1>6. Render(app, w, shell, s)
    BY <1>2
  <1>7. router' = router
    BY DEF Save, backend
  <1> HIDE DEF w, s
  <1>8. \/ wiz' = w /\ sent' = s
        \/ /\ DOMAIN wiz' = WizFields /\ wiz'.rows = {}
           /\ DOMAIN sent' = SentFields /\ sent'.heard = FALSE
           /\ sent'.step = wiz.step /\ sent'.value = v
    BY <1>5, <1>6, RenderCases
  <1>9. Shapes'
    BY <1>3, <1>4, <1>5, <1>7, <1>8 DEF SummaryInv, Shapes
  <1>10. RowsHold'
    BY <1>4, <1>7, <1>8 DEF SummaryInv, RowsHold, Holds
  <1>11. Unheard' /\ OffIsKnown'
    BY <1>4, <1>5, <1>8 DEF Unheard, OffIsKnown
  <1> QED
    BY <1>9, <1>10, <1>11 DEF SummaryInv

(* What a save makes of the router: only the mode, or one network.         *)
LEMMA AppliedIs ==
  ASSUME DOMAIN router = {"mode", "on"}
  PROVE  /\ DOMAIN Applied(router) = {"mode", "on"}
         /\ Applied(router).mode =
              IF sent.step = "mode" THEN sent.value ELSE router.mode
         /\ Applied(router).on =
              IF sent.step \in Extras /\ sent.value = "on"
              THEN router.on \union {sent.step}
              ELSE IF sent.step \in Extras /\ sent.value = "off"
              THEN router.on \ {sent.step} ELSE router.on
  <1>1. "mode" \notin Extras
    BY DEF Extras
  <1>2. CASE sent.step = "mode"
    BY <1>1, <1>2 DEF Applied
  <1>3. CASE sent.step \in Extras /\ sent.value = "on"
    BY <1>1, <1>3 DEF Applied
  <1>4. CASE sent.step \in Extras /\ sent.value = "off"
    BY <1>1, <1>4 DEF Applied
  <1>5. CASE /\ sent.step # "mode"
             /\ ~(sent.step \in Extras /\ sent.value \in {"on", "off"})
    BY <1>5 DEF Applied
  <1> QED
    BY <1>2, <1>3, <1>4, <1>5

(* The rows that are so before a save of another thing are so after it.    *)
LEMMA OtherRowsHold ==
  ASSUME SummaryInv, router' = Applied(router), NEW row, Holds(row),
         row \notin Changes
  PROVE  Holds(row)'
  <1>1. /\ router'.mode = IF sent.step = "mode" THEN sent.value ELSE router.mode
        /\ row # sent.step => (row \in router.on <=> row \in router'.on)
    BY AppliedIs DEF SummaryInv, Shapes
  <1> QED
    BY <1>1 DEF Holds, Changes, Extras

LEMMA NothingIs ==
  /\ DOMAIN Nothing = SentFields /\ Nothing.step = "none"
  /\ Nothing.value = "on" /\ Nothing.heard = FALSE
  BY DEF Nothing, SentFields

(* After an answer nothing is under way; what the rows then say decides.   *)
LEMMA AnsweredKeeps ==
  ASSUME SummaryInv, NEW a, NEW w, Render(a, w, shell, Nothing),
         DOMAIN w = WizFields, DOMAIN router' = {"mode", "on"},
         \A row \in w.rows \ w.undone : Holds(row)'
  PROVE  SummaryInv'
  <1>1. \/ wiz' = w /\ sent' = Nothing
        \/ /\ DOMAIN wiz' = WizFields /\ wiz'.rows = {}
           /\ DOMAIN sent' = SentFields /\ sent'.heard = FALSE
           /\ sent'.step = "none" /\ sent'.value = "on"
    BY NothingIs, RenderCases
  <1>2. Shapes'
    BY <1>1, NothingIs DEF Shapes, Extras
  <1>3. RowsHold' /\ Unheard' /\ OffIsKnown'
    BY <1>1, NothingIs DEF RowsHold, Unheard, OffIsKnown
  <1> QED
    BY <1>2, <1>3 DEF SummaryInv

(* The record a save leaves: its own row in place of what it changed.      *)
LEMMA RecordedIs ==
  ASSUME SummaryInv
  PROVE  /\ DOMAIN Recorded = WizFields /\ Recorded.undone = wiz.undone
         /\ Recorded.rows =
              (IF sent.step = "mode" THEN wiz.rows \ {"router", "ap"}
                                     ELSE wiz.rows) \union Row
  BY DEF SummaryInv, Shapes, WizFields, Recorded

LEMMA RecordedHolds ==
  ASSUME SummaryInv, sent.heard, router' = Applied(router)
  PROVE  \A row \in Recorded.rows \ Recorded.undone : Holds(row)'
  <1> SUFFICES ASSUME NEW row \in Recorded.rows, row \notin wiz.undone
               PROVE  Holds(row)'
    BY RecordedIs
  <1>1. CASE row \in wiz.rows /\ row \notin Changes
    BY <1>1, OtherRowsHold DEF SummaryInv, RowsHold
  <1>2. CASE row \in Row
    <2>1. /\ router'.mode = IF sent.step = "mode" THEN sent.value ELSE router.mode
          /\ sent.step \in Extras /\ sent.value = "on" => sent.step \in router'.on
          /\ sent.step \in Extras => sent.value \in {"on", "off"}
          /\ sent.step = "mode" => sent.value \in {"router", "ap"}
          /\ sent.step \in SaveSteps \union {"none"}
      BY AppliedIs DEF SummaryInv, Shapes
    <2> QED
      BY <1>2, <2>1 DEF Row, Holds, Extras, SaveSteps
  <1>3. CASE row \in wiz.rows /\ row \in Changes /\ row \notin Row
    <2>1. sent.step # "mode" /\ row = sent.step
      BY <1>3, RecordedIs DEF Changes
    <2>2. sent.step = "setup" \/ sent.value = "off"
      BY <1>3, <2>1 DEF Row
    <2>3. sent.value # "off"
      BY <2>1 DEF SummaryInv, OffIsKnown
    <2> QED
      BY <2>1, <2>2, <2>3 DEF Holds, Extras
  <1> QED
    BY <1>1, <1>2, <1>3, RecordedIs

(* A save that is answered, lost or refused keeps the rows true.           *)
LEMMA AnswerStep ==
  ASSUME SummaryInv, Answer
  PROVE  SummaryInv'
  <1>1. /\ DOMAIN wiz = WizFields /\ DOMAIN router = {"mode", "on"}
        /\ DOMAIN Applied(router) = {"mode", "on"}
    BY AppliedIs DEF SummaryInv, Shapes
  <1>2. router' = router => \A row \in wiz.rows \ wiz.undone : Holds(row)'
    BY DEF SummaryInv, RowsHold, Holds
  <1>3. CASE Saved /\ sent.heard
    <2>1. router' = Applied(router)
      BY <1>3 DEF Saved
    <2>2. Render(app, Go(Recorded, sent.to), shell, Nothing)
      BY <1>3 DEF Saved
    <2>3. \A row \in Recorded.rows \ Recorded.undone : Holds(row)'
      BY <1>3, <2>1, RecordedHolds
    <2>4. /\ DOMAIN Go(Recorded, sent.to) = WizFields
          /\ Go(Recorded, sent.to).rows = Recorded.rows
          /\ Go(Recorded, sent.to).undone = Recorded.undone
      BY RecordedIs, GoKeeps
    <2> QED
      BY <1>1, <2>1, <2>2, <2>3, <2>4, AnsweredKeeps
  <1>4. CASE (Saved \/ Lost) /\ ~sent.heard
    <2>1. router' = Applied(router)
      BY <1>4 DEF Saved, Lost
    <2>2. \A row \in wiz.rows \ wiz.undone : Holds(row)'
      <3>1. CASE wiz.rows = {}
        BY <3>1
      <3>2. CASE sent.step = "none"
        <4>1. Changes = {"none"} /\ "none" \notin Extras
          BY <3>2 DEF Changes, Extras
        <4>2. \A row \in wiz.rows \ wiz.undone : row # "none" => Holds(row)'
          BY <2>1, <4>1, OtherRowsHold DEF SummaryInv, RowsHold
        <4>3. Holds("none")'
          BY <4>1 DEF Holds
        <4> QED
          BY <4>2, <4>3
      <3> QED
        BY <1>4, <3>1, <3>2 DEF SummaryInv, Unheard
    <2> DEFINE w == [wiz EXCEPT !.undone = @ \union {s \in Changes : sent.heard}]
    <2>3. DOMAIN w = WizFields /\ w.rows = wiz.rows /\ wiz.undone \subseteq w.undone
      BY <1>1 DEF WizFields
    <2>4. Render(app, wiz, shell, Nothing) \/ Render(app, w, shell, Nothing)
      BY <1>4 DEF Saved, Lost
    <2> HIDE DEF w
    <2> QED
      BY <1>1, <2>1, <2>2, <2>3, <2>4, AnsweredKeeps
  <1>5. CASE Lost /\ sent.heard
    <2> DEFINE w == [wiz EXCEPT !.undone = @ \union {s \in Changes : sent.heard}]
    <2>1. router' = Applied(router)
      BY <1>5 DEF Lost
    <2>2. /\ DOMAIN w = WizFields /\ w.rows = wiz.rows
          /\ w.undone = wiz.undone \union Changes
      BY <1>1, <1>5 DEF WizFields
    <2>3. Render(app, w, shell, Nothing)
      BY <1>5 DEF Lost
    <2> HIDE DEF w
    <2>4. \A row \in w.rows \ w.undone : Holds(row)'
      BY <2>1, <2>2, OtherRowsHold DEF SummaryInv, RowsHold
    <2> QED
      BY <1>1, <2>1, <2>2, <2>3, <2>4, AnsweredKeeps
  <1>6. CASE Refused \/ \E a : Render(a, wiz, shell, Nothing) /\ router' = router
    <2>1. \E a : Render(a, wiz, shell, Nothing) /\ router' = router
      BY <1>6 DEF Refused
    <2> QED
      BY <1>1, <1>2, <2>1, AnsweredKeeps
  <1> QED
    BY <1>3, <1>4, <1>5, <1>6 DEF Answer

LEMMA SummaryInit == Init => SummaryInv
  <1> SUFFICES ASSUME Init PROVE SummaryInv
    OBVIOUS
  <1>1. /\ DOMAIN wiz = WizFields /\ wiz.rows = {}
        /\ DOMAIN router = {"mode", "on"} /\ sent = Nothing
    BY DEF Init, NoWizard, WizFields
  <1> QED
    BY <1>1, NothingIs
    DEF SummaryInv, Shapes, RowsHold, Unheard, OffIsKnown, Extras

LEMMA SummaryStep ==
  ASSUME SummaryInv, [Next]_vars
  PROVE  SummaryInv'
  <1>1. CASE UNCHANGED vars
    BY <1>1, StillKeeps, SameRowsKeep DEF vars, backend, browser
  <1>2. CASE Save
    BY <1>2, SaveStep
  <1>3. CASE Answer
    BY <1>3, AnswerStep
  <1>4. CASE \/ Me \/ State \/ LogIn \/ LogOut \/ ChangePassword \/ LeaveLater
             \/ Reload \/ Relaunch \/ Cut \/ PageCall \/ Finished \/ SkipAll
    BY <1>4, AppSteps, SameRowsKeep
  <1>5. CASE Load \/ RetryLoad
    BY <1>5, LoadSteps, SameRowsKeep
  <1>6. CASE WizardLoad \/ RetryWizardLoad \/ GoOn \/ GoBack \/ Arrive
    BY <1>6, WizardSteps, SameRowsKeep
  <1> QED
    BY <1>1, <1>2, <1>3, <1>4, <1>5, <1>6 DEF Next, Answers, Timers, Person

(***************************************************************************)
(* en.ts "Here's what's now set up:".  Whatever the hardware, the order of *)
(* the answers, the timers, the reloads, and the sessions and calls lost   *)
(* on the way, the last screen reads out what is so on the router, but for *)
(* what was switched off again or changed by a save whose answer was lost. *)
(***************************************************************************)
THEOREM SummaryHoldsAlways == Spec => []SummaryHolds
  <1>1. SummaryInv /\ [Next]_vars => SummaryInv'
    BY SummaryStep
  <1>2. SummaryInv => SummaryHolds
    BY DEF SummaryInv, RowsHold, SummaryHolds
  <1> QED
    BY SummaryInit, <1>1, <1>2, PTL DEF Spec
=============================================================================
