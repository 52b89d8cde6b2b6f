-------------------------------- MODULE Cards --------------------------------
(***************************************************************************)
(* One card of the web frontend, open in a browser, and the router behind  *)
(* it.  The router's state is the set of changes in force, each named by   *)
(* the act and the step that made it, and what the card shows is such a    *)
(* set too.  Requests travel and are answered in any order, fail before    *)
(* they take effect or lose their answer.                                  *)
(***************************************************************************)
EXTENDS CardScripts, FiniteSets

CONSTANTS
  Catalogue,  \* the descriptions of the cards checked
  Changing,   \* the calls of api.ts that change the router
  Starting,   \* those among them that only start a job which does
  MaxActs,    \* how often the user starts something
  MaxFaults   \* how many requests fail

ASSUME BoundsAreNumbers == MaxActs \in Nat /\ MaxFaults \in Nat

VARIABLES
  card,     \* the description of the card in question
  router,   \* the changes in force
  jobs,     \* the changes accepted that a job still has to make
  shown,    \* the changes the card shows
  loaded,   \* it has something to show
  subject,  \* what it is about
  about,    \* what the data shown are about
  draft,    \* its fields: "clean" or "typed"
  busy,     \* the flags raised: pairs of a flag and an item
  acts,     \* the acts started
  loads,    \* the readings
  faults    \* requests failed so far

vars == <<card, router, jobs, shown, loaded, subject, about, draft, busy, acts,
          loads, faults>>

Slots == 1 .. MaxActs
Items == {"a", "b"}
Mount == 0             \* the reading a card starts with
Again == MaxActs + 1   \* one by its interval or by its parent
Choice == MaxActs + 2  \* one for another subject
Readings == 0 .. Choice

ActOf(k) == card.acts[acts[k].name]
StepOf(k) == ActOf(k).steps[acts[k].pc]
Changes(step) == step.call \in Changing
Waiting(step) == IF step.call = "timer" THEN "timer" ELSE "sent"
InProgress(k) == acts[k].at \in {"sent", "served", "timer"}
(* Act k has not made all its changes yet.                                 *)
Committing(k) ==
  /\ InProgress(k)
  /\ \E pc \in acts[k].pc .. Len(ActOf(k).steps) :
       Changes(ActOf(k).steps[pc])

Unused == [name |-> "", item |-> "any", pc |-> 0, at |-> "unused",
           ans |-> "ok", got |-> {}, failed |-> FALSE, lost |-> FALSE,
           said |-> FALSE]
Idle == [at |-> "idle", about |-> "a", ans |-> "ok", got |-> {}]
Open == [Idle EXCEPT !.at = "sent", !.about = subject]

TypeOK ==
  /\ card \in Catalogue
  /\ router \subseteq Slots \X Nat /\ shown \subseteq Slots \X Nat
  /\ jobs \subseteq Slots \X Nat
  /\ loaded \in BOOLEAN
  /\ subject \in Items /\ about \in Items
  /\ draft \in {"clean", "typed"}
  /\ \A flag \in busy : flag[2] \in Items \union {"any"}
  /\ \A k \in Slots :
       /\ acts[k].at \in {"unused", "sent", "served", "timer", "ended"}
       /\ acts[k].at # "unused" => acts[k].pc \in 1 .. Len(ActOf(k).steps)
       /\ acts[k].got \subseteq Slots \X Nat
  /\ \A l \in Readings : loads[l].at \in {"idle", "sent", "served"}
  /\ faults \in 0 .. MaxFaults

Init ==
  /\ card \in Catalogue
  /\ router = {} /\ jobs = {} /\ shown = {}
  /\ loaded = (card.load = {})
  /\ subject = "a" /\ about = "a"
  /\ draft = "clean" /\ busy = {}
  /\ acts = [k \in Slots |-> Unused]
  /\ loads = [l \in Readings |->
                IF l = Mount /\ card.load # {} THEN Open ELSE Idle]
  /\ faults = 0

-----------------------------------------------------------------------------
(* Flags.  A flag without an item is raised for "any".                     *)

Raised(name, item) ==
  \E flag \in busy : /\ flag[1] = name
                     /\ flag[2] = "any" \/ item = "any" \/ flag[2] = item
Disabled(name, item) ==
  \E test \in card.controls[name] : \A flag \in test :
    IF flag = "no cycle" THEN ~Raised("cycle", item) ELSE Raised(flag, item)
Down(flags, name) == {flag \in flags : flag[1] # name}
Up(flags, name, item) ==
  IF name = "none" THEN flags ELSE Down(flags, name) \union {<<name, item>>}
Rest(flags, act) ==
  {flag \in flags : flag[1] \notin act.shares \union {act.flag}}
(* Wrong on purpose: useActionCycle never says that it is applying.        *)
PhaseUnsaid(flags, step) == flags
Phase(flags, step) ==
  IF step.cycle # "no" THEN Up(flags, "cycle", "any") ELSE flags

(* What follows the call of act k that has been answered.                  *)
(* Wrong on purpose: request does not throw when the status is an error.   *)
EffectsUnchecked(k) == StepOf(k).ok
EffectsOf(k) ==
  IF acts[k].ans = "ok" THEN StepOf(k).ok ELSE StepOf(k).thrown

(* What a continuation of act k does to the card.  An answer or a reading  *)
(* back brings the part of the data the act is about.                      *)
Shows(k, effects) ==
  LET id == <<k, acts[k].pc>>
      elsewhere == {x \in shown : ActOf(x[1]).part # ActOf(k).part}
      brought == {x \in acts[k].got : ActOf(x[1]).part = ActOf(k).part}
  IN  IF "show" \in effects THEN elsewhere \union brought
      ELSE IF "patch" \in effects THEN shown \union {id}
      ELSE IF "undo" \in effects THEN shown \ {id}
      ELSE shown
Apart(ids) == {x \in ids : ActOf(x[1]).part = "apart"}
(* Wrong on purpose: every answer fills the fields of its card.            *)
RefillsAlways(k, effects) == {"clean", "show"} \intersect effects # {}
Refills(k, effects) ==
  \/ "clean" \in effects
  \/ "show" \in effects /\ card.form = "follows" /\ ActOf(k).part # "apart"
Lowered(k, effects) ==
  LET cycle == IF "free" \in effects THEN Down(busy, "cycle") ELSE busy
  IN  IF "idle" \in effects THEN Rest(cycle, ActOf(k)) ELSE cycle

-----------------------------------------------------------------------------
(* The user: typing, choosing another subject, starting an act.            *)

Type ==
  /\ loaded /\ card.form # "none" /\ draft = "clean"
  /\ draft' = "typed"
  /\ UNCHANGED <<card, router, jobs, shown, loaded, subject, about, busy, acts,
                 loads, faults>>

Choose ==
  /\ "subject" \in card.load /\ loads[Choice].at = "idle" /\ subject = "a"
  /\ subject' = "b"
  /\ loads' = [loads EXCEPT ![Choice] = [Open EXCEPT !.about = "b"]]
  /\ UNCHANGED <<card, router, jobs, shown, loaded, about, draft, busy, acts,
                 faults>>

Begin(k, name, item) ==
  LET act == card.acts[name]
      slot == [Unused EXCEPT !.name = name, !.item = item, !.pc = 1,
                             !.at = Waiting(act.steps[1])]
  IN  /\ ~Disabled(name, item)
      /\ act.form = "typed" => draft = "typed"
      /\ acts' = [acts EXCEPT ![k] = slot]
      /\ busy' = Phase(Up(Rest(busy, act), act.flag, item), act.steps[1])
      /\ shown' = IF "patch" \in act.start
                    THEN shown \union {<<k, 1>>} ELSE shown
      /\ draft' = IF "clean" \in act.start THEN "clean" ELSE draft
      /\ UNCHANGED <<card, router, jobs, loaded, subject, about, loads,
                     faults>>

(* The items are alike: the first one used is called "a".                  *)
ItemsOf(k, act) ==
  IF ~act.keyed THEN {"any"} ELSE IF k = 1 THEN {"a"} ELSE Items

Start(k) ==
  /\ loaded
  /\ acts[k].at = "unused"
  /\ \A j \in 1 .. k - 1 : acts[j].at # "unused"
  /\ \E name \in DOMAIN card.acts :
       \E item \in ItemsOf(k, card.acts[name]) : Begin(k, name, item)

-----------------------------------------------------------------------------
(* The router and the way to it.                                           *)

Fault == faults < MaxFaults /\ faults' = faults + 1

Served(k, effect, ans) ==
  LET id == <<k, acts[k].pc>>
      later == StepOf(k).call \in Starting
  IN  /\ acts[k].at = "sent"
      /\ router' = IF effect /\ ~later THEN router \union {id} ELSE router
      /\ jobs' = IF effect /\ later THEN jobs \union {id} ELSE jobs
      /\ acts' = [acts EXCEPT ![k].at = "served", ![k].ans = ans,
                      ![k].lost = @ \/ (effect /\ ans = "thrown"),
                      ![k].got = IF ans = "thrown" THEN {} ELSE router']
      /\ UNCHANGED <<card, shown, loaded, subject, about, draft, busy, loads>>

(* useInstallJob polls until the job has ended.                            *)
Serve(k) ==
  /\ acts[k].at = "sent"
  /\ StepOf(k).call = "installJob" => jobs = {}
  /\ Served(k, Changes(StepOf(k)), "ok")
  /\ UNCHANGED faults
(* The request is refused, rolled back or never arrives.                   *)
Break(k) == Served(k, FALSE, "thrown") /\ Fault
(* It takes effect and its answer is lost.                                 *)
Lose(k) ==
  /\ acts[k].at = "sent" /\ Changes(StepOf(k))
  /\ Served(k, TRUE, "thrown") /\ Fault

(* A job makes its change.                                                 *)
Land(id) ==
  /\ id \in jobs
  /\ jobs' = jobs \ {id} /\ router' = router \union {id}
  /\ UNCHANGED <<card, shown, loaded, subject, about, draft, busy, acts,
                 loads, faults>>

ServeLoad(l) ==
  /\ loads[l].at = "sent"
  /\ loads' = [loads EXCEPT ![l].at = "served", ![l].got = router]
  /\ UNCHANGED <<card, router, jobs, shown, loaded, subject, about, draft, busy,
                 acts, faults>>
BreakLoad(l) ==
  /\ loads[l].at = "sent" /\ Fault
  /\ loads' = [loads EXCEPT ![l].at = "served", ![l].ans = "thrown"]
  /\ UNCHANGED <<card, router, jobs, shown, loaded, subject, about, draft, busy,
                 acts>>

-----------------------------------------------------------------------------
(* The page: continuations of acts, and readings that arrive.              *)

(* Act k goes on after its call, or after the 700 ms of "checking".        *)
Resume(k) ==
  LET step == StepOf(k)
      effects == EffectsOf(k)
      goesOn == effects \intersect {"next", "last"} # {}
      pc == IF "last" \in effects THEN Len(ActOf(k).steps)
            ELSE IF "next" \in effects THEN acts[k].pc + 1 ELSE acts[k].pc
      next == ActOf(k).steps[pc]
      lowered == Lowered(k, effects)
  IN  /\ acts' = [acts EXCEPT
           ![k].pc = pc,
           ![k].at = IF goesOn THEN Waiting(next) ELSE "ended",
           ![k].ans = "ok", ![k].got = {},
           ![k].failed = @ \/ (Changes(step) /\ acts[k].ans # "ok"),
           ![k].said = @ \/ "bad" \in effects]
      /\ busy' = IF goesOn THEN Phase(lowered, next) ELSE lowered
      /\ shown' = Shows(k, effects)
      /\ draft' = IF Refills(k, effects) THEN "clean" ELSE draft
      /\ loads' = IF "load" \in effects
                    THEN [loads EXCEPT ![k] = Open] ELSE loads
      /\ UNCHANGED <<card, router, jobs, loaded, subject, about, faults>>

Checked(k) == StepOf(k).cycle = "whole" /\ acts[k].ans = "ok"

Answer(k) == acts[k].at = "served" /\ ~Checked(k) /\ Resume(k)

Check(k) ==
  /\ acts[k].at = "served" /\ Checked(k)
  /\ acts' = [acts EXCEPT ![k].at = "timer"]
  /\ UNCHANGED <<card, router, jobs, shown, loaded, subject, about, draft, busy,
                 loads, faults>>

Timer(k) == acts[k].at = "timer" /\ Resume(k)

(* A late answer for another subject is dropped where the card looks at it.*)
(* Wrong on purpose: the answer is taken whatever it is about.             *)
WantedAnyway(l) == TRUE
Wanted(l) == "guarded" \in card.load => loads[l].about = subject

Arrive(l) ==
  LET taken == Wanted(l) /\ loads[l].ans = "ok"
      emptied == Wanted(l) /\ l = Choice /\ loads[l].ans # "ok"
  IN  /\ loads[l].at = "served"
      /\ loads' = [loads EXCEPT ![l] = Idle]
      /\ shown' = IF taken
                THEN Apart(shown) \union (loads[l].got \ Apart(loads[l].got))
                ELSE shown
      /\ about' = IF taken THEN loads[l].about ELSE about
      /\ loaded' = ((loaded \/ taken) /\ ~emptied)
      /\ draft' = IF taken /\ card.form = "follows" THEN "clean" ELSE draft
      /\ UNCHANGED <<card, router, jobs, subject, busy, acts, faults>>

(* The interval of a card that polls, and new data from the parent.        *)
LoadAgain(when) ==
  /\ when \in card.load /\ loaded /\ loads[Again].at = "idle"
  /\ loads' = [loads EXCEPT ![Again] = Open]
  /\ UNCHANGED <<card, router, jobs, shown, loaded, subject, about, draft, busy,
                 acts, faults>>
Poll == LoadAgain("poll")
Feed == LoadAgain("fed")

-----------------------------------------------------------------------------
Request(k) == Serve(k) \/ Break(k) \/ Lose(k)
Continue(k) == Answer(k) \/ Check(k) \/ Timer(k)

Next ==
  \/ Type \/ Choose \/ Poll \/ Feed
  \/ \E k \in Slots :
       \/ Start(k) \/ Request(k) \/ Continue(k)
  \/ \E id \in jobs : Land(id)
  \/ \E l \in Readings : ServeLoad(l) \/ BreakLoad(l) \/ Arrive(l)

Spec == Init /\ [][Next]_vars

(* Every request is answered or fails (the browser gives up in the end),   *)
(* timers fire and continuations run.  Nothing makes the user act.         *)
FairSpec ==
  /\ Spec
  /\ \A k \in Slots : WF_vars(Request(k)) /\ WF_vars(Continue(k))
  /\ \A l \in Readings :
       WF_vars(ServeLoad(l) \/ BreakLoad(l)) /\ WF_vars(Arrive(l))
  /\ WF_vars(\E id \in jobs : Land(id)) /\ WF_vars(Poll)
=============================================================================
