----------------------------- MODULE CardsProofs -----------------------------
(***************************************************************************)
(* Proofs about the cards, for any catalogue of descriptions that has the  *)
(* discipline of CardDiscipline, any number of acts and any number of      *)
(* failures.                                                               *)
(***************************************************************************)
EXTENDS CardDiscipline, FiniteSetTheorems, TLAPS

Ids == Slots \X Nat
ActNames == UNION {DOMAIN c.acts : c \in Catalogue}
Names == ActNames \union {""}
FlagNames == UNION {FlagsOf(c) : c \in Catalogue}
Under == {"sent", "served", "timer"}
SlotType ==
  [name : Names, item : Items \union {"any"}, pc : Nat,
   at : Under \union {"unused", "ended"}, ans : {"ok", "thrown"},
   got : SUBSET Ids, failed : BOOLEAN, lost : BOOLEAN, said : BOOLEAN]
ReadingType ==
  [at : {"idle", "sent", "served"}, about : Items, ans : {"ok", "thrown"},
   got : SUBSET Ids]

(* An act started is one of the card's, and stands at a call of its script.*)
Placed(k) ==
  acts[k].at # "unused"
    => /\ acts[k].name \in DOMAIN card.acts
       /\ acts[k].pc \in 1 .. Len(ActOf(k).steps)

Typed ==
  /\ card \in Catalogue
  /\ router \in SUBSET Ids /\ jobs \in SUBSET Ids /\ shown \in SUBSET Ids
  /\ loaded \in BOOLEAN /\ subject \in Items /\ about \in Items
  /\ draft \in {"clean", "typed"}
  /\ busy \in SUBSET (FlagNames \X (Items \union {"any"}))
  /\ acts \in [Slots -> SlotType]
  /\ \A k \in Slots : Placed(k)
  /\ loads \in [Readings -> ReadingType]
  /\ faults \in 0 .. MaxFaults

-----------------------------------------------------------------------------
(* The scripts.                                                            *)

(* The act of a slot in use is well formed.                                *)
LEMMA ScriptOf ==
  ASSUME Typed, NEW k \in Slots, acts[k].at # "unused"
  PROVE  /\ WellFormed(ActOf(k))
         /\ ActOf(k).steps \in Seq(ScriptSteps)
         /\ Len(ActOf(k).steps) \in Nat
         /\ DOMAIN ActOf(k).steps = 1 .. Len(ActOf(k).steps)
         /\ acts[k].pc \in 1 .. Len(ActOf(k).steps)
         /\ StepOf(k) \in ScriptSteps
         /\ EffectsOf(k) \in Outcomes(StepOf(k))
         /\ EffectsOf(k) \subseteq Effects
         /\ EffectsOf(k) \intersect {"next", "last"} # {}
              => acts[k].pc < Len(ActOf(k).steps)
<1>1. WellFormed(ActOf(k))
  BY ScriptsAreWellFormed DEF Typed, Placed, ActOf
<1>2. ActOf(k).steps \in Seq(ScriptSteps)
  BY <1>1 DEF WellFormed
<1>3. acts[k].pc \in 1 .. Len(ActOf(k).steps)
  BY DEF Typed, Placed
<1>4. StepOf(k) \in ScriptSteps
  BY <1>2, <1>3 DEF StepOf
<1>5. /\ EffectsOf(k) \in Outcomes(StepOf(k))
      /\ EffectsOf(k) \subseteq Effects
  BY <1>4 DEF EffectsOf, Outcomes, ScriptSteps
<1>6. DOMAIN ActOf(k).steps = 1 .. Len(ActOf(k).steps)
  BY <1>2
<1>7. EffectsOf(k) \intersect {"next", "last"} # {}
        => acts[k].pc < Len(ActOf(k).steps)
  BY <1>1, <1>3, <1>5, <1>6 DEF WellFormed, StepOf
<1> QED
  BY <1>1, <1>2, <1>3, <1>4, <1>5, <1>6, <1>7

(* Slots, readings and the names of the three special readings.            *)
LEMMA ReadingNames ==
  /\ Slots \subseteq Readings /\ Mount \in Readings /\ Again \in Readings
  /\ Choice \in Readings /\ Choice \notin Slots /\ Choice # Again
BY BoundsAreNumbers DEF Slots, Readings, Mount, Again, Choice

(* A flag raised or lowered stays within the flags of the card.            *)
LEMMA FlagSets ==
  ASSUME Typed, NEW name \in DOMAIN card.acts
  PROVE  /\ card.acts[name].flag \in FlagNames
         /\ "cycle" \in FlagNames /\ name \in Names
<1>1. card \in Catalogue
  BY DEF Typed
<1>2. card.acts[name].flag \in FlagsOf(card) /\ "cycle" \in FlagsOf(card)
  BY DEF FlagsOf
<1>3. FlagsOf(card) \subseteq FlagNames
  BY <1>1 DEF FlagNames
<1>4. DOMAIN card.acts \subseteq Names
  BY <1>1 DEF Names, ActNames
<1> QED
  BY <1>2, <1>3, <1>4

-----------------------------------------------------------------------------
(* What the steps do to the acts.                                          *)

(* Act k is moved on without going on: served, or waiting for the timer.   *)
Moves(k) ==
  /\ InProgress(k) /\ busy' = busy /\ card' = card /\ draft' = draft
  /\ \E slot \in SlotType :
       /\ acts' = [acts EXCEPT ![k] = slot]
       /\ slot.at \in Under
       /\ slot.name = acts[k].name /\ slot.item = acts[k].item
       /\ slot.pc = acts[k].pc
       /\ slot.failed = acts[k].failed /\ slot.said = acts[k].said

Resumes(k) == InProgress(k) /\ acts[k].at # "sent" /\ Resume(k)

LEMMA ServedMoves ==
  ASSUME Typed, NEW k \in Slots, NEW effect \in BOOLEAN,
         NEW ans \in {"ok", "thrown"}, Served(k, effect, ans)
  PROVE  /\ Moves(k) /\ router' \in SUBSET Ids /\ jobs' \in SUBSET Ids
         /\ UNCHANGED <<shown, loaded, subject, about, loads>>
<1>1. acts[k] \in SlotType /\ acts[k].pc \in Nat
  BY DEF Typed, SlotType
<1>2. <<k, acts[k].pc>> \in Ids
  BY <1>1 DEF Ids
<1>3. router' \in SUBSET Ids /\ jobs' \in SUBSET Ids
  BY <1>2 DEF Served, Typed
<1>4. InProgress(k)
  BY DEF Served, InProgress
<1> DEFINE slot == [acts[k] EXCEPT !.at = "served", !.ans = ans,
                      !.lost = @ \/ (effect /\ ans = "thrown"),
                      !.got = IF ans = "thrown" THEN {} ELSE router']
<1>5. acts' = [acts EXCEPT ![k] = slot]
  BY DEF Served, Typed
<1>6. slot \in SlotType
  BY <1>1, <1>3 DEF SlotType, Under
<1>7. /\ slot.at \in Under
      /\ slot.name = acts[k].name /\ slot.item = acts[k].item
      /\ slot.pc = acts[k].pc
      /\ slot.failed = acts[k].failed /\ slot.said = acts[k].said
  BY <1>1 DEF SlotType, Under
<1>8. UNCHANGED <<card, shown, loaded, subject, about, draft, busy, loads>>
  BY DEF Served
<1> HIDE DEF slot
<1> QED
  BY <1>3, <1>4, <1>5, <1>6, <1>7, <1>8 DEF Moves

LEMMA RequestMoves ==
  ASSUME Typed, NEW k \in Slots, Request(k)
  PROVE  /\ Moves(k) /\ router' \in SUBSET Ids /\ jobs' \in SUBSET Ids
         /\ UNCHANGED <<shown, loaded, subject, about, loads>>
         /\ faults' \in 0 .. MaxFaults
<1>1. CASE Serve(k)
  <2>1. Served(k, Changes(StepOf(k)), "ok") /\ faults' = faults
    BY <1>1 DEF Serve
  <2>2. Changes(StepOf(k)) \in BOOLEAN
    BY DEF Changes
  <2> QED
    BY <2>1, <2>2, ServedMoves DEF Typed
<1>2. CASE Break(k)
  <2>1. Served(k, FALSE, "thrown") /\ Fault
    BY <1>2 DEF Break
  <2>2. faults' \in 0 .. MaxFaults
    BY <2>1, BoundsAreNumbers DEF Typed, Fault
  <2>3. FALSE \in BOOLEAN /\ "thrown" \in {"ok", "thrown"}
    OBVIOUS
  <2> QED
    BY <2>1, <2>2, <2>3, ServedMoves
<1>3. CASE Lose(k)
  <2>1. Served(k, TRUE, "thrown") /\ Fault
    BY <1>3 DEF Lose
  <2>2. faults' \in 0 .. MaxFaults
    BY <2>1, BoundsAreNumbers DEF Typed, Fault
  <2>3. TRUE \in BOOLEAN /\ "thrown" \in {"ok", "thrown"}
    OBVIOUS
  <2> QED
    BY <2>1, <2>2, <2>3, ServedMoves
<1> QED
  BY <1>1, <1>2, <1>3 DEF Request

LEMMA CheckMoves ==
  ASSUME Typed, NEW k \in Slots, Check(k)
  PROVE  /\ Moves(k)
         /\ UNCHANGED <<router, jobs, shown, loaded, subject, about, loads,
                        faults>>
<1>1. acts[k] \in SlotType
  BY DEF Typed
<1> DEFINE slot == [acts[k] EXCEPT !.at = "timer"]
<1>2. acts' = [acts EXCEPT ![k] = slot] /\ InProgress(k)
  BY DEF Check, Typed, InProgress
<1>3. /\ slot \in SlotType /\ slot.at \in Under
      /\ slot.name = acts[k].name /\ slot.item = acts[k].item
      /\ slot.pc = acts[k].pc
      /\ slot.failed = acts[k].failed /\ slot.said = acts[k].said
  BY <1>1 DEF SlotType, Under
<1>4. UNCHANGED <<card, router, jobs, shown, loaded, subject, about, draft,
                  busy, loads, faults>>
  BY DEF Check
<1> HIDE DEF slot
<1> QED
  BY <1>2, <1>3, <1>4 DEF Moves

(* A new act of that name on that item, standing at its first call.        *)
Begun(k, name, item) ==
  \E slot \in SlotType :
    /\ acts' = [acts EXCEPT ![k] = slot]
    /\ slot.name = name /\ slot.item = item /\ slot.pc = 1
    /\ slot.at \in Under /\ ~slot.failed /\ ~slot.said

LEMMA BusyTyped ==
  ASSUME NEW flags \in SUBSET (FlagNames \X (Items \union {"any"})),
         NEW name \in FlagNames, NEW item \in Items \union {"any"}
  PROVE  Up(flags, name, item) \in SUBSET (FlagNames \X (Items \union {"any"}))
BY DEF Up, Down

LEMMA BeginBegins ==
  ASSUME Typed, NEW k \in Slots, NEW name \in DOMAIN card.acts,
         NEW item \in ItemsOf(k, card.acts[name]), Begin(k, name, item)
  PROVE  /\ Begun(k, name, item) /\ card' = card
         /\ WellFormed(card.acts[name]) /\ ~Disabled(name, item)
         /\ item \in Items \union {"any"}
         /\ ~card.acts[name].keyed => item = "any"
         /\ busy' = Phase(Up(Rest(busy, card.acts[name]),
                             card.acts[name].flag, item),
                          card.acts[name].steps[1])
         /\ busy' \in SUBSET (FlagNames \X (Items \union {"any"}))
         /\ shown' \in SUBSET Ids /\ draft' \in {"clean", "typed"}
         /\ UNCHANGED <<router, jobs, loaded, subject, about, loads, faults>>
<1> DEFINE act == card.acts[name]
<1>1. WellFormed(act)
  BY ScriptsAreWellFormed DEF Typed
<1>2. act.steps \in Seq(ScriptSteps) /\ act.steps # <<>> /\ act.keyed \in BOOLEAN
  BY <1>1 DEF WellFormed
<1>3. act.steps[1] \in ScriptSteps
  BY <1>2
<1>4. /\ item \in Items \union {"any"}
      /\ ~act.keyed => item = "any"
  BY <1>2 DEF ItemsOf, Items
<1> DEFINE slot == [Unused EXCEPT !.name = name, !.item = item, !.pc = 1,
                                 !.at = Waiting(act.steps[1])]
<1>5. /\ acts' = [acts EXCEPT ![k] = slot] /\ ~Disabled(name, item)
      /\ busy' = Phase(Up(Rest(busy, act), act.flag, item), act.steps[1])
      /\ shown' = IF "patch" \in act.start THEN shown \union {<<k, 1>>} ELSE shown
      /\ draft' = IF "clean" \in act.start THEN "clean" ELSE draft
      /\ UNCHANGED <<card, router, jobs, loaded, subject, about, loads, faults>>
  BY DEF Begin
<1>6. /\ slot \in SlotType /\ slot.name = name /\ slot.item = item
      /\ slot.pc = 1 /\ slot.at \in Under /\ ~slot.failed /\ ~slot.said
  <2>1. name \in Names
    BY FlagSets
  <2>2. Waiting(act.steps[1]) \in Under
    BY DEF Waiting, Under
  <2> QED
    BY <2>1, <2>2, <1>4 DEF SlotType, Unused, Under
<1>7. Begun(k, name, item)
  <2> HIDE DEF slot
  <2> QED
    BY <1>5, <1>6 DEF Begun
<1>8. busy' \in SUBSET (FlagNames \X (Items \union {"any"}))
  <2>1. Rest(busy, act) \in SUBSET (FlagNames \X (Items \union {"any"}))
    BY DEF Rest, Typed
  <2>2. Up(Rest(busy, act), act.flag, item)
          \in SUBSET (FlagNames \X (Items \union {"any"}))
    BY <2>1, <1>4, FlagSets, BusyTyped
  <2> QED
    BY <2>2, <1>5, FlagSets, BusyTyped DEF Phase
<1>9. shown' \in SUBSET Ids /\ draft' \in {"clean", "typed"}
  <2>1. <<k, 1>> \in Ids
    BY DEF Ids
  <2> QED
    BY <2>1, <1>5 DEF Typed
<1> QED
  BY <1>1, <1>4, <1>5, <1>7, <1>8, <1>9

(* Act k goes on from its call: to the next, to the last, or to its end.   *)
Continued(k) ==
  \E slot \in SlotType :
    /\ acts' = [acts EXCEPT ![k] = slot]
    /\ slot.name = acts[k].name /\ slot.item = acts[k].item
    /\ slot.at \in Under \union {"ended"}
    /\ slot.pc \in 1 .. Len(ActOf(k).steps)
    /\ slot.at \in Under
         => \/ "last" \in EffectsOf(k) /\ slot.pc = Len(ActOf(k).steps)
            \/ "next" \in EffectsOf(k) /\ slot.pc = acts[k].pc + 1
    /\ slot.failed
         => acts[k].failed \/ (Changes(StepOf(k)) /\ acts[k].ans # "ok")
    /\ slot.said = (acts[k].said \/ "bad" \in EffectsOf(k))

LEMMA ResumeContinues ==
  ASSUME Typed, NEW k \in Slots, Resumes(k)
  PROVE  /\ Continued(k) /\ card' = card
         /\ busy' = Lowered(k, EffectsOf(k))
              \/ \E i \in 1 .. Len(ActOf(k).steps) :
                   busy' = Phase(Lowered(k, EffectsOf(k)), ActOf(k).steps[i])
         /\ shown' \in SUBSET Ids /\ draft' \in {"clean", "typed"}
         /\ loads' = loads \/ loads' = [loads EXCEPT ![k] = Open]
         /\ UNCHANGED <<router, jobs, loaded, subject, about, faults>>
<1>1. /\ acts[k].at \in Under /\ acts[k].at # "unused"
      /\ acts[k] \in SlotType /\ acts[k].pc \in Nat
  BY DEF Resumes, InProgress, Under, Typed, SlotType
<1> DEFINE steps == ActOf(k).steps
<1>2. /\ steps \in Seq(ScriptSteps) /\ Len(steps) \in Nat
      /\ acts[k].pc \in 1 .. Len(steps)
      /\ \A i \in 1 .. Len(steps) : steps[i] \in ScriptSteps
      /\ "next" \in EffectsOf(k) => acts[k].pc < Len(steps)
  BY <1>1, ScriptOf
<1> DEFINE E == EffectsOf(k)
           goesOn == E \intersect {"next", "last"} # {}
           pc == IF "last" \in E THEN Len(steps)
                 ELSE IF "next" \in E THEN acts[k].pc + 1 ELSE acts[k].pc
           slot == [acts[k] EXCEPT
                      !.pc = pc,
                      !.at = IF goesOn THEN Waiting(steps[pc]) ELSE "ended",
                      !.ans = "ok", !.got = {},
                      !.failed = @ \/ (Changes(StepOf(k)) /\ acts[k].ans # "ok"),
                      !.said = @ \/ "bad" \in E]
<1>3. pc \in 1 .. Len(steps)
  BY <1>2
<1>4. Waiting(steps[pc]) \in Under
  BY DEF Waiting, Under
<1>5. /\ acts' = [acts EXCEPT ![k] = slot]
      /\ busy' = IF goesOn THEN Phase(Lowered(k, E), steps[pc]) ELSE Lowered(k, E)
      /\ shown' = Shows(k, E)
      /\ draft' = IF Refills(k, E) THEN "clean" ELSE draft
      /\ loads' = IF "load" \in E THEN [loads EXCEPT ![k] = Open] ELSE loads
      /\ UNCHANGED <<card, router, jobs, loaded, subject, about, faults>>
  <2> HIDE DEF Waiting, Phase, Lowered, Shows, Refills, Open, Changes, EffectsOf
  <2>1. Resume(k) /\ acts \in [Slots -> SlotType]
    BY DEF Resumes, Typed
  <2> QED
    BY ZenonT(60), <2>1 DEF Resume, Resumes, Typed
<1>6. /\ slot \in SlotType
      /\ slot.name = acts[k].name /\ slot.item = acts[k].item /\ slot.pc = pc
      /\ slot.at = IF goesOn THEN Waiting(steps[pc]) ELSE "ended"
      /\ slot.failed = (acts[k].failed
                          \/ (Changes(StepOf(k)) /\ acts[k].ans # "ok"))
      /\ slot.said = (acts[k].said \/ "bad" \in E)
  <2>1. pc \in Nat
    BY <1>2, <1>3
  <2> HIDE DEF pc, goesOn, steps, E
  <2>2. Changes(StepOf(k)) \in BOOLEAN
    BY DEF Changes
  <2> QED
    BY <1>1, <1>4, <2>1, <2>2 DEF SlotType, Under
<1>7. slot.at \in Under
        => \/ "last" \in E /\ slot.pc = Len(steps)
           \/ "next" \in E /\ slot.pc = acts[k].pc + 1
  <2> HIDE DEF slot, E
  <2> QED
    BY <1>6 DEF Under
<1>8. Continued(k)
  <2> HIDE DEF slot, pc, goesOn, E
  <2> QED
    BY <1>3, <1>4, <1>5, <1>6, <1>7 DEF Continued, E
<1>9. shown' \in SUBSET Ids
  <2>1. <<k, acts[k].pc>> \in Ids /\ acts[k].got \in SUBSET Ids
    BY <1>1 DEF Ids, SlotType
  <2> QED
    BY <1>5, <2>1 DEF Shows, Typed
<1>10. busy' = Lowered(k, E)
        \/ \E i \in 1 .. Len(steps) : busy' = Phase(Lowered(k, E), steps[i])
  BY <1>3, <1>5
<1> QED
  BY <1>5, <1>8, <1>9, <1>10 DEF Typed

-----------------------------------------------------------------------------
(* What each step does to the acts: one is begun, goes on or moves, or the *)
(* step leaves them and their flags alone.                                 *)
Begins ==
  \E k \in Slots : \E name \in DOMAIN card.acts :
    \E item \in ItemsOf(k, card.acts[name]) :
      /\ acts[k].at = "unused" /\ loaded
      /\ Begin(k, name, item)
Elsewhere ==
  Type \/ Choose \/ Poll \/ Feed \/ (\E id \in jobs : Land(id))
  \/ (\E l \in Readings : ServeLoad(l) \/ BreakLoad(l) \/ Arrive(l))

LEMMA StepKinds ==
  ASSUME Typed, Next
  PROVE  \/ Begins
         \/ \E k \in Slots : Resumes(k)
         \/ \E k \in Slots : Request(k) \/ Check(k)
         \/ Elsewhere
<1>1. ASSUME NEW k \in Slots, Start(k)
      PROVE  Begins
  BY <1>1 DEF Start, Begins
<1>2. ASSUME NEW k \in Slots, Answer(k) \/ Timer(k)
      PROVE  Resumes(k)
  BY <1>2 DEF Answer, Timer, Resumes, InProgress
<1> QED
  BY <1>1, <1>2 DEF Next, Continue, Elsewhere

LEMMA ElsewhereLeaves ==
  ASSUME Elsewhere
  PROVE  UNCHANGED <<card, busy, acts>>
BY DEF Elsewhere, Type, Choose, Poll, Feed, LoadAgain, Land, ServeLoad,
       BreakLoad, Arrive

LEMMA ElsewhereTyped ==
  ASSUME Typed, Elsewhere
  PROVE  /\ router' \in SUBSET Ids /\ jobs' \in SUBSET Ids
         /\ shown' \in SUBSET Ids
         /\ loaded' \in BOOLEAN /\ subject' \in Items /\ about' \in Items
         /\ draft' \in {"clean", "typed"}
         /\ loads' \in [Readings -> ReadingType]
         /\ faults' \in 0 .. MaxFaults
<1>1. Open \in ReadingType /\ [Open EXCEPT !.about = "b"] \in ReadingType
      /\ Idle \in ReadingType
  BY DEF Typed, Open, Idle, ReadingType, Items
<1>2. CASE Type
  BY <1>2 DEF Type, Typed
<1>3. CASE Choose
  BY <1>1, <1>3 DEF Choose, Typed, Items
<1>4. ASSUME NEW when, LoadAgain(when)
      PROVE  loads' \in [Readings -> ReadingType]
             /\ UNCHANGED <<router, jobs, shown, loaded, subject, about, draft,
                            faults>>
  BY <1>1, <1>4 DEF LoadAgain, Typed
<1>5. ASSUME NEW id \in jobs, Land(id)
      PROVE  /\ router' \in SUBSET Ids /\ jobs' \in SUBSET Ids
             /\ UNCHANGED <<shown, loaded, subject, about, draft, loads, faults>>
  BY <1>5 DEF Land, Typed
<1>6. ASSUME NEW l \in Readings, ServeLoad(l)
      PROVE  /\ loads' \in [Readings -> ReadingType]
             /\ UNCHANGED <<router, jobs, shown, loaded, subject, about, draft,
                            faults>>
  <2>1. [loads[l] EXCEPT !.at = "served", !.got = router] \in ReadingType
    BY DEF Typed, ReadingType
  <2> QED
    BY <1>6, <2>1 DEF ServeLoad, Typed
<1>7. ASSUME NEW l \in Readings, BreakLoad(l)
      PROVE  /\ loads' \in [Readings -> ReadingType] /\ faults' \in 0 .. MaxFaults
             /\ UNCHANGED <<router, jobs, shown, loaded, subject, about, draft>>
  <2>1. [loads[l] EXCEPT !.at = "served", !.ans = "thrown"] \in ReadingType
    BY DEF Typed, ReadingType
  <2>2. faults' \in 0 .. MaxFaults
    BY <1>7, BoundsAreNumbers DEF BreakLoad, Fault, Typed
  <2> QED
    BY <1>7, <2>1, <2>2 DEF BreakLoad, Typed
<1>8. ASSUME NEW l \in Readings, Arrive(l)
      PROVE  /\ loads' \in [Readings -> ReadingType] /\ shown' \in SUBSET Ids
             /\ loaded' \in BOOLEAN /\ about' \in Items
             /\ draft' \in {"clean", "typed"}
             /\ UNCHANGED <<router, jobs, subject, faults>>
  <2>1. loads[l] \in ReadingType
    BY DEF Typed
  <2>2. loads[l].got \in SUBSET Ids /\ loads[l].about \in Items
    BY <2>1 DEF ReadingType
  <2>3. Apart(shown) \subseteq shown
    BY DEF Apart
  <2>4. shown' \in SUBSET Ids
    BY <1>8, <2>2, <2>3 DEF Arrive, Typed
  <2>5. loaded' \in BOOLEAN
    BY <1>8 DEF Arrive
  <2>6. about' \in Items /\ draft' \in {"clean", "typed"}
    BY <1>8, <2>2 DEF Arrive, Typed
  <2> QED
    BY <1>1, <1>8, <2>4, <2>5, <2>6 DEF Arrive, Typed
<1> QED
  BY <1>2, <1>3, <1>4, <1>5, <1>6, <1>7, <1>8 DEF Elsewhere, Poll, Feed, Typed

LEMMA TypedInit ==
  ASSUME Init
  PROVE  Typed
<1>1. Unused \in SlotType
  <2>1. "" \in Names
    BY DEF Names
  <2> QED
    BY <2>1 DEF Unused, SlotType, Ids, Under
<1>2. Idle \in ReadingType /\ Open \in ReadingType
  BY DEF Init, Idle, Open, ReadingType, Ids, Items
<1>3. acts = [k \in Slots |-> Unused] /\ \A k \in Slots : acts[k].at = "unused"
  BY DEF Init, Unused
<1>4. loads \in [Readings -> ReadingType]
  BY <1>2 DEF Init
<1>5. loaded \in BOOLEAN
  BY DEF Init
<1> QED
  BY <1>1, <1>3, <1>4, <1>5, BoundsAreNumbers DEF Init, Typed, Placed, Items, Ids

LEMMA TypedStep ==
  ASSUME Typed, [Next]_vars
  PROVE  Typed'
<1>1. CASE Begins
  <2>1. PICK k \in Slots, name \in DOMAIN card.acts :
          \E item \in ItemsOf(k, card.acts[name]) : Begin(k, name, item)
    BY <1>1 DEF Begins
  <2>2. PICK item \in ItemsOf(k, card.acts[name]) : Begin(k, name, item)
    BY <2>1
  <2>3. /\ Begun(k, name, item) /\ card' = card /\ WellFormed(card.acts[name])
        /\ busy' \in SUBSET (FlagNames \X (Items \union {"any"}))
        /\ shown' \in SUBSET Ids /\ draft' \in {"clean", "typed"}
        /\ UNCHANGED <<router, jobs, loaded, subject, about, loads, faults>>
    BY <2>2, BeginBegins
  <2>4. PICK slot \in SlotType :
          /\ acts' = [acts EXCEPT ![k] = slot]
          /\ slot.name = name /\ slot.pc = 1
    BY <2>3 DEF Begun
  <2>5. 1 \in 1 .. Len(card.acts[name].steps)
    <3>1. /\ card.acts[name].steps \in Seq(ScriptSteps)
          /\ card.acts[name].steps # <<>>
      BY <2>3 DEF WellFormed
    <3> QED
      BY <3>1
  <2>6. ASSUME NEW j \in Slots
        PROVE  Placed(j)'
    BY <2>3, <2>4, <2>5 DEF Placed, ActOf, Typed
  <2> QED
    BY <2>3, <2>4, <2>6 DEF Typed
<1>2. CASE \E k \in Slots : Resumes(k)
  <2>1. PICK k \in Slots : Resumes(k)
    BY <1>2
  <2>2. /\ Continued(k) /\ card' = card
        /\ shown' \in SUBSET Ids /\ draft' \in {"clean", "typed"}
        /\ loads' = loads \/ loads' = [loads EXCEPT ![k] = Open]
        /\ UNCHANGED <<router, jobs, loaded, subject, about, faults>>
        /\ busy' = Lowered(k, EffectsOf(k))
             \/ \E i \in 1 .. Len(ActOf(k).steps) :
                  busy' = Phase(Lowered(k, EffectsOf(k)), ActOf(k).steps[i])
    BY <2>1, ResumeContinues
  <2>3. PICK slot \in SlotType :
          /\ acts' = [acts EXCEPT ![k] = slot] /\ slot.name = acts[k].name
          /\ slot.pc \in 1 .. Len(ActOf(k).steps)
    BY <2>2 DEF Continued
  <2>4. acts[k].name \in DOMAIN card.acts
    BY <2>1 DEF Resumes, InProgress, Typed, Placed
  <2>5. ASSUME NEW j \in Slots
        PROVE  Placed(j)'
    BY <2>2, <2>3, <2>4 DEF Placed, ActOf, Typed
  <2>6. busy' \in SUBSET (FlagNames \X (Items \union {"any"}))
    <3>1. Lowered(k, EffectsOf(k))
            \in SUBSET (FlagNames \X (Items \union {"any"}))
      BY DEF Lowered, Down, Rest, Typed
    <3> QED
      BY <2>2, <2>4, <3>1, FlagSets, BusyTyped DEF Phase
  <2>7. loads' \in [Readings -> ReadingType]
    <3>1. Open \in ReadingType
      BY DEF Open, Idle, ReadingType, Typed, Ids
    <3> QED
      BY <2>2, <3>1, ReadingNames DEF Typed
  <2> QED
    BY <2>2, <2>3, <2>5, <2>6, <2>7 DEF Typed
<1>3. CASE \E k \in Slots : Request(k) \/ Check(k)
  <2>1. PICK k \in Slots : Request(k) \/ Check(k)
    BY <1>3
  <2>2. /\ Moves(k) /\ router' \in SUBSET Ids /\ jobs' \in SUBSET Ids
        /\ UNCHANGED <<shown, loaded, subject, about, loads>>
        /\ faults' \in 0 .. MaxFaults
    BY <2>1, RequestMoves, CheckMoves DEF Typed
  <2>3. PICK slot \in SlotType :
          /\ acts' = [acts EXCEPT ![k] = slot] /\ slot.at \in Under
          /\ slot.name = acts[k].name /\ slot.pc = acts[k].pc
    BY <2>2 DEF Moves
  <2>4. ASSUME NEW j \in Slots
        PROVE  Placed(j)'
    BY <2>2, <2>3 DEF Placed, ActOf, Typed, Moves, InProgress
  <2> QED
    BY <2>2, <2>3, <2>4 DEF Typed, Moves
<1>4. CASE Elsewhere
  BY <1>4, ElsewhereLeaves, ElsewhereTyped DEF Typed, Placed, ActOf
<1>5. CASE UNCHANGED vars
  BY <1>5 DEF vars, Typed, Placed, ActOf
<1> QED
  BY <1>1, <1>2, <1>3, <1>4, <1>5, StepKinds

(* The variables of the cards keep their types: every act started is one   *)
(* of the card's and stands at a call of its script.                       *)
THEOREM CardsTyped == Spec => []TypeOK
<1>1. Typed => TypeOK
  <2> SUFFICES ASSUME Typed PROVE TypeOK
    OBVIOUS
  <2>1. \A flag \in busy : flag[2] \in Items \union {"any"}
    BY DEF Typed
  <2>2. ASSUME NEW k \in Slots
        PROVE  /\ acts[k].at \in {"unused", "sent", "served", "timer", "ended"}
               /\ acts[k].at # "unused" => acts[k].pc \in 1 .. Len(ActOf(k).steps)
               /\ acts[k].got \subseteq Slots \X Nat
    BY DEF Typed, SlotType, Placed, Under, Ids
  <2>3. \A l \in Readings : loads[l].at \in {"idle", "sent", "served"}
    BY DEF Typed, ReadingType
  <2> QED
    BY <2>1, <2>2, <2>3 DEF Typed, TypeOK, Ids
<1> QED
  BY <1>1, TypedInit, TypedStep, PTL DEF Spec

-----------------------------------------------------------------------------
(* A failure has been told as soon as it is known.                         *)
ToldInv ==
  \A k \in Slots :
    acts[k].at # "unused" /\ acts[k].failed
      => <<card.name, acts[k].name>> \in Silent \/ acts[k].said

(* What is shown is about the subject, or the answer for the subject is on *)
(* its way, or that one failed and nothing is shown.                       *)
SubjectInv ==
  /\ "subject" \notin card.load
       => /\ subject = "a" /\ about = "a"
          /\ \A l \in Readings : loads[l].about = "a"
  /\ \/ about = subject \/ ~loaded
     \/ loads[Choice].at # "idle" /\ loads[Choice].about = subject

LEMMA ToldStep ==
  ASSUME Typed, ToldInv, [Next]_vars
  PROVE  ToldInv'
<1>1. CASE Begins
  <2>1. PICK k \in Slots, name \in DOMAIN card.acts :
          \E item \in ItemsOf(k, card.acts[name]) : Begin(k, name, item)
    BY <1>1 DEF Begins
  <2>2. PICK slot \in SlotType :
          acts' = [acts EXCEPT ![k] = slot] /\ ~slot.failed /\ card' = card
    BY <2>1, BeginBegins DEF Begun
  <2> QED
    BY <2>2 DEF ToldInv, Typed
<1>2. CASE \E k \in Slots : Resumes(k)
  <2>1. PICK k \in Slots : Resumes(k)
    BY <1>2
  <2>2. Continued(k) /\ card' = card
    BY <2>1, ResumeContinues
  <2>3. PICK slot \in SlotType :
          /\ acts' = [acts EXCEPT ![k] = slot] /\ slot.name = acts[k].name
          /\ slot.failed
               => acts[k].failed \/ (Changes(StepOf(k)) /\ acts[k].ans # "ok")
          /\ slot.said = (acts[k].said \/ "bad" \in EffectsOf(k))
    BY <2>2 DEF Continued
  <2>4. acts[k].at # "unused"
    BY <2>1 DEF Resumes, InProgress
  <2>5. ASSUME slot.failed, <<card.name, slot.name>> \notin Silent
        PROVE  slot.said
    <3>1. CASE acts[k].failed
      BY <2>3, <2>4, <2>5, <3>1 DEF ToldInv
    <3>2. CASE Changes(StepOf(k)) /\ acts[k].ans # "ok"
      <4>1. EffectsOf(k) = StepOf(k).thrown
        BY <3>2 DEF EffectsOf
      <4>2. acts[k].name \in DOMAIN card.acts /\ card \in Catalogue
        BY <2>4 DEF Typed, Placed
      <4>3. acts[k].pc \in DOMAIN card.acts[acts[k].name].steps
        BY <2>4, ScriptOf DEF ActOf
      <4>4. "bad" \in StepOf(k).thrown
        BY <2>3, <2>5, <3>2, <4>2, <4>3, CatchesTell DEF StepOf, ActOf
      <4> QED
        BY <2>3, <4>1, <4>4
    <3> QED
      BY <2>3, <2>5, <3>1, <3>2
  <2> QED
    BY <2>2, <2>3, <2>5 DEF ToldInv, Typed
<1>3. CASE \E k \in Slots : Request(k) \/ Check(k)
  <2>1. PICK k \in Slots : Moves(k)
    BY <1>3, RequestMoves, CheckMoves
  <2>2. PICK slot \in SlotType :
          /\ acts' = [acts EXCEPT ![k] = slot] /\ slot.name = acts[k].name
          /\ slot.failed = acts[k].failed /\ slot.said = acts[k].said
    BY <2>1 DEF Moves
  <2>3. acts[k].at # "unused" /\ card' = card
    BY <2>1 DEF Moves, InProgress
  <2> QED
    BY <2>2, <2>3 DEF ToldInv, Typed
<1>4. CASE Elsewhere
  BY <1>4, ElsewhereLeaves DEF ToldInv
<1>5. CASE UNCHANGED vars
  BY <1>5 DEF vars, ToldInv
<1> QED
  BY <1>1, <1>2, <1>3, <1>4, <1>5, StepKinds

(* Whatever card of the catalogue it is, and however many acts overlap and *)
(* requests fail: an act one of whose changes failed has told the user by  *)
(* the time it ends, but for those in the list Silent.                     *)
THEOREM FailureToldAlways == Spec => []FailureTold
<1>1. Init => ToldInv
  <2> SUFFICES ASSUME Init PROVE ToldInv
    OBVIOUS
  <2>1. \A k \in Slots : acts[k].at = "unused"
    BY DEF Init, Unused
  <2> QED
    BY <2>1 DEF ToldInv
<1>2. Typed /\ ToldInv => FailureTold
  <2> SUFFICES ASSUME ToldInv, ~Excused(Silent), NEW k \in Slots,
                      acts[k].at = "ended", acts[k].failed
               PROVE  acts[k].said
    BY DEF FailureTold
  <2>1. k \in Used
    BY DEF Used
  <2> QED
    BY <2>1 DEF ToldInv, Excused
<1> QED
  BY <1>1, <1>2, TypedInit, TypedStep, ToldStep, PTL DEF Spec

LEMMA SubjectStep ==
  ASSUME Typed, SubjectInv, [Next]_vars
  PROVE  SubjectInv'
<1>1. CASE UNCHANGED <<card, loaded, subject, about, loads>>
  BY <1>1 DEF SubjectInv
<1>2. CASE Begins
  BY <1>1, <1>2, BeginBegins DEF Begins
<1>3. CASE \E k \in Slots : Resumes(k)
  <2>1. PICK k \in Slots : Resumes(k)
    BY <1>3
  <2>2. /\ UNCHANGED <<card, loaded, subject, about>>
        /\ loads' = loads \/ loads' = [loads EXCEPT ![k] = Open]
    BY <2>1, ResumeContinues
  <2>3. k # Choice /\ k \in Readings /\ Choice \in Readings
    BY ReadingNames
  <2>4. Open.about = subject
    BY DEF Open, Idle
  <2>5. \A l \in Readings :
          loads'[l] = loads[l] \/ (l = k /\ loads'[l].about = subject)
    BY <2>2, <2>3, <2>4 DEF Typed
  <2>6. loads'[Choice] = loads[Choice]
    BY <2>2, <2>3 DEF Typed
  <2> QED
    BY <2>2, <2>5, <2>6 DEF SubjectInv
<1>4. CASE \E k \in Slots : Request(k) \/ Check(k)
  BY <1>1, <1>4, RequestMoves, CheckMoves DEF Moves
<1>5. CASE Type \/ (\E id \in jobs : Land(id))
  BY <1>1, <1>5 DEF Type, Land
<1>6. CASE Choose
  <2>1. /\ "subject" \in card.load /\ UNCHANGED <<card, loaded, about>>
        /\ subject' = "b"
        /\ loads' = [loads EXCEPT ![Choice] = [Open EXCEPT !.about = "b"]]
    BY <1>6 DEF Choose
  <2>2. [Open EXCEPT !.about = "b"].about = "b"
        /\ [Open EXCEPT !.about = "b"].at = "sent"
    BY DEF Open, Idle
  <2>3. loads'[Choice].about = "b" /\ loads'[Choice].at = "sent"
    BY <2>1, <2>2, ReadingNames DEF Typed
  <2> QED
    BY <2>1, <2>3 DEF SubjectInv
<1>7. CASE Poll \/ Feed
  <2>1. /\ loads' = [loads EXCEPT ![Again] = Open]
        /\ UNCHANGED <<card, loaded, subject, about>>
    BY <1>7 DEF Poll, Feed, LoadAgain
  <2>2. Open.about = subject
    BY DEF Open, Idle
  <2>3. \A l \in Readings :
          loads'[l] = loads[l] \/ loads'[l].about = subject
    BY <2>1, <2>2, ReadingNames DEF Typed
  <2>4. loads'[Choice] = loads[Choice]
    BY <2>1, ReadingNames DEF Typed
  <2> QED
    BY <2>1, <2>3, <2>4 DEF SubjectInv
<1>8. ASSUME NEW l \in Readings, ServeLoad(l) \/ BreakLoad(l)
      PROVE  SubjectInv'
  <2>1. /\ UNCHANGED <<card, loaded, subject, about>>
        /\ \A m \in Readings : loads'[m].about = loads[m].about
        /\ \A m \in Readings : loads[m].at # "idle" => loads'[m].at # "idle"
    BY <1>8 DEF ServeLoad, BreakLoad, Typed, ReadingType
  <2> QED
    BY <2>1, ReadingNames DEF SubjectInv
<1>9. ASSUME NEW l \in Readings, Arrive(l)
      PROVE  SubjectInv'
  <2>1. /\ UNCHANGED <<card, subject>> /\ loads' = [loads EXCEPT ![l] = Idle]
        /\ about' = IF Wanted(l) /\ loads[l].ans = "ok"
                      THEN loads[l].about ELSE about
        /\ loaded' = ((loaded \/ (Wanted(l) /\ loads[l].ans = "ok"))
                       /\ ~(Wanted(l) /\ l = Choice /\ loads[l].ans # "ok"))
    BY <1>9 DEF Arrive
  <2>2. \A m \in Readings : loads'[m] = IF m = l THEN Idle ELSE loads[m]
    BY <2>1 DEF Typed
  <2>3. CASE "subject" \notin card.load
    <3>1. subject = "a" /\ about = "a" /\ loads[l].about = "a"
      BY <2>3 DEF SubjectInv
    <3>2. about' = "a"
      BY <2>1, <3>1
    <3>3. \A m \in Readings : loads'[m].about = "a"
      BY <2>2, <2>3 DEF SubjectInv, Idle
    <3> QED
      BY <2>1, <3>1, <3>2, <3>3 DEF SubjectInv
  <2>4. CASE "subject" \in card.load
    <3>1. "guarded" \in card.load
      BY <2>4, LateAnswersAreDropped DEF Typed
    <3>2. Wanted(l) <=> loads[l].about = subject
      BY <3>1 DEF Wanted
    <3>3. CASE Wanted(l) /\ loads[l].ans = "ok"
      BY <2>1, <2>4, <3>2, <3>3 DEF SubjectInv
    <3>4. CASE ~(Wanted(l) /\ loads[l].ans = "ok")
      <4>1. about' = about /\ (loaded' => loaded)
        BY <2>1, <3>4
      <4>2. CASE l = Choice
        <5>1. loaded' => ~Wanted(l)
          BY <2>1, <3>4, <4>2
        <5> QED
          BY <2>1, <2>4, <3>2, <4>1, <4>2, <5>1 DEF SubjectInv
      <4>3. CASE l # Choice
        <5>1. loads'[Choice] = loads[Choice]
          BY <2>2, <4>3, ReadingNames
        <5> QED
          BY <2>1, <2>4, <4>1, <5>1 DEF SubjectInv
      <4> QED
        BY <4>2, <4>3
    <3> QED
      BY <3>3, <3>4
  <2> QED
    BY <2>3, <2>4
<1>10. CASE UNCHANGED vars
  BY <1>1, <1>10 DEF vars
<1> QED
  BY <1>2, <1>3, <1>4, <1>5, <1>6, <1>7, <1>8, <1>9, <1>10, StepKinds
     DEF Elsewhere

(* A card about something the user chooses shows the last choice once      *)
(* nothing is under way, in whatever order the answers for this one and    *)
(* for the one before arrive, and whichever of them fail.                  *)
THEOREM RightSubjectAlways == Spec => []RightSubject
<1>1. Init => SubjectInv
  <2> SUFFICES ASSUME Init PROVE SubjectInv
    OBVIOUS
  <2>1. Idle.about = "a" /\ Open.about = "a"
    BY DEF Init, Idle, Open
  <2> QED
    BY <2>1 DEF Init, SubjectInv
<1>2. SubjectInv => RightSubject
  BY ReadingNames DEF SubjectInv, RightSubject, Quiet
<1> QED
  BY <1>1, <1>2, TypedInit, TypedStep, SubjectStep, PTL DEF Spec

-----------------------------------------------------------------------------
(* Act k has a call to come that the flag is there for.                    *)
LiveAt(act, pc, flag) ==
  /\ Touches(act, flag)
  /\ \E i \in pc .. Len(act.steps) : Concerns(act.steps[i], flag)
Live(k, flag) == InProgress(k) /\ LiveAt(ActOf(k), acts[k].pc, flag)

(* A flag that guards every act that touches it is up as long as one of    *)
(* them has such a call to come, and no two of them have.                  *)
FlagsHeld ==
  ~Excused(SentTwice)
    => \A flag \in FlagsOf(card) :
         Guards(card, flag)
           => \A k \in Slots :
                Live(k, flag)
                  => /\ <<flag, "any">> \in busy
                     /\ \A j \in Slots : Live(j, flag) => j = k

UpFor(k, flag) ==
  <<flag, IF flag = "cycle" THEN "any" ELSE acts[k].item>> \in busy

(* As long as an act is the only one, the flags it keeps are up, and the   *)
(* flag of useActionCycle only if it uses that.                            *)
AloneHeld ==
  /\ Used = {} => busy = {}
  /\ \A k \in Slots :
       Used = {k}
         => /\ Keeps(ActOf(k), "no cycle") => \A flag \in busy : flag[1] # "cycle"
            /\ \A flag \in FlagsOf(card) :
                 Keeps(ActOf(k), flag) /\ Live(k, flag) => UpFor(k, flag)

(* Two acts that are the only ones do not make the same change.            *)
PairHeld ==
  \A j, k \in Slots :
    /\ j # k /\ Used = {j, k} /\ ~Excused(SentTwice)
    /\ Committing(j) /\ Committing(k)
    => acts[j].name # acts[k].name \/ acts[j].item # acts[k].item

-----------------------------------------------------------------------------
(* Flags and single steps.                                                 *)

(* An answer leaves a flag up unless it frees a flag that the act touches. *)
LEMMA ResumeLeavesFlag ==
  ASSUME Typed, NEW k \in Slots, Resumes(k), NEW flag, NEW item,
         <<flag, item>> \in busy, flag = "cycle" => item = "any",
         ~(Frees(flag) \in EffectsOf(k) /\ Touches(ActOf(k), flag))
  PROVE  <<flag, item>> \in busy'
<1>1. acts[k].at # "unused"
  BY DEF Resumes, InProgress
<1>2. /\ WellFormed(ActOf(k)) /\ EffectsOf(k) \in Outcomes(StepOf(k))
      /\ acts[k].pc \in DOMAIN ActOf(k).steps
  BY <1>1, ScriptOf
<1>3. <<flag, item>> \in Lowered(k, EffectsOf(k))
  <2>1. CASE flag = "cycle"
    <3>1. "free" \notin EffectsOf(k)
      BY <1>2, <2>1 DEF Frees, Touches, Lowers, StepOf
    <3>2. "cycle" \notin ActOf(k).shares \union {ActOf(k).flag}
      BY <1>2 DEF WellFormed
    <3> QED
      BY <2>1, <3>1, <3>2 DEF Lowered, Rest
  <2>2. CASE flag # "cycle"
    <3>1. "idle" \in EffectsOf(k)
            => flag \notin ActOf(k).shares \union {ActOf(k).flag}
      BY <2>2 DEF Frees, Touches
    <3>2. <<flag, item>> \in Down(busy, "cycle")
      BY <2>2 DEF Down
    <3> QED
      BY <3>1, <3>2 DEF Lowered, Rest
  <2> QED
    BY <2>1, <2>2
<1>4. \A step : <<flag, item>> \in Phase(Lowered(k, EffectsOf(k)), step)
  BY <1>3 DEF Phase, Up, Down
<1> QED
  BY <1>3, <1>4, ResumeContinues

(* An act that goes on to a call a flag is there for stood before it, and  *)
(* has not lowered the flag.                                               *)
LEMMA ResumeLive ==
  ASSUME Typed, NEW k \in Slots, Resumes(k), NEW flag, Live(k, flag)'
  PROVE  /\ Live(k, flag)
         /\ LowersLast(ActOf(k), flag) => Frees(flag) \notin EffectsOf(k)
<1> DEFINE act == ActOf(k)
<1>1. acts[k].at # "unused" /\ InProgress(k)
  BY DEF Resumes, InProgress
<1>2. /\ Len(act.steps) \in Nat /\ acts[k].pc \in 1 .. Len(act.steps)
      /\ DOMAIN act.steps = 1 .. Len(act.steps)
      /\ EffectsOf(k) \in Outcomes(act.steps[acts[k].pc])
  BY <1>1, ScriptOf DEF StepOf
<1>3. Continued(k) /\ card' = card
  BY ResumeContinues
<1>4. PICK slot \in SlotType :
        /\ acts' = [acts EXCEPT ![k] = slot] /\ slot.name = acts[k].name
        /\ slot.at \in Under
             => \/ "last" \in EffectsOf(k) /\ slot.pc = Len(act.steps)
                \/ "next" \in EffectsOf(k) /\ slot.pc = acts[k].pc + 1
  BY <1>3 DEF Continued
<1>5. acts'[k] = slot /\ ActOf(k)' = act
  BY <1>3, <1>4 DEF ActOf, Typed
<1>6. slot.at \in Under /\ LiveAt(act, slot.pc, flag)
  BY <1>5 DEF Live, InProgress, Under
<1>7. PICK i \in slot.pc .. Len(act.steps) : Concerns(act.steps[i], flag)
  BY <1>6 DEF LiveAt
<1>8. Touches(act, flag)
  BY <1>6 DEF LiveAt
<1>9. i \in acts[k].pc .. Len(act.steps)
  BY <1>2, <1>4, <1>6, <1>7
<1>10. Live(k, flag)
  BY <1>1, <1>7, <1>8, <1>9 DEF Live, LiveAt
<1>11. ASSUME LowersLast(act, flag), Frees(flag) \in EffectsOf(k)
       PROVE  FALSE
  <2>1. /\ "next" \in EffectsOf(k)
             => \A j \in acts[k].pc + 1 .. Len(act.steps) :
                  ~Concerns(act.steps[j], flag)
        /\ "last" \in EffectsOf(k)
             => ~Concerns(act.steps[Len(act.steps)], flag)
    BY <1>2, <1>11 DEF LowersLast
  <2>2. CASE "last" \in EffectsOf(k) /\ slot.pc = Len(act.steps)
    <3>1. i = Len(act.steps)
      BY <1>2, <1>7, <2>2
    <3> QED
      BY <1>7, <2>1, <2>2, <3>1
  <2>3. CASE "next" \in EffectsOf(k) /\ slot.pc = acts[k].pc + 1
    BY <1>7, <2>1, <2>3
  <2> QED
    BY <1>4, <1>6, <2>2, <2>3
<1> QED
  BY <1>10, <1>11

(* What the other slots do while act k is begun, goes on or moves.         *)
LEMMA OthersLive ==
  ASSUME Typed, NEW k \in Slots, NEW slot, acts' = [acts EXCEPT ![k] = slot],
         card' = card, NEW j \in Slots, j # k, NEW flag
  PROVE  Live(j, flag)' <=> Live(j, flag)
<1>1. acts'[j] = acts[j] /\ ActOf(j)' = ActOf(j)
  BY DEF Typed, ActOf
<1> QED
  BY <1>1 DEF Live, InProgress

(* Moving on without an answer changes nothing of that.                    *)
LEMMA MovesLive ==
  ASSUME Typed, NEW k \in Slots, Moves(k), NEW j \in Slots, NEW flag
  PROVE  Live(j, flag)' <=> Live(j, flag)
<1>1. PICK slot \in SlotType :
        /\ acts' = [acts EXCEPT ![k] = slot] /\ slot.at \in Under
        /\ slot.name = acts[k].name /\ slot.pc = acts[k].pc
  BY DEF Moves
<1>2. card' = card /\ InProgress(k)
  BY DEF Moves
<1>3. CASE j = k
  <2>1. acts'[k] = slot /\ ActOf(k)' = ActOf(k) /\ acts'[k].pc = acts[k].pc
    BY <1>1, <1>2 DEF Typed, ActOf
  <2> QED
    BY <1>1, <1>2, <1>3, <2>1 DEF Live, InProgress, Under
<1>4. CASE j # k
  BY <1>1, <1>2, <1>4, OthersLive
<1> QED
  BY <1>3, <1>4

(* Acts stay in use under their name, on their item.                       *)
LEMMA UsedStays ==
  ASSUME Typed, [Next]_vars
  PROVE  /\ card' = card
         /\ \A k \in Used : /\ k \in Used' /\ acts'[k].name = acts[k].name
                           /\ acts'[k].item = acts[k].item
<1>1. CASE Begins
  <2>1. PICK k \in Slots, name \in DOMAIN card.acts :
          /\ acts[k].at = "unused"
          /\ \E item \in ItemsOf(k, card.acts[name]) : Begin(k, name, item)
    BY <1>1 DEF Begins
  <2>2. card' = card /\ \E slot : acts' = [acts EXCEPT ![k] = slot]
    BY <2>1, BeginBegins DEF Begun
  <2> QED
    BY <2>1, <2>2 DEF Used, Typed
<1>2. CASE \E k \in Slots : Resumes(k)
  <2>1. PICK k \in Slots : Resumes(k)
    BY <1>2
  <2>2. card' = card /\ Continued(k)
    BY <2>1, ResumeContinues
  <2>3. PICK slot \in SlotType :
          /\ acts' = [acts EXCEPT ![k] = slot]
          /\ slot.name = acts[k].name /\ slot.item = acts[k].item
          /\ slot.at # "unused"
    BY <2>2 DEF Continued, Under
  <2> QED
    BY <2>2, <2>3 DEF Used, Typed
<1>3. CASE \E k \in Slots : Request(k) \/ Check(k)
  <2>1. PICK k \in Slots : Moves(k)
    BY <1>3, RequestMoves, CheckMoves
  <2>2. PICK slot \in SlotType :
          /\ acts' = [acts EXCEPT ![k] = slot]
          /\ slot.name = acts[k].name /\ slot.item = acts[k].item
          /\ slot.at # "unused"
    BY <2>1 DEF Moves, Under
  <2> QED
    BY <2>1, <2>2 DEF Used, Typed, Moves
<1>4. CASE Elsewhere
  BY <1>4, ElsewhereLeaves DEF Used
<1>5. CASE UNCHANGED vars
  BY <1>5 DEF vars, Used
<1> QED
  BY <1>1, <1>2, <1>3, <1>4, <1>5, StepKinds

LEMMA NoneTwiceBefore ==
  ASSUME Typed, [Next]_vars, ~Excused(SentTwice)'
  PROVE  ~Excused(SentTwice)
BY UsedStays DEF Excused

(* Only a step that begins an act changes which slots are in use.          *)
LEMMA UsedStaysSo ==
  ASSUME Typed, NEW k \in Slots, Resumes(k) \/ Moves(k)
  PROVE  Used' = Used /\ k \in Used
<1>1. acts[k].at # "unused"
  BY DEF Resumes, Moves, InProgress
<1>2. PICK slot \in SlotType :
        acts' = [acts EXCEPT ![k] = slot] /\ slot.at # "unused"
  BY ResumeContinues DEF Continued, Moves, Under
<1> QED
  BY <1>1, <1>2 DEF Used, Typed

(* Beginning an act leaves the flags up that it does not touch, and raises *)
(* its own.                                                                *)
LEMMA BeginFlags ==
  ASSUME Typed, NEW k \in Slots, NEW name \in DOMAIN card.acts,
         NEW item \in ItemsOf(k, card.acts[name]), Begin(k, name, item),
         NEW flag
  PROVE  /\ ~Touches(card.acts[name], flag)
              => \A it : <<flag, it>> \in busy /\ (flag = "cycle" => it = "any")
                        => <<flag, it>> \in busy'
         /\ flag # "none" /\ Raises(card.acts[name], flag)
              => <<flag, IF flag = "cycle" THEN "any" ELSE item>> \in busy'
<1> DEFINE act == card.acts[name]
           step == act.steps[1]
           low == Rest(busy, act)
           up == Up(low, act.flag, item)
<1>1. busy' = Phase(up, step) /\ WellFormed(act)
  BY BeginBegins
<1>2. ASSUME ~Touches(act, flag), NEW it, <<flag, it>> \in busy,
             flag = "cycle" => it = "any"
      PROVE  <<flag, it>> \in busy'
  <2>1. flag \notin act.shares \union {act.flag}
    BY <1>1, <1>2 DEF Touches, WellFormed
  <2>2. <<flag, it>> \in low
    BY <1>2, <2>1 DEF Rest
  <2>3. <<flag, it>> \in up
    BY <2>1, <2>2 DEF Up, Down
  <2> QED
    BY <1>1, <1>2, <2>3 DEF Phase, Up, Down
<1>3. ASSUME flag # "none", Raises(act, flag)
      PROVE  <<flag, IF flag = "cycle" THEN "any" ELSE item>> \in busy'
  <2>1. CASE flag = "cycle"
    BY <1>1, <1>3, <2>1 DEF Raises, Phase, Up
  <2>2. CASE flag # "cycle"
    <3>1. <<flag, item>> \in up
      BY <1>3, <2>2 DEF Raises, Up
    <3> QED
      BY <1>1, <2>2, <3>1 DEF Phase, Up, Down
  <2> QED
    BY <2>1, <2>2
<1> QED
  BY <1>2, <1>3

-----------------------------------------------------------------------------
(* The steps keep the flags up.                                            *)

(* The act of a slot is held by what a flag that guards the card demands.  *)
LEMMA GuardedAct ==
  ASSUME NEW flag, Guards(card, flag), ~Excused(SentTwice), Typed,
         NEW k \in Used, Touches(ActOf(k), flag)
  PROVE  LowersLast(ActOf(k), flag) /\ flag \notin {"none", "no cycle"}
<1>1. acts[k].name \in DOMAIN card.acts
  BY DEF Typed, Placed, Used
<1>2. <<card.name, acts[k].name>> \notin SentTwice
  BY DEF Excused
<1> QED
  BY <1>1, <1>2 DEF Guards, ActOf

LEMMA FlagsHeldStep ==
  ASSUME Typed, FlagsHeld, [Next]_vars
  PROVE  FlagsHeld'
<1> SUFFICES ASSUME ~Excused(SentTwice)', NEW flag \in FlagsOf(card),
                    Guards(card, flag), NEW k \in Slots, Live(k, flag)'
             PROVE  /\ <<flag, "any">> \in busy'
                    /\ \A j \in Slots : Live(j, flag)' => j = k
  BY UsedStays DEF FlagsHeld
<1>1. /\ ~Excused(SentTwice)
      /\ \A m \in Slots :
           Live(m, flag)
             => /\ <<flag, "any">> \in busy
                /\ \A j \in Slots : Live(j, flag) => j = m
  BY NoneTwiceBefore DEF FlagsHeld
<1>2. CASE Begins
  <2>1. PICK b \in Slots, name \in DOMAIN card.acts :
          \E item \in ItemsOf(b, card.acts[name]) : Begin(b, name, item)
    BY <1>2 DEF Begins
  <2>2. PICK item \in ItemsOf(b, card.acts[name]) : Begin(b, name, item)
    BY <2>1
  <2>3. /\ Begun(b, name, item) /\ card' = card /\ ~Disabled(name, item)
        /\ ~card.acts[name].keyed => item = "any"
    BY <2>2, BeginBegins
  <2>4. PICK slot \in SlotType :
          /\ acts' = [acts EXCEPT ![b] = slot]
          /\ slot.name = name /\ slot.at \in Under
    BY <2>3 DEF Begun
  <2>5. acts'[b] = slot /\ ActOf(b)' = card.acts[name]
    BY <2>3, <2>4 DEF ActOf, Typed
  <2>6. \A j \in Slots : j # b => (Live(j, flag)' <=> Live(j, flag))
    BY <2>3, <2>4, OthersLive
  <2>7. CASE ~Touches(card.acts[name], flag)
    <3>1. ~Live(b, flag)'
      BY <2>5, <2>7 DEF Live, LiveAt
    <3>2. k # b /\ Live(k, flag)
      BY <2>6, <3>1
    <3>3. <<flag, "any">> \in busy'
      BY <1>1, <2>2, <2>7, <3>2, BeginFlags
    <3> QED
      BY <1>1, <2>6, <3>1, <3>2, <3>3
  <2>8. CASE Touches(card.acts[name], flag)
    <3>1. <<card.name, name>> \notin SentTwice
      <4>1. b \in Used'
        BY <2>4, <2>5 DEF Used, Under
      <4> QED
        BY <2>3, <2>4, <2>5, <4>1 DEF Excused
    <3>2. /\ {flag} \in card.controls[name] /\ Raises(card.acts[name], flag)
          /\ flag \notin {"none", "no cycle"}
          /\ flag # "cycle" => item = "any"
      BY <2>3, <2>8, <3>1 DEF Guards
    <3>3. <<flag, "any">> \notin busy
      BY <2>3, <3>2 DEF Disabled, Raised
    <3>4. \A j \in Slots : ~Live(j, flag)
      BY <1>1, <3>3
    <3>5. <<flag, "any">> \in busy'
      BY <2>2, <3>2, BeginFlags
    <3> QED
      BY <2>6, <3>4, <3>5
  <2> QED
    BY <2>7, <2>8
<1>3. CASE \E r \in Slots : Resumes(r)
  <2>1. PICK r \in Slots : Resumes(r)
    BY <1>3
  <2>2. Continued(r) /\ card' = card /\ InProgress(r) /\ r \in Used
    BY <2>1, ResumeContinues DEF Resumes, InProgress, Used
  <2>3. PICK slot : acts' = [acts EXCEPT ![r] = slot]
    BY <2>2 DEF Continued
  <2>4. \A j \in Slots : Live(j, flag)' => Live(j, flag)
    BY <2>1, <2>2, <2>3, OthersLive, ResumeLive
  <2>5. ~(Frees(flag) \in EffectsOf(r) /\ Touches(ActOf(r), flag))
    <3>1. CASE r = k
      BY <1>1, <2>1, <2>2, <3>1, GuardedAct, ResumeLive
    <3>2. CASE r # k
      <4> SUFFICES ASSUME Frees(flag) \in EffectsOf(r), Touches(ActOf(r), flag)
                   PROVE  Live(r, flag)
        BY <1>1, <2>4, <3>2
      <4>1. /\ acts[r].pc \in acts[r].pc .. Len(ActOf(r).steps)
            /\ EffectsOf(r) \in Outcomes(StepOf(r))
        BY <2>2, ScriptOf DEF Used
      <4>2. Concerns(ActOf(r).steps[acts[r].pc], flag)
        BY <4>1 DEF Concerns, Lowers, StepOf
      <4> QED
        BY <2>2, <4>1, <4>2 DEF Live, LiveAt
    <3> QED
      BY <3>1, <3>2
  <2>6. <<flag, "any">> \in busy'
    BY <1>1, <2>1, <2>4, <2>5, ResumeLeavesFlag
  <2> QED
    BY <1>1, <2>4, <2>6
<1>4. CASE \E r \in Slots : Request(r) \/ Check(r)
  <2>1. PICK r \in Slots : Moves(r)
    BY <1>4, RequestMoves, CheckMoves
  <2>2. \A j \in Slots : Live(j, flag)' <=> Live(j, flag)
    BY <2>1, MovesLive
  <2> QED
    BY <1>1, <2>1, <2>2 DEF Moves
<1>5. CASE UNCHANGED <<card, busy, acts>>
  <2>1. \A j \in Slots : Live(j, flag)' <=> Live(j, flag)
    BY <1>5 DEF Live, InProgress, ActOf
  <2> QED
    BY <1>1, <1>5, <2>1
<1>6. CASE UNCHANGED vars
  BY <1>5, <1>6 DEF vars
<1> QED
  BY <1>2, <1>3, <1>4, <1>5, <1>6, StepKinds, ElsewhereLeaves

LEMMA CardFlags ==
  ASSUME Typed, NEW flag \in FlagsOf(card)
  PROVE  flag # "no cycle"
BY ScriptsAreWellFormed DEF Typed, FlagsOf, WellFormed

(* The parts of AloneHeld about act k.                                     *)
NoCycleUp(k) ==
  Keeps(ActOf(k), "no cycle") => \A flag \in busy : flag[1] # "cycle"
KeptUp(k) ==
  \A flag \in FlagsOf(card) :
    Keeps(ActOf(k), flag) /\ Live(k, flag) => UpFor(k, flag)

LEMMA AloneBegins ==
  ASSUME Typed, busy = {}, NEW k \in Slots, NEW name \in DOMAIN card.acts,
         NEW item \in ItemsOf(k, card.acts[name]), Begin(k, name, item)
  PROVE  NoCycleUp(k)' /\ KeptUp(k)'
<1> DEFINE act == card.acts[name]
<1>1. /\ Begun(k, name, item) /\ card' = card /\ WellFormed(act)
      /\ busy' = Phase(Up(Rest(busy, act), act.flag, item), act.steps[1])
  BY BeginBegins
<1>2. PICK slot \in SlotType :
        /\ acts' = [acts EXCEPT ![k] = slot]
        /\ slot.name = name /\ slot.item = item
  BY <1>1 DEF Begun
<1>3. ActOf(k)' = act /\ acts'[k].item = item
  BY <1>1, <1>2 DEF ActOf, Typed
<1>4. ASSUME Keeps(act, "no cycle")
      PROVE  \A flag \in busy' : flag[1] # "cycle"
  <2>1. act.steps[1].cycle = "no"
    <3>1. act.steps \in Seq(ScriptSteps) /\ act.steps # <<>>
      BY <1>1 DEF WellFormed
    <3>2. 1 \in DOMAIN act.steps
      BY <3>1
    <3> QED
      BY <1>4, <3>2 DEF Keeps
  <2>2. busy' \subseteq {<<act.flag, item>>}
    BY <1>1, <2>1 DEF Phase, Up, Down, Rest
  <2>3. act.flag # "cycle"
    BY <1>1 DEF WellFormed
  <2> QED
    BY <2>2, <2>3
<1>5. ASSUME NEW flag \in FlagsOf(card), Keeps(act, flag)
      PROVE  <<flag, IF flag = "cycle" THEN "any" ELSE item>> \in busy'
  <2>1. flag # "none" /\ Raises(act, flag)
    BY <1>5, CardFlags DEF Keeps
  <2> QED
    BY <2>1, BeginFlags
<1> QED
  BY <1>1, <1>3, <1>4, <1>5 DEF NoCycleUp, KeptUp, UpFor

LEMMA AloneResumes ==
  ASSUME Typed, NEW k \in Slots, Resumes(k), NoCycleUp(k), KeptUp(k)
  PROVE  NoCycleUp(k)' /\ KeptUp(k)'
<1>1. /\ Continued(k) /\ card' = card
      /\ busy' = Lowered(k, EffectsOf(k))
           \/ \E i \in 1 .. Len(ActOf(k).steps) :
                busy' = Phase(Lowered(k, EffectsOf(k)), ActOf(k).steps[i])
  BY ResumeContinues
<1>2. PICK slot \in SlotType :
        /\ acts' = [acts EXCEPT ![k] = slot]
        /\ slot.name = acts[k].name /\ slot.item = acts[k].item
  BY <1>1 DEF Continued
<1>3. ActOf(k)' = ActOf(k) /\ acts'[k].item = acts[k].item
  BY <1>1, <1>2 DEF ActOf, Typed
<1>4. DOMAIN ActOf(k).steps = 1 .. Len(ActOf(k).steps)
  BY ScriptOf DEF Resumes, InProgress
<1>5. ASSUME Keeps(ActOf(k), "no cycle")
      PROVE  \A flag \in busy' : flag[1] # "cycle"
  <2>1. Lowered(k, EffectsOf(k)) \subseteq busy
    BY DEF Lowered, Rest, Down
  <2>2. \A i \in 1 .. Len(ActOf(k).steps) : ActOf(k).steps[i].cycle = "no"
    BY <1>4, <1>5 DEF Keeps
  <2>3. busy' \subseteq busy
    BY <1>1, <2>1, <2>2 DEF Phase
  <2> QED
    BY <1>5, <2>3 DEF NoCycleUp
<1>6. ASSUME NEW flag \in FlagsOf(card), Keeps(ActOf(k), flag), Live(k, flag)'
      PROVE  <<flag, IF flag = "cycle" THEN "any" ELSE acts[k].item>> \in busy'
  <2>1. LowersLast(ActOf(k), flag)
    BY <1>6, CardFlags DEF Keeps
  <2>2. Live(k, flag) /\ Frees(flag) \notin EffectsOf(k)
    BY <1>6, <2>1, ResumeLive
  <2>3. <<flag, IF flag = "cycle" THEN "any" ELSE acts[k].item>> \in busy
    BY <1>6, <2>2 DEF KeptUp, UpFor
  <2> QED
    BY <2>2, <2>3, ResumeLeavesFlag
<1> QED
  BY <1>1, <1>3, <1>5, <1>6 DEF NoCycleUp, KeptUp, UpFor

LEMMA AloneStep ==
  ASSUME Typed, AloneHeld, [Next]_vars
  PROVE  AloneHeld'
<1>1. /\ Used = {} => busy = {}
      /\ \A k \in Slots : Used = {k} => NoCycleUp(k) /\ KeptUp(k)
  BY DEF AloneHeld, NoCycleUp, KeptUp
<1> SUFFICES /\ Used' = {} => busy' = {}
             /\ \A k \in Slots : Used' = {k} => NoCycleUp(k)' /\ KeptUp(k)'
  BY DEF AloneHeld, NoCycleUp, KeptUp
<1>2. CASE Begins
  <2>1. PICK b \in Slots, name \in DOMAIN card.acts :
          /\ acts[b].at = "unused"
          /\ \E item \in ItemsOf(b, card.acts[name]) : Begin(b, name, item)
    BY <1>2 DEF Begins
  <2>2. PICK item \in ItemsOf(b, card.acts[name]) : Begin(b, name, item)
    BY <2>1
  <2>3. PICK slot \in SlotType :
          acts' = [acts EXCEPT ![b] = slot] /\ slot.at # "unused"
    BY <2>2, BeginBegins DEF Begun, Under
  <2>4. b \in Used' /\ b \notin Used /\ Used \subseteq Used'
    BY <2>1, <2>3, UsedStays DEF Used, Typed
  <2>5. ASSUME NEW k \in Slots, Used' = {k}
        PROVE  NoCycleUp(k)' /\ KeptUp(k)'
    <3>1. k = b /\ Used = {}
      BY <2>4, <2>5
    <3> QED
      BY <1>1, <2>2, <3>1, AloneBegins
  <2> QED
    BY <2>4, <2>5
<1>3. CASE \E r \in Slots : Resumes(r)
  <2>1. PICK r \in Slots : Resumes(r)
    BY <1>3
  <2>2. Used' = Used /\ r \in Used
    BY <2>1, UsedStaysSo
  <2> QED
    BY <1>1, <2>1, <2>2, AloneResumes
<1>4. ASSUME UNCHANGED <<card, busy>>, Used' = Used,
             \A k \in Slots : \A flag : Live(k, flag)' <=> Live(k, flag),
             \A k \in Used : /\ acts'[k].name = acts[k].name
                            /\ acts'[k].item = acts[k].item
      PROVE  /\ Used' = {} => busy' = {}
             /\ \A k \in Slots : Used' = {k} => NoCycleUp(k)' /\ KeptUp(k)'
  <2>1. \A k \in Used : ActOf(k)' = ActOf(k)
    BY <1>4 DEF ActOf
  <2>2. ASSUME NEW k \in Used, NoCycleUp(k), KeptUp(k)
        PROVE  NoCycleUp(k)' /\ KeptUp(k)'
    <3>1. ActOf(k)' = ActOf(k) /\ acts'[k].item = acts[k].item
      BY <1>4, <2>1
    <3> QED
      BY <1>4, <2>2, <3>1 DEF NoCycleUp, KeptUp, UpFor, Used
  <2> QED
    BY <1>1, <1>4, <2>2
<1>5. CASE \E r \in Slots : Request(r) \/ Check(r)
  <2>1. PICK r \in Slots : Moves(r)
    BY <1>5, RequestMoves, CheckMoves
  <2>2. \A j \in Slots : \A flag : Live(j, flag)' <=> Live(j, flag)
    BY <2>1, MovesLive
  <2>3. Used' = Used
    BY <2>1, UsedStaysSo
  <2> QED
    BY <1>4, <2>1, <2>2, <2>3, UsedStays DEF Moves
<1>6. CASE UNCHANGED <<card, busy, acts>>
  <2>1. \A j \in Slots : \A flag : Live(j, flag)' <=> Live(j, flag)
    BY <1>6 DEF Live, InProgress, ActOf
  <2> QED
    BY <1>4, <1>6, <2>1 DEF Used
<1>7. CASE UNCHANGED vars
  BY <1>6, <1>7 DEF vars
<1> QED
  BY <1>2, <1>3, <1>5, <1>6, <1>7, StepKinds, ElsewhereLeaves

(* An act that still has a change to make had it to make before.           *)
LEMMA CommittingBefore ==
  ASSUME Typed, NEW k \in Slots, Resumes(k) \/ Moves(k), NEW j \in Slots,
         Committing(j)'
  PROVE  Committing(j)
<1>1. card' = card /\ InProgress(k)
  BY ResumeContinues DEF Resumes, Moves
<1>2. PICK slot \in SlotType :
        /\ acts' = [acts EXCEPT ![k] = slot] /\ slot.name = acts[k].name
        /\ slot.at \in Under
             => slot.pc \in {acts[k].pc, acts[k].pc + 1, Len(ActOf(k).steps)}
  BY ResumeContinues DEF Continued, Moves
<1>3. CASE j # k
  <2>1. acts'[j] = acts[j] /\ ActOf(j)' = ActOf(j)
    BY <1>1, <1>2, <1>3 DEF ActOf, Typed
  <2> QED
    BY <2>1 DEF Committing, InProgress
<1>4. CASE j = k
  <2>1. acts'[k] = slot /\ ActOf(k)' = ActOf(k)
    BY <1>1, <1>2 DEF ActOf, Typed
  <2>2. slot.at \in Under
    BY <1>4, <2>1 DEF Committing, InProgress, Under
  <2>3. PICK i \in slot.pc .. Len(ActOf(k).steps) : Changes(ActOf(k).steps[i])
    BY <1>4, <2>1 DEF Committing
  <2>4. /\ acts[k].pc \in 1 .. Len(ActOf(k).steps)
        /\ Len(ActOf(k).steps) \in Nat
    BY <1>1, ScriptOf DEF InProgress
  <2>5. i \in acts[k].pc .. Len(ActOf(k).steps)
    BY <1>2, <2>2, <2>3, <2>4
  <2> QED
    BY <1>1, <1>4, <2>3, <2>5 DEF Committing
<1> QED
  BY <1>3, <1>4

(* The button of the only act under way is disabled.                       *)
LEMMA OnlyOneDisabled ==
  ASSUME Typed, AloneHeld, ~Excused(SentTwice), NEW k \in Slots, Used = {k},
         Committing(k)
  PROVE  Disabled(acts[k].name, acts[k].item)
<1> DEFINE act == ActOf(k)
           name == acts[k].name
<1>1. k \in Used /\ acts[k].at # "unused"
  BY DEF Used
<1>2. /\ name \in DOMAIN card.acts /\ card \in Catalogue
      /\ act = card.acts[name] /\ DOMAIN act.steps = 1 .. Len(act.steps)
      /\ acts[k].pc \in 1 .. Len(act.steps) /\ Len(act.steps) \in Nat
  BY <1>1, ScriptOf DEF Typed, Placed, ActOf
<1>3. PICK i \in acts[k].pc .. Len(act.steps) : Changes(act.steps[i])
  BY DEF Committing
<1>4. i \in DOMAIN act.steps
  BY <1>2, <1>3
<1>5. ChangesSomething(act)
  BY <1>3, <1>4 DEF ChangesSomething
<1>6. <<card.name, name>> \notin SentTwice
  BY <1>1 DEF Excused
<1>7. PICK test \in card.controls[name] : \A flag \in test : Keeps(act, flag)
  BY <1>2, <1>5, <1>6, ButtonsAreDisabled DEF Kept
<1>8. ASSUME NEW flag \in test
      PROVE  IF flag = "no cycle" THEN ~Raised("cycle", acts[k].item)
                                  ELSE Raised(flag, acts[k].item)
  <2>1. CASE flag = "no cycle"
    BY <1>7, <1>8, <2>1 DEF AloneHeld, Raised
  <2>2. CASE flag # "no cycle"
    <3>1. Raises(act, flag)
      BY <1>7, <1>8, <2>2 DEF Keeps
    <3>2. flag \in FlagsOf(card)
      BY <1>2, <3>1 DEF Raises, FlagsOf
    <3>3. Touches(act, flag)
      <4>1. 1 \in DOMAIN act.steps
        BY <1>2
      <4> QED
        BY <3>1, <4>1 DEF Raises, Touches
    <3>4. Live(k, flag)
      BY <1>3, <3>3 DEF Live, LiveAt, Concerns, Committing
    <3>5. UpFor(k, flag)
      BY <1>7, <1>8, <3>2, <3>4 DEF AloneHeld
    <3> QED
      BY <2>2, <3>5 DEF UpFor, Raised
  <2> QED
    BY <2>1, <2>2
<1> QED
  BY <1>8 DEF Disabled

LEMMA PairStep ==
  ASSUME Typed, AloneHeld, PairHeld, [Next]_vars
  PROVE  PairHeld'
<1> SUFFICES ASSUME NEW j \in Slots, NEW k \in Slots, j # k, Used' = {j, k},
                    ~Excused(SentTwice)', Committing(j)', Committing(k)'
             PROVE  \/ acts'[j].name # acts'[k].name
                    \/ acts'[j].item # acts'[k].item
  BY DEF PairHeld
<1>1. ~Excused(SentTwice) /\ card' = card
  BY NoneTwiceBefore, UsedStays
<1>2. ASSUME Used' = Used, Committing(j), Committing(k)
      PROVE  \/ acts'[j].name # acts'[k].name
             \/ acts'[j].item # acts'[k].item
  BY <1>1, <1>2, UsedStays DEF PairHeld
<1>3. CASE Begins
  <2>1. PICK b \in Slots, name \in DOMAIN card.acts :
          /\ acts[b].at = "unused"
          /\ \E item \in ItemsOf(b, card.acts[name]) : Begin(b, name, item)
    BY <1>3 DEF Begins
  <2>2. PICK item \in ItemsOf(b, card.acts[name]) : Begin(b, name, item)
    BY <2>1
  <2>3. PICK slot \in SlotType :
          /\ acts' = [acts EXCEPT ![b] = slot] /\ slot.at # "unused"
          /\ slot.name = name /\ slot.item = item
    BY <2>2, BeginBegins DEF Begun, Under
  <2>4. b \notin Used /\ Used' = Used \union {b}
    BY <2>1, <2>3 DEF Used, Typed
  <2>5. ASSUME NEW o \in {j, k}, o # b
        PROVE  acts[o].name # name \/ acts[o].item # item
    <3>1. Used = {o} /\ o \in Slots
      BY <2>4, <2>5
    <3>2. acts'[o] = acts[o] /\ ActOf(o)' = ActOf(o)
      BY <1>1, <2>3, <2>5, <3>1 DEF ActOf, Typed
    <3>3. Committing(o)
      <4>1. Committing(o)'
        BY <2>5
      <4> QED
        BY <3>2, <4>1 DEF Committing, InProgress
    <3>4. Disabled(acts[o].name, acts[o].item)
      BY <1>1, <3>1, <3>3, OnlyOneDisabled
    <3>5. ~Disabled(name, item)
      BY <2>2, BeginBegins
    <3> QED
      BY <3>4, <3>5
  <2>6. b \in {j, k}
    BY <2>4
  <2>7. acts'[b].name = name /\ acts'[b].item = item
    BY <2>3 DEF Typed
  <2>8. \A o \in {j, k} : o # b => acts'[o] = acts[o]
    BY <2>3 DEF Typed
  <2> QED
    BY <2>5, <2>6, <2>7, <2>8
<1>4. CASE \E r \in Slots : Resumes(r) \/ Moves(r)
  BY <1>2, <1>4, UsedStaysSo, CommittingBefore
<1>5. CASE UNCHANGED <<card, acts>>
  <2>1. Used' = Used /\ Committing(j) /\ Committing(k)
    BY <1>5 DEF Used, Committing, InProgress, ActOf
  <2> QED
    BY <1>2, <2>1
<1>6. CASE UNCHANGED vars
  BY <1>5, <1>6 DEF vars
<1> QED
  BY <1>3, <1>4, <1>5, <1>6, StepKinds, RequestMoves, CheckMoves,
     ElsewhereLeaves

CardsInv == Typed /\ FlagsHeld /\ AloneHeld /\ PairHeld

LEMMA CardsInvInit == Init => CardsInv
<1> SUFFICES ASSUME Init PROVE CardsInv
  OBVIOUS
<1>1. \A k \in Slots : acts[k].at = "unused"
  BY DEF Init, Unused
<1>2. Used = {} /\ \A k \in Slots : ~InProgress(k)
  BY <1>1 DEF Used, InProgress
<1>3. \A k \in Slots : {k} # {} /\ \A j \in Slots : {j, k} # {}
  OBVIOUS
<1>4. FlagsHeld
  BY <1>2 DEF FlagsHeld, Live
<1>5. AloneHeld
  BY <1>2, <1>3 DEF AloneHeld, Init
<1>6. PairHeld
  BY <1>2 DEF PairHeld, Committing
<1> QED
  BY <1>4, <1>5, <1>6, TypedInit DEF CardsInv

LEMMA CardsInvStep == CardsInv /\ [Next]_vars => CardsInv'
BY TypedStep, FlagsHeldStep, AloneStep, PairStep DEF CardsInv

LEMMA HeldIsOnce == CardsInv => SentOnce
<1> SUFFICES ASSUME CardsInv, NEW j \in Slots, NEW k \in Slots, j < k,
                    Committing(j), Committing(k), ~Excused(SentTwice),
                    <<card.name, acts[j].name>> \in Overwritten => Used = {j, k},
                    acts[j].name = acts[k].name, acts[j].item = acts[k].item
             PROVE  FALSE
  BY DEF SentOnce
<1>1. j # k
  BY BoundsAreNumbers DEF Slots
<1>2. <<card.name, acts[j].name>> \notin Overwritten
  BY <1>1 DEF CardsInv, PairHeld
<1>3. Typed /\ j \in Used /\ acts[j].at # "unused" /\ acts[k].at # "unused"
  BY DEF CardsInv, Committing, InProgress, Used
<1>4. /\ acts[j].name \in DOMAIN card.acts /\ card \in Catalogue
      /\ ActOf(j) = card.acts[acts[j].name] /\ ActOf(k) = ActOf(j)
  BY <1>3 DEF Typed, Placed, ActOf
<1>5. <<card.name, acts[j].name>> \notin SentTwice
  BY <1>3 DEF Excused
<1>6. ChangesSomething(ActOf(j))
  <2>1. PICK i \in acts[j].pc .. Len(ActOf(j).steps) :
          Changes(ActOf(j).steps[i])
    BY DEF Committing
  <2>2. i \in DOMAIN ActOf(j).steps
    BY <1>3, <2>1, ScriptOf
  <2> QED
    BY <2>1, <2>2 DEF ChangesSomething
<1>7. PICK flag \in FlagsOf(card) : Touches(ActOf(j), flag) /\ Guards(card, flag)
  BY <1>2, <1>4, <1>5, <1>6, ButtonsAreDisabled DEF Guarded
<1>8. Live(j, flag) /\ Live(k, flag)
  BY <1>4, <1>7 DEF Live, LiveAt, Concerns, Committing
<1> QED
  BY <1>1, <1>7, <1>8 DEF CardsInv, FlagsHeld

(* For any number of acts and failures, and every card of the catalogue:   *)
(* the same change of the same item is never under way twice, for the      *)
(* buttons stay disabled through every call that comes after a first one,  *)
(* whatever other act shares their flag.  An act whose flag another act    *)
(* overwrites is held to it as long as those two are the only ones.        *)
THEOREM SentOnceAlways == Spec => []SentOnce
BY CardsInvInit, CardsInvStep, HeldIsOnce, PTL DEF Spec

-----------------------------------------------------------------------------
(* The fields of a form that follows its data, in a card whose data no     *)
(* reading brings unasked: the first reading is over before anything can   *)
(* be typed, and every other one was asked for by an act that drops what   *)
(* was typed.                                                              *)
DraftInv ==
  card.name \notin Refilling /\ card.form = "follows"
    => /\ loads[Again].at = "idle" /\ loads[Choice].at = "idle"
       /\ loads[Mount].at # "idle"
            => draft = "clean" /\ ~loaded /\ Used = {}
       /\ \A k \in Slots :
            loads[k].at # "idle"
              => k \in Used /\ <<card.name, acts[k].name>> \in DropsDraft

LEMMA SpecialReadings ==
  /\ Mount \notin Slots /\ Again \notin Slots /\ Mount # Again
  /\ Mount # Choice
  /\ \A l \in Readings : l \in Slots \/ l \in {Mount, Again, Choice}
BY BoundsAreNumbers DEF Slots, Readings, Mount, Again, Choice

(* What the continuation of an act does to the fields and the readings.    *)
LEMMA ResumeFills ==
  ASSUME Typed, NEW k \in Slots, Resumes(k)
  PROVE  /\ k \in Used /\ acts[k].name \in DOMAIN card.acts
         /\ \E i \in DOMAIN ActOf(k).steps :
              EffectsOf(k) \in Outcomes(ActOf(k).steps[i])
         /\ draft' # draft => Fills(card, ActOf(k), EffectsOf(k))
         /\ loads' # loads => /\ "load" \in EffectsOf(k)
                              /\ loads' = [loads EXCEPT ![k] = Open]
<1>1. k \in Used /\ acts[k].at # "unused"
  BY DEF Resumes, InProgress, Used
<1>2. /\ draft' = IF Refills(k, EffectsOf(k)) THEN "clean" ELSE draft
      /\ loads' = IF "load" \in EffectsOf(k)
                    THEN [loads EXCEPT ![k] = Open] ELSE loads
  <2> HIDE DEF Refills, Open, EffectsOf
  <2> QED
    BY DEF Resumes, Resume
<1>3. /\ EffectsOf(k) \in Outcomes(ActOf(k).steps[acts[k].pc])
      /\ acts[k].pc \in DOMAIN ActOf(k).steps
  BY <1>1, ScriptOf DEF StepOf
<1>4. acts[k].name \in DOMAIN card.acts
  BY <1>1 DEF Typed, Placed
<1> QED
  BY <1>1, <1>2, <1>3, <1>4 DEF Refills, Fills

(* A continuation changes the record of its act.                           *)
LEMMA ResumeMoves ==
  ASSUME Typed, NEW k \in Slots, Resumes(k)
  PROVE  acts'[k] # acts[k] /\ acts'[k].name = acts[k].name
<1>1. acts[k].at \in Under /\ acts[k].pc \in Nat /\ acts[k].at # "unused"
  BY DEF Resumes, InProgress, Under, Typed, SlotType
<1>2. PICK slot \in SlotType :
        /\ acts' = [acts EXCEPT ![k] = slot] /\ slot.name = acts[k].name
        /\ slot.at \in Under \union {"ended"}
        /\ slot.at \in Under
             => \/ "last" \in EffectsOf(k) /\ slot.pc = Len(ActOf(k).steps)
                \/ "next" \in EffectsOf(k) /\ slot.pc = acts[k].pc + 1
  BY ResumeContinues DEF Continued
<1>3. slot.at \in Under => slot.pc # acts[k].pc
  BY <1>1, <1>2, ScriptOf
<1> QED
  BY <1>1, <1>2, <1>3 DEF Typed, Under

LEMMA DraftStep ==
  ASSUME Typed, DraftInv, [Next]_vars
  PROVE  DraftInv'
<1> SUFFICES ASSUME card'.name \notin Refilling, card'.form = "follows"
             PROVE  /\ loads'[Again].at = "idle" /\ loads'[Choice].at = "idle"
                    /\ loads'[Mount].at # "idle"
                         => draft' = "clean" /\ ~loaded' /\ Used' = {}
                    /\ \A k \in Slots :
                         loads'[k].at # "idle"
                           => /\ k \in Used'
                              /\ <<card'.name, acts'[k].name>> \in DropsDraft
  BY DEF DraftInv
<1>1. /\ card' = card
      /\ \A k \in Used : k \in Used' /\ acts'[k].name = acts[k].name
  BY UsedStays
<1>2. /\ loads[Again].at = "idle" /\ loads[Choice].at = "idle"
      /\ loads[Mount].at # "idle" => draft = "clean" /\ ~loaded /\ Used = {}
      /\ \A k \in Slots :
           loads[k].at # "idle"
             => k \in Used /\ <<card.name, acts[k].name>> \in DropsDraft
  BY <1>1 DEF DraftInv
<1>3. card \in Catalogue /\ card.load \intersect {"poll", "fed", "subject"} = {}
  BY <1>1, FieldsAreTheUsers DEF Typed
<1>4. CASE loads' = loads /\ (draft' = draft \/ draft' = "clean")
           /\ loaded' = loaded /\ (Used' = Used \/ loaded)
  BY <1>1, <1>2, <1>4
<1>5. CASE Begins
  <2>1. PICK k \in Slots, name \in DOMAIN card.acts :
          /\ loaded
          /\ \E item \in ItemsOf(k, card.acts[name]) : Begin(k, name, item)
    BY <1>5 DEF Begins
  <2>2. /\ loads' = loads /\ loaded' = loaded
        /\ draft' = draft \/ draft' = "clean"
    BY <2>1 DEF Begin
  <2> QED
    BY <1>4, <2>1, <2>2
<1>6. CASE \E k \in Slots : Resumes(k)
  <2>1. PICK k \in Slots : Resumes(k)
    BY <1>6
  <2>2. /\ loaded' = loaded /\ Used' = Used /\ k \in Used
        /\ draft' \in {"clean", draft}
    <3>1. draft' = IF Refills(k, EffectsOf(k)) THEN "clean" ELSE draft
      <4> HIDE DEF Refills, EffectsOf
      <4> QED
        BY <2>1 DEF Resumes, Resume
    <3> QED
      BY <2>1, <3>1, ResumeContinues, UsedStaysSo
  <2>3. CASE loads' = loads
    BY <1>4, <2>2, <2>3
  <2>4. CASE loads' # loads
    <3>1. /\ "load" \in EffectsOf(k) /\ loads' = [loads EXCEPT ![k] = Open]
          /\ acts[k].name \in DOMAIN card.acts
          /\ \E i \in DOMAIN ActOf(k).steps :
               EffectsOf(k) \in Outcomes(ActOf(k).steps[i])
      BY <2>1, <2>4, ResumeFills
    <3>2. <<card.name, acts[k].name>> \in DropsDraft
      BY <1>1, <1>3, <3>1, FieldsAreTheUsers DEF ActOf
    <3>3. \A l \in Readings : l # k => loads'[l] = loads[l]
      BY <3>1 DEF Typed
    <3>4. loads[Mount].at = "idle"
      BY <1>2, <2>2
    <3> QED
      BY <1>1, <1>2, <2>2, <3>2, <3>3, <3>4, SpecialReadings, ReadingNames
  <2> QED
    BY <2>3, <2>4
<1>7. CASE \E k \in Slots : Request(k) \/ Check(k)
  <2>1. PICK k \in Slots : Request(k) \/ Check(k)
    BY <1>7
  <2>2. Moves(k) /\ loaded' = loaded /\ loads' = loads
    BY <2>1, RequestMoves, CheckMoves
  <2>3. Used' = Used /\ draft' = draft
    BY <2>2, UsedStaysSo DEF Moves
  <2> QED
    BY <1>4, <2>2, <2>3
<1>8. CASE Elsewhere
  <2>1. Used' = Used /\ acts' = acts
    BY <1>8, ElsewhereLeaves DEF Used
  <2>2. CASE Type
    <3>1. loads' = loads /\ loaded' = loaded /\ loaded
      BY <2>2 DEF Type
    <3> QED
      BY <1>1, <1>2, <2>1, <3>1
  <2>3. CASE Choose \/ Poll \/ Feed
    BY <1>3, <2>3 DEF Choose, Poll, Feed, LoadAgain
  <2>4. CASE \E id \in jobs : Land(id)
    <3>1. loads' = loads /\ loaded' = loaded /\ draft' = draft
      BY <2>4 DEF Land
    <3> QED
      BY <1>4, <2>1, <3>1
  <2>5. ASSUME NEW l \in Readings, ServeLoad(l) \/ BreakLoad(l)
        PROVE  /\ loaded' = loaded /\ draft' = draft
               /\ \A m \in Readings :
                    loads[m].at = "idle" => loads'[m].at = "idle"
    BY <2>5 DEF ServeLoad, BreakLoad, Typed
  <2>6. CASE \E l \in Readings : ServeLoad(l) \/ BreakLoad(l)
    BY <1>1, <1>2, <2>1, <2>5, <2>6, ReadingNames
  <2>7. ASSUME NEW l \in Readings, Arrive(l)
        PROVE  /\ \A m \in Readings :
                    loads'[m].at # "idle" => loads[m].at # "idle" /\ m # l
               /\ draft' \in {draft, "clean"}
               /\ loads[l].at # "idle"
    <3>1. Idle.at = "idle"
      BY DEF Idle
    <3> QED
      BY <2>7, <3>1 DEF Arrive, Typed
  <2>8. ASSUME NEW l \in Readings, Arrive(l)
        PROVE  loads'[Mount].at # "idle" => FALSE
    <3> SUFFICES ASSUME loads'[Mount].at # "idle"
                 PROVE  FALSE
      OBVIOUS
    <3>1. loads[Mount].at # "idle" /\ l # Mount /\ loads[l].at # "idle"
      BY <2>7, <2>8, ReadingNames
    <3> QED
      BY <1>2, <3>1, SpecialReadings
  <2>9. CASE \E l \in Readings : Arrive(l)
    BY <1>1, <1>2, <2>1, <2>7, <2>8, <2>9, ReadingNames
  <2> QED
    BY <1>8, <2>2, <2>3, <2>4, <2>6, <2>9 DEF Elsewhere
<1>9. CASE UNCHANGED vars
  <2>1. loads' = loads /\ draft' = draft /\ loaded' = loaded /\ Used' = Used
    BY <1>9 DEF vars, Used
  <2> QED
    BY <1>4, <2>1
<1> QED
  BY <1>5, <1>6, <1>7, <1>8, <1>9, StepKinds

(* Where the fields are emptied.                                           *)
LEMMA DraftKept ==
  ASSUME Typed, DraftInv, [Next]_vars, draft = "typed", draft' = "clean"
  PROVE  \/ card.name \in Refilling \/ Excused(DropsDraft)
         \/ \E k \in Slots : /\ acts'[k] # acts[k]
                             /\ card.acts[acts'[k].name].form # "no"
<1> SUFFICES ASSUME card.name \notin Refilling, ~Excused(DropsDraft)
             PROVE  \E k \in Slots : /\ acts'[k] # acts[k]
                                     /\ card.acts[acts'[k].name].form # "no"
  OBVIOUS
<1>1. card \in Catalogue
  BY DEF Typed
<1>2. CASE Begins
  <2>1. PICK k \in Slots, name \in DOMAIN card.acts :
          /\ acts[k].at = "unused"
          /\ \E item \in ItemsOf(k, card.acts[name]) : Begin(k, name, item)
    BY <1>2 DEF Begins
  <2>2. "clean" \in card.acts[name].start
    BY <2>1 DEF Begin
  <2>3. PICK slot \in SlotType : /\ acts' = [acts EXCEPT ![k] = slot]
                                 /\ slot.name = name /\ slot.at \in Under
    BY <2>1, BeginBegins DEF Begun
  <2>4. acts'[k] # acts[k] /\ acts'[k].name = name
    BY <2>1, <2>3 DEF Typed, Under
  <2> QED
    BY <1>1, <2>2, <2>4, FieldsAreTheUsers
<1>3. CASE \E k \in Slots : Resumes(k)
  <2>1. PICK k \in Slots : Resumes(k)
    BY <1>3
  <2>2. /\ k \in Used /\ acts[k].name \in DOMAIN card.acts
        /\ \E i \in DOMAIN ActOf(k).steps :
             EffectsOf(k) \in Outcomes(ActOf(k).steps[i])
        /\ Fills(card, ActOf(k), EffectsOf(k))
    BY <2>1, ResumeFills
  <2>3. <<card.name, acts[k].name>> \notin DropsDraft
    BY <2>2 DEF Excused
  <2>4. ActOf(k).form # "no"
    BY <1>1, <2>2, <2>3, FieldsAreTheUsers DEF ActOf
  <2>5. acts'[k] # acts[k] /\ acts'[k].name = acts[k].name
    BY <2>1, ResumeMoves
  <2> QED
    BY <2>4, <2>5 DEF ActOf
<1>4. CASE \E k \in Slots : Request(k) \/ Check(k)
  BY <1>4, RequestMoves, CheckMoves DEF Moves
<1>5. CASE Elsewhere
  <2>1. PICK l \in Readings : Arrive(l)
    BY <1>5 DEF Elsewhere, Type, Choose, Poll, Feed, LoadAgain, Land,
                ServeLoad, BreakLoad
  <2>2. card.form = "follows" /\ loads[l].at # "idle"
    BY <2>1 DEF Arrive
  <2> QED
    BY <2>2, SpecialReadings DEF DraftInv, Excused
<1>6. CASE UNCHANGED vars
  BY <1>6 DEF vars
<1> QED
  BY <1>2, <1>3, <1>4, <1>5, <1>6, StepKinds

(* For any number of acts, failures and readings, what the user has typed  *)
(* is emptied by nothing but an act that sends fields: no poll, no late    *)
(* reading and no other answer takes it away, in the cards that Refilling  *)
(* does not name, while no act of DropsDraft was started.                  *)
THEOREM DraftSurvivesAlways == Spec => DraftSurvives
<1>1. Init => DraftInv
  <2> SUFFICES ASSUME Init
               PROVE  DraftInv
    OBVIOUS
  <2>1. /\ \A l \in Readings : l # Mount => loads[l].at = "idle"
        /\ loads[Mount].at # "idle" => ~loaded
    BY ReadingNames DEF Init, Idle
  <2>2. Used = {} /\ draft = "clean"
    BY DEF Init, Used, Unused
  <2> QED
    BY <2>1, <2>2, ReadingNames, SpecialReadings DEF DraftInv
<1>2. ASSUME Typed, DraftInv, [Next]_vars
      PROVE  [draft = "typed" /\ draft' = "clean"
               => \/ card.name \in Refilling \/ Excused(DropsDraft)
                  \/ \E k \in Slots : /\ acts'[k] # acts[k]
                                      /\ card.acts[acts'[k].name].form # "no"]_vars
  BY <1>2, DraftKept
<1> QED
  BY <1>1, <1>2, TypedInit, TypedStep, DraftStep, PTL DEF Spec, DraftSurvives

-----------------------------------------------------------------------------
(* What a card shows.  The whole records that the steps leave behind.      *)

LEMMA BeginRecord ==
  ASSUME Typed, NEW k \in Slots, NEW name \in DOMAIN card.acts,
         NEW item \in ItemsOf(k, card.acts[name]), Begin(k, name, item)
  PROVE  /\ \A j \in Slots : j # k => acts'[j] = acts[j]
         /\ acts'[k].name = name /\ acts'[k].pc = 1
         /\ acts'[k].at = Waiting(card.acts[name].steps[1])
         /\ acts'[k].ans = "ok" /\ acts'[k].got = {}
         /\ ~acts'[k].failed /\ ~acts'[k].lost
         /\ shown' = IF "patch" \in card.acts[name].start
                       THEN shown \union {<<k, 1>>} ELSE shown
         /\ UNCHANGED <<card, router, jobs, loaded, loads, faults>>
<1> DEFINE act == card.acts[name]
           slot == [Unused EXCEPT !.name = name, !.item = item, !.pc = 1,
                                 !.at = Waiting(act.steps[1])]
<1>1. /\ acts' = [acts EXCEPT ![k] = slot]
      /\ shown' = IF "patch" \in act.start THEN shown \union {<<k, 1>>} ELSE shown
      /\ UNCHANGED <<card, router, jobs, loaded, loads, faults>>
  BY DEF Begin
<1>2. name \in Names /\ item \in Items \union {"any"}
  BY FlagSets, BeginBegins
<1>3. Waiting(act.steps[1]) \in Under
  BY DEF Waiting, Under
<1>4. /\ slot \in SlotType /\ slot.name = name /\ slot.pc = 1
      /\ slot.at = Waiting(act.steps[1])
      /\ slot.ans = "ok" /\ slot.got = {} /\ ~slot.failed /\ ~slot.lost
  <2> HIDE DEF act
  <2> QED
    BY <1>2, <1>3 DEF SlotType, Unused, Under
<1> HIDE DEF slot
<1>5. acts'[k] = slot /\ \A j \in Slots : j # k => acts'[j] = acts[j]
  BY <1>1 DEF Typed
<1> QED
  BY <1>1, <1>4, <1>5

LEMMA ServedRecord ==
  ASSUME Typed, NEW k \in Slots, NEW effect \in BOOLEAN,
         NEW ans \in {"ok", "thrown"}, Served(k, effect, ans)
  PROVE  /\ acts[k].at = "sent" /\ k \in Used
         /\ \A j \in Slots : j # k => acts'[j] = acts[j]
         /\ acts'[k].name = acts[k].name /\ acts'[k].pc = acts[k].pc
         /\ acts'[k].at = "served" /\ acts'[k].ans = ans
         /\ acts'[k].got = IF ans = "thrown" THEN {} ELSE router'
         /\ acts'[k].failed = acts[k].failed
         /\ acts'[k].lost <=> acts[k].lost \/ (effect /\ ans = "thrown")
         /\ router' = IF effect /\ StepOf(k).call \notin Starting
                        THEN router \union {<<k, acts[k].pc>>} ELSE router
         /\ jobs' = IF effect /\ StepOf(k).call \in Starting
                      THEN jobs \union {<<k, acts[k].pc>>} ELSE jobs
         /\ UNCHANGED <<card, shown, loaded, loads>>
<1>1. acts[k] \in SlotType
  BY DEF Typed
<1>2. router' \in SUBSET Ids
  BY ServedMoves
<1> DEFINE slot == [acts[k] EXCEPT !.at = "served", !.ans = ans,
                      !.lost = @ \/ (effect /\ ans = "thrown"),
                      !.got = IF ans = "thrown" THEN {} ELSE router']
<1>3. acts' = [acts EXCEPT ![k] = slot]
  BY DEF Served, Typed
<1>4. /\ slot \in SlotType
      /\ slot.name = acts[k].name /\ slot.pc = acts[k].pc
      /\ slot.at = "served" /\ slot.ans = ans
      /\ slot.got = IF ans = "thrown" THEN {} ELSE router'
      /\ slot.failed = acts[k].failed
      /\ slot.lost <=> acts[k].lost \/ (effect /\ ans = "thrown")
  BY <1>1, <1>2 DEF SlotType, Under
<1>5. /\ acts[k].at = "sent"
      /\ router' = IF effect /\ StepOf(k).call \notin Starting
                     THEN router \union {<<k, acts[k].pc>>} ELSE router
      /\ jobs' = IF effect /\ StepOf(k).call \in Starting
                   THEN jobs \union {<<k, acts[k].pc>>} ELSE jobs
      /\ UNCHANGED <<card, shown, loaded, loads>>
  BY DEF Served
<1> HIDE DEF slot
<1>6. acts'[k] = slot /\ \A j \in Slots : j # k => acts'[j] = acts[j]
  BY <1>3 DEF Typed
<1> QED
  BY <1>4, <1>5, <1>6 DEF Used

(* Where act k goes on from a call, and where it ends.                     *)
GoesOn(k) == EffectsOf(k) \intersect {"next", "last"} # {}
NextPc(k) ==
  IF "last" \in EffectsOf(k) THEN Len(ActOf(k).steps)
    ELSE IF "next" \in EffectsOf(k) THEN acts[k].pc + 1 ELSE acts[k].pc

LEMMA ResumeRecord ==
  ASSUME Typed, NEW k \in Slots, Resumes(k)
  PROVE  /\ k \in Used
         /\ \A j \in Slots : j # k => acts'[j] = acts[j]
         /\ acts'[k].name = acts[k].name /\ acts'[k].pc = NextPc(k)
         /\ acts'[k].at = IF GoesOn(k)
                            THEN Waiting(ActOf(k).steps[NextPc(k)])
                            ELSE "ended"
         /\ acts'[k].ans = "ok" /\ acts'[k].got = {}
         /\ acts'[k].failed <=> \/ acts[k].failed
                                \/ Changes(StepOf(k)) /\ acts[k].ans # "ok"
         /\ acts'[k].lost = acts[k].lost
         /\ shown' = Shows(k, EffectsOf(k))
         /\ loads' = IF "load" \in EffectsOf(k)
                       THEN [loads EXCEPT ![k] = Open] ELSE loads
         /\ UNCHANGED <<card, router, jobs, loaded, faults>>
<1>1. /\ acts[k].at # "unused" /\ acts[k] \in SlotType /\ acts[k].pc \in Nat
      /\ k \in Used
  BY DEF Resumes, InProgress, Typed, SlotType, Used
<1> DEFINE slot == [acts[k] EXCEPT
                      !.pc = NextPc(k),
                      !.at = IF GoesOn(k)
                               THEN Waiting(ActOf(k).steps[NextPc(k)])
                               ELSE "ended",
                      !.ans = "ok", !.got = {},
                      !.failed = @ \/ (Changes(StepOf(k)) /\ acts[k].ans # "ok"),
                      !.said = @ \/ "bad" \in EffectsOf(k)]
<1>2. NextPc(k) \in Nat
  BY <1>1, ScriptOf DEF NextPc
<1>3. Waiting(ActOf(k).steps[NextPc(k)]) \in Under
  BY DEF Waiting, Under
<1>4. /\ acts' = [acts EXCEPT ![k] = slot]
      /\ shown' = Shows(k, EffectsOf(k))
      /\ loads' = IF "load" \in EffectsOf(k)
                    THEN [loads EXCEPT ![k] = Open] ELSE loads
      /\ UNCHANGED <<card, router, jobs, loaded, faults>>
  <2> HIDE DEF Waiting, Shows, Open, Changes, EffectsOf
  <2>1. acts' = [acts EXCEPT
              ![k].pc = NextPc(k),
              ![k].at = IF GoesOn(k)
                          THEN Waiting(ActOf(k).steps[NextPc(k)])
                          ELSE "ended",
              ![k].ans = "ok", ![k].got = {},
              ![k].failed = @ \/ (Changes(StepOf(k)) /\ acts[k].ans # "ok"),
              ![k].said = @ \/ "bad" \in EffectsOf(k)]
    BY DEF Resumes, Resume, GoesOn, NextPc
  <2>2. acts \in [Slots -> SlotType] /\ acts[k] \in SlotType
    BY DEF Typed
  <2>3. acts' = [acts EXCEPT ![k] = slot]
    <3> HIDE DEF GoesOn, NextPc
    <3> QED
      BY <2>1, <2>2 DEF SlotType
  <2> QED
    BY ZenonT(60), <2>3 DEF Resumes, Resume
<1>5. /\ slot \in SlotType
      /\ slot.name = acts[k].name /\ slot.pc = NextPc(k)
      /\ slot.at = IF GoesOn(k) THEN Waiting(ActOf(k).steps[NextPc(k)])
                                ELSE "ended"
      /\ slot.ans = "ok" /\ slot.got = {}
      /\ slot.failed <=> \/ acts[k].failed
                         \/ Changes(StepOf(k)) /\ acts[k].ans # "ok"
      /\ slot.lost = acts[k].lost
  <2>1. Changes(StepOf(k)) \in BOOLEAN
    BY DEF Changes
  <2> HIDE DEF GoesOn, NextPc
  <2> QED
    BY ZenonT(60), <1>1, <1>2, <1>3, <2>1 DEF SlotType, Under
<1> HIDE DEF slot
<1>6. acts'[k] = slot /\ \A j \in Slots : j # k => acts'[j] = acts[j]
  BY <1>4 DEF Typed
<1> QED
  BY <1>1, <1>4, <1>5, <1>6

(* The three fates of a request.                                           *)
LEMMA RequestFates ==
  ASSUME Typed, NEW k \in Slots, Request(k)
  PROVE  \/ /\ Served(k, Changes(StepOf(k)), "ok") /\ faults' = faults
            /\ StepOf(k).call = "installJob" => jobs = {}
         \/ Served(k, FALSE, "thrown") /\ faults' = faults + 1
         \/ /\ Served(k, TRUE, "thrown") /\ faults' = faults + 1
            /\ Changes(StepOf(k))
BY DEF Request, Serve, Break, Lose, Fault

LEMMA FaultsGrow ==
  ASSUME Typed, [Next]_vars
  PROVE  faults' = faults \/ faults' = faults + 1
<1>1. CASE Begins
  BY <1>1, BeginBegins DEF Begins
<1>2. CASE \E k \in Slots : Resumes(k)
  BY <1>2, ResumeContinues
<1>3. CASE \E k \in Slots : Request(k) \/ Check(k)
  BY <1>3, RequestFates, CheckMoves
<1>4. CASE Elsewhere
  BY <1>4 DEF Elsewhere, Type, Choose, Poll, Feed, LoadAgain, Land, ServeLoad,
              BreakLoad, Arrive, Fault
<1>5. CASE UNCHANGED vars
  BY <1>5 DEF vars
<1> QED
  BY <1>1, <1>2, <1>3, <1>4, <1>5, StepKinds

-----------------------------------------------------------------------------
(* What answers and readings bring is in force, for nothing that is goes   *)
(* away; and changes are made by acts that were started.                   *)
InForce ==
  /\ \A k \in Slots : acts[k].got \subseteq router
  /\ \A l \in Readings : loads[l].got \subseteq router
  /\ \A x \in router \union jobs \union shown : x[1] \in Used

LEMMA InForceStep ==
  ASSUME Typed, InForce, [Next]_vars
  PROVE  InForce'
<1>1. \A k \in Used : k \in Used'
  BY UsedStays
<1>2. Idle.got = {} /\ Open.got = {} /\ [Open EXCEPT !.about = "b"].got = {}
  BY DEF Idle, Open
<1>3. CASE Begins
  <2>1. PICK k \in Slots, name \in DOMAIN card.acts :
          \E item \in ItemsOf(k, card.acts[name]) : Begin(k, name, item)
    BY <1>3 DEF Begins
  <2>2. /\ \A j \in Slots : j # k => acts'[j] = acts[j]
        /\ acts'[k].at = Waiting(card.acts[name].steps[1])
        /\ acts'[k].got = {}
    BY <2>1, BeginRecord
  <2>3. /\ \A x \in shown' : x \in shown \/ x[1] = k
        /\ UNCHANGED <<router, jobs, loads>>
    BY <2>1, BeginRecord
  <2>4. k \in Used'
    BY <2>2 DEF Used, Typed, Waiting
  <2> QED
    BY <1>1, <2>2, <2>3, <2>4 DEF InForce, Typed
<1>4. CASE \E k \in Slots : Resumes(k)
  <2>1. PICK k \in Slots : Resumes(k)
    BY <1>4
  <2>2. /\ \A j \in Slots : j # k => acts'[j] = acts[j]
        /\ acts'[k].got = {}
    BY <2>1, ResumeRecord
  <2>3. /\ k \in Used /\ shown' = Shows(k, EffectsOf(k))
        /\ loads' = loads \/ loads' = [loads EXCEPT ![k] = Open]
        /\ UNCHANGED <<router, jobs>>
    BY <2>1, ResumeRecord
  <2>4. \A x \in shown' : x \in shown \/ x[1] = k \/ x \in acts[k].got
    BY <2>3 DEF Shows
  <2>5. \A x \in acts[k].got : x \in router
    BY DEF InForce
  <2>6. \A l \in Readings : loads'[l].got \subseteq router
    BY <1>2, <2>3 DEF InForce, Typed
  <2>7. \A x \in shown' : x[1] \in Used
    BY <2>3, <2>4, <2>5 DEF InForce
  <2>8. \A j \in Slots : acts'[j].got \subseteq router
    BY <2>2 DEF InForce, Typed
  <2> QED
    BY <1>1, <2>3, <2>6, <2>7, <2>8 DEF InForce
<1>5. ASSUME NEW k \in Slots, NEW effect \in BOOLEAN,
             NEW ans \in {"ok", "thrown"}, Served(k, effect, ans)
      PROVE  InForce'
  <2>1. /\ \A j \in Slots : j # k => acts'[j] = acts[j]
        /\ acts'[k].got \subseteq router'
    BY <1>5, ServedRecord
  <2>2. /\ k \in Used /\ UNCHANGED <<shown, loads>>
        /\ router \subseteq router'
        /\ \A x \in router' \union jobs' :
             x \in router \union jobs \/ x[1] = k
    BY <1>5, ServedRecord
  <2>3. \A j \in Slots : acts'[j].got \subseteq router'
    BY <2>1, <2>2 DEF InForce, Typed
  <2>4. \A x \in router' \union jobs' \union shown' : x[1] \in Used
    BY <2>2 DEF InForce
  <2>5. \A l \in Readings : loads'[l].got \subseteq router'
    BY <2>2 DEF InForce
  <2> QED
    BY <1>1, <2>3, <2>4, <2>5 DEF InForce
<1>6. CASE \E k \in Slots : Request(k)
  <2>1. PICK k \in Slots : Request(k)
    BY <1>6
  <2>2. Changes(StepOf(k)) \in BOOLEAN
    BY DEF Changes
  <2>3. \E effect \in BOOLEAN : \E ans \in {"ok", "thrown"} :
          Served(k, effect, ans)
    BY <2>1, <2>2, RequestFates
  <2> QED
    BY <1>5, <2>3
<1>7. CASE \E k \in Slots : Check(k)
  <2>1. PICK k \in Slots : Check(k)
    BY <1>7
  <2>2. \A j \in Slots : acts'[j].got = acts[j].got
    BY <2>1 DEF Check, Typed, SlotType
  <2>3. UNCHANGED <<router, jobs, shown, loads>>
    BY <2>1 DEF Check
  <2> QED
    BY <1>1, <2>2, <2>3 DEF InForce
<1>8. CASE Elsewhere
  <2>1. acts' = acts
    BY <1>8, ElsewhereLeaves
  <2>2. CASE Type \/ Choose \/ Poll \/ Feed
    BY <1>1, <1>2, <2>1, <2>2
       DEF Type, Choose, Poll, Feed, LoadAgain, InForce, Typed
  <2>3. CASE \E id \in jobs : Land(id)
    BY <1>1, <2>1, <2>3 DEF Land, InForce
  <2>4. CASE \E l \in Readings : ServeLoad(l)
    BY <1>1, <2>1, <2>4 DEF ServeLoad, InForce, Typed, ReadingType
  <2>5. CASE \E l \in Readings : BreakLoad(l)
    BY <1>1, <2>1, <2>5 DEF BreakLoad, InForce, Typed, ReadingType
  <2>6. CASE \E l \in Readings : Arrive(l)
    <3>1. PICK l \in Readings : Arrive(l)
      BY <2>6
    <3>2. /\ \A x \in shown' : x \in shown \/ x \in loads[l].got
          /\ loads' = [loads EXCEPT ![l] = Idle]
          /\ UNCHANGED <<router, jobs>>
      BY <3>1 DEF Arrive, Apart
    <3>3. \A x \in shown' : x[1] \in Used
      BY <3>2 DEF InForce
    <3>4. \A m \in Readings : loads'[m].got \subseteq router
      BY <1>2, <3>2 DEF InForce, Typed
    <3> QED
      BY <1>1, <2>1, <3>2, <3>3, <3>4 DEF InForce
  <2> QED
    BY <1>8, <2>2, <2>3, <2>4, <2>5, <2>6 DEF Elsewhere
<1>9. CASE UNCHANGED vars
  BY <1>9 DEF vars, InForce, Used
<1> QED
  BY <1>3, <1>4, <1>6, <1>7, <1>8, <1>9, StepKinds

-----------------------------------------------------------------------------
(* How the acts stand.                                                     *)
Unchanging(c) == \A name \in DOMAIN c.acts : ~ChangesSomething(c.acts[name])
Part(k) == ActOf(k).part
Debts(act) == CHOOSE d \in [DOMAIN act.steps -> Standings] : Settles(act, d)
Stands(k) == Debts(ActOf(k))[acts[k].pc]
(* The call of act k has been answered, and what it then changed.          *)
Heard(k) == acts[k].at \in {"served", "timer"} /\ acts[k].ans = "ok"
Fresh(k) ==
  IF Heard(k) /\ Changes(StepOf(k)) THEN {<<k, acts[k].pc>>} ELSE {}

(* What an act is stays, and with its record how it stands.                *)
LEMMA SameAct ==
  ASSUME card' = card, NEW k, acts'[k].name = acts[k].name
  PROVE  ActOf(k)' = ActOf(k) /\ Part(k)' = Part(k)
BY DEF ActOf, Part

LEMMA SameRecord ==
  ASSUME card' = card, NEW k, acts'[k] = acts[k]
  PROVE  /\ ActOf(k)' = ActOf(k) /\ Part(k)' = Part(k)
         /\ StepOf(k)' = StepOf(k) /\ Stands(k)' = Stands(k)
         /\ InProgress(k)' = InProgress(k) /\ Heard(k)' = Heard(k)
         /\ Fresh(k)' = Fresh(k) /\ EffectsOf(k)' = EffectsOf(k)
<1>1. ActOf(k)' = ActOf(k) /\ StepOf(k)' = StepOf(k)
  BY DEF ActOf, StepOf
<1> QED
  BY <1>1 DEF Part, Stands, InProgress, Heard, Fresh, EffectsOf

(* The descriptions of cards that nothing overtakes.                       *)
LEMMA ShownScript ==
  ASSUME Typed, card.name \notin Overtaken, NEW k \in Used
  PROVE  /\ Plain(ActOf(k))
         /\ <<card.name, acts[k].name>> \notin HalfShown /\ Part(k) # "elsewhere"
              => Settles(ActOf(k), Debts(ActOf(k)))
<1>1. card \in Catalogue /\ acts[k].name \in DOMAIN card.acts /\ k \in Slots
  BY DEF Typed, Placed, Used
<1>2. ASSUME <<card.name, acts[k].name>> \notin HalfShown,
             Part(k) # "elsewhere"
      PROVE  \E d \in [DOMAIN ActOf(k).steps -> Standings] :
               Settles(ActOf(k), d)
  BY <1>1, <1>2, ChangesAreShown DEF Part, ActOf
<1>3. ASSUME NEW act, \E d \in [DOMAIN act.steps -> Standings] : Settles(act, d)
      PROVE  Settles(act, Debts(act))
  BY <1>3 DEF Debts
<1>4. Plain(ActOf(k))
  BY <1>1, ChangesAreShown DEF ActOf
<1> QED
  BY <1>2, <1>3, <1>4

(* How an act stands after the answer to its call.                         *)
LEMMA AnswerSettles ==
  ASSUME Typed, card.name \notin Overtaken, NEW k \in Used,
         Settles(ActOf(k), Debts(ActOf(k)))
  PROVE  LET act == ActOf(k)
             i == acts[k].pc
             s == Answered(act, i, Stands(k))
             t == Refused(act, i, Stands(k))
         IN  /\ GoesTo(act, Debts(act), i, StepOf(k).ok, s)
             /\ Changes(StepOf(k))
                  => GoesTo(act, Debts(act), i, StepOf(k).thrown, t)
<1>1. acts[k].pc \in DOMAIN ActOf(k).steps
  <2>1. k \in Slots /\ acts[k].at # "unused"
    BY DEF Used
  <2> QED
    BY <2>1, ScriptOf
<1> QED
  BY <1>1 DEF Settles, Stands, StepOf

-----------------------------------------------------------------------------
(* A card where nothing races, while nothing fails.  What is in force and  *)
(* not shown was changed by an act that still has to show it; what an      *)
(* answer brings is all there is of its part; and no reading is under way  *)
(* that could bring anything older.                                        *)
Calm == faults = 0 /\ card.name \notin Racing
CalmActs ==
  \A k \in Slots :
    InProgress(k) => acts[k].ans = "ok" /\ Straight(ActOf(k), acts[k].pc)
CalmShown ==
  /\ jobs = {} /\ shown \subseteq router
  /\ \A k \in Slots : Fresh(k) \subseteq router
  /\ \A x \in shown : Part(x[1]) # "elsewhere"
  /\ \A x \in router :
       Part(x[1]) # "elsewhere" /\ x \notin shown
         => /\ InProgress(x[1])
            /\ Stands(x[1]) # "shown" \/ x \in Fresh(x[1])
CalmAnswers ==
  \A k \in Slots :
    Heard(k) /\ "show" \in StepOf(k).ok
      => \A x \in router : Part(x[1]) = Part(k) => x \in acts[k].got
CalmReadings ==
  /\ Unchanging(card) => router = {}
  /\ ~Unchanging(card)
       => \A l \in Readings :
            loads[l].at # "idle" => l = Mount /\ ~loaded /\ Used = {}
CalmInv ==
  Calm => CalmActs /\ CalmShown /\ CalmAnswers /\ CalmReadings

LEMMA CalmBefore ==
  ASSUME Typed, [Next]_vars, Calm'
  PROVE  Calm /\ faults' = faults /\ card' = card
BY FaultsGrow, UsedStays DEF Calm, Typed

(* What the description of the card then says of an act.                   *)
LEMMA CalmScript ==
  ASSUME Typed, card.name \notin Racing, NEW k \in Used
  PROVE  /\ card.name \notin Overtaken /\ ~Excused(SentTwice)
         /\ Plain(ActOf(k))
         /\ Part(k) # "elsewhere" => Settles(ActOf(k), Debts(ActOf(k)))
         /\ StepOf(k).call \notin Starting /\ "load" \notin StepOf(k).ok
         /\ Straight(ActOf(k), acts[k].pc) => "last" \notin StepOf(k).ok
<1>1. /\ card \in Catalogue /\ k \in Slots /\ acts[k].at # "unused"
      /\ \A j \in Used : acts[j].name \in DOMAIN card.acts
  BY DEF Typed, Placed, Used
<1>2. card.name \notin Overtaken
  BY DEF Racing
<1>3. \A j \in Used :
        <<card.name, acts[j].name>> \notin SentTwice \union HalfShown
  BY <1>1, PartsAreGuarded
<1>4. acts[k].pc \in DOMAIN ActOf(k).steps
  BY <1>1, ScriptOf
<1>5. /\ StepOf(k).call \notin Starting /\ "load" \notin StepOf(k).ok
      /\ Straight(ActOf(k), acts[k].pc) => "last" \notin StepOf(k).ok
  BY <1>1, <1>4, PartsAreGuarded DEF StepOf, ActOf
<1> QED
  BY <1>2, <1>3, <1>5, ShownScript DEF Excused

(* While an answer that brings a part of the data is under way, no other   *)
(* act is about to change that part.                                       *)
LEMMA CalmAlone ==
  ASSUME Typed, FlagsHeld, CalmActs, card.name \notin Racing,
         NEW j \in Slots, NEW k \in Slots, InProgress(j), InProgress(k),
         Part(j) = Part(k), Part(j) # "elsewhere",
         "show" \in StepOf(j).ok, Changes(StepOf(k))
  PROVE  j = k
<1>1. /\ j \in Used /\ k \in Used /\ card \in Catalogue
      /\ acts[j].at # "unused" /\ acts[k].at # "unused"
      /\ acts[j].name \in DOMAIN card.acts /\ acts[k].name \in DOMAIN card.acts
  BY DEF Typed, Placed, Used, InProgress
<1>2. /\ acts[j].pc \in DOMAIN ActOf(j).steps /\ acts[k].pc \in DOMAIN ActOf(k).steps
      /\ acts[j].pc \in acts[j].pc .. Len(ActOf(j).steps)
      /\ acts[k].pc \in acts[k].pc .. Len(ActOf(k).steps)
  BY <1>1, ScriptOf
<1>3. Brings(card, Part(j))
  BY ZenonT(60), <1>1, <1>2 DEF Brings, Part, ActOf, StepOf
<1>4. PICK flag \in FlagsOf(card) : Guards(card, flag) /\ Holds(card, Part(j), flag)
  BY <1>1, <1>3, PartsAreGuarded DEF Part, ActOf
<1>5. Straight(ActOf(j), acts[j].pc) /\ Straight(ActOf(k), acts[k].pc)
  BY DEF CalmActs
<1>6. /\ Touches(ActOf(j), flag) /\ Concerns(StepOf(j), flag)
      /\ Touches(ActOf(k), flag) /\ Concerns(StepOf(k), flag)
  BY ZenonT(60), <1>1, <1>2, <1>4, <1>5 DEF Holds, Weighs, Part, ActOf, StepOf
<1>7. Live(j, flag) /\ Live(k, flag)
  BY <1>2, <1>6 DEF Live, LiveAt, StepOf
<1> QED
  BY <1>1, <1>4, <1>7, CalmScript DEF FlagsHeld

LEMMA CalmBegins ==
  ASSUME Typed, InForce, CalmInv, Calm, Begins
  PROVE  CalmInv'
<1>1. PICK k \in Slots, name \in DOMAIN card.acts :
        /\ acts[k].at = "unused" /\ loaded
        /\ \E item \in ItemsOf(k, card.acts[name]) : Begin(k, name, item)
  BY DEF Begins
<1> DEFINE act == card.acts[name]
<1>2. /\ \A j \in Slots : j # k => acts'[j] = acts[j]
      /\ acts'[k].name = name /\ acts'[k].pc = 1
      /\ acts'[k].at = Waiting(act.steps[1]) /\ acts'[k].ans = "ok"
      /\ shown' = IF "patch" \in act.start THEN shown \union {<<k, 1>>} ELSE shown
      /\ UNCHANGED <<card, router, jobs, loaded, loads>>
  BY <1>1, BeginRecord
<1>3. /\ Plain(act) /\ act.steps # <<>> /\ act.steps \in Seq(ScriptSteps)
  BY <1>1, ChangesAreShown, ScriptsAreWellFormed
     DEF Calm, Racing, Typed, WellFormed
<1>4. shown' = shown
  BY <1>2, <1>3 DEF Plain
<1>5. k \notin Used
  BY <1>1 DEF Used
<1>6. /\ CalmActs /\ CalmShown /\ CalmAnswers /\ CalmReadings
  BY DEF CalmInv
<1>7. ActOf(k)' = act /\ StepOf(k)' = act.steps[1]
  BY <1>2 DEF ActOf, StepOf
<1>8. CalmActs'
  <2>1. acts'[k].ans = "ok" /\ Straight(ActOf(k)', acts'[k].pc)
    BY <1>2 DEF Straight
  <2> QED
    BY <1>2, <1>6, <2>1, SameRecord DEF CalmActs
<1>9. CalmShown'
  <2>1. \A x \in router \union shown : x[1] \in Slots /\ x[1] # k
    BY <1>5 DEF InForce, Used
  <2>2. \A j \in Slots :
          j # k => /\ Part(j)' = Part(j) /\ InProgress(j)' = InProgress(j)
                   /\ Stands(j)' = Stands(j) /\ Fresh(j)' = Fresh(j)
    BY <1>2, SameRecord
  <2>3. Fresh(k)' = {}
    BY <1>2, <1>7, ChangesAreShown DEF Fresh, Heard, Waiting, Changes
  <2> QED
    BY <1>2, <1>4, <1>6, <2>1, <2>2, <2>3 DEF CalmShown
<1>10. CalmAnswers'
  <2>1. ~(Heard(k)' /\ "show" \in StepOf(k)'.ok)
    <3>1. Heard(k)' => act.steps[1].call = "timer"
      BY <1>2 DEF Heard, Waiting
    <3>2. 1 \in DOMAIN act.steps
      BY <1>3
    <3> QED
      BY <1>3, <1>7, <3>1, <3>2 DEF Plain
  <2>2. \A x \in router : x[1] \in Slots /\ x[1] # k
    BY <1>5 DEF InForce, Used
  <2>3. \A j \in Slots :
          j # k => /\ Part(j)' = Part(j) /\ Heard(j)' = Heard(j)
                   /\ StepOf(j)' = StepOf(j)
    BY <1>2, SameRecord
  <2> QED
    BY <1>2, <1>6, <2>1, <2>2, <2>3 DEF CalmAnswers
<1>11. CalmReadings'
  BY <1>1, <1>2, <1>6 DEF CalmReadings, Unchanging
<1> QED
  BY <1>8, <1>9, <1>10, <1>11 DEF CalmInv

LEMMA CalmServed ==
  ASSUME Typed, FlagsHeld, InForce, CalmInv, Calm, NEW k \in Slots,
         Served(k, Changes(StepOf(k)), "ok")
  PROVE  CalmInv'
<1> DEFINE id == <<k, acts[k].pc>>
<1>1. Changes(StepOf(k)) \in BOOLEAN
  BY DEF Changes
<1>2. /\ acts[k].at = "sent" /\ k \in Used
      /\ \A j \in Slots : j # k => acts'[j] = acts[j]
      /\ acts'[k].name = acts[k].name /\ acts'[k].pc = acts[k].pc
      /\ acts'[k].at = "served" /\ acts'[k].ans = "ok"
      /\ acts'[k].got = router'
      /\ router' = IF Changes(StepOf(k)) /\ StepOf(k).call \notin Starting
                     THEN router \union {id} ELSE router
      /\ jobs' = IF Changes(StepOf(k)) /\ StepOf(k).call \in Starting
                   THEN jobs \union {id} ELSE jobs
      /\ UNCHANGED <<card, shown, loaded, loads>>
  BY <1>1, ServedRecord
<1>3. CalmActs /\ CalmShown /\ CalmAnswers /\ CalmReadings
  BY DEF CalmInv
<1>4. StepOf(k).call \notin Starting
  BY <1>2, CalmScript DEF Calm
<1>5. /\ jobs' = jobs
      /\ router' = IF Changes(StepOf(k)) THEN router \union {id} ELSE router
  BY <1>2, <1>4
<1>6. /\ ActOf(k)' = ActOf(k) /\ Part(k)' = Part(k) /\ StepOf(k)' = StepOf(k)
      /\ Stands(k)' = Stands(k)
  BY <1>2, SameAct DEF StepOf, Stands
<1>7. \A j \in Slots :
        j # k => /\ Part(j)' = Part(j) /\ InProgress(j)' = InProgress(j)
                 /\ Stands(j)' = Stands(j) /\ Fresh(j)' = Fresh(j)
                 /\ Heard(j)' = Heard(j) /\ StepOf(j)' = StepOf(j)
                 /\ ActOf(j)' = ActOf(j)
  BY <1>2, SameRecord
<1>8. InProgress(k) /\ InProgress(k)' /\ Fresh(k) = {}
  BY <1>2 DEF InProgress, Fresh, Heard
<1>9. \A j \in Slots : Part(j)' = Part(j)
  BY <1>6, <1>7
<1>10. Used' = Used
  BY <1>2 DEF Used
<1>11. CalmActs'
  BY <1>2, <1>3, <1>6, <1>7, <1>8 DEF CalmActs
<1>12. CalmShown'
  <2>1. \A x \in router \union shown : x[1] \in Slots
    BY DEF InForce, Used
  <2>2. Changes(StepOf(k)) => id \in Fresh(k)'
    BY <1>2, <1>6 DEF Fresh, Heard, Changes
  <2>3. ASSUME NEW x \in router', Part(x[1])' # "elsewhere", x \notin shown'
        PROVE  /\ InProgress(x[1])'
               /\ Stands(x[1])' # "shown" \/ x \in Fresh(x[1])'
    <3>1. CASE x \in router /\ x[1] = k
      BY <1>2, <1>3, <1>6, <1>8, <2>3, <3>1 DEF CalmShown
    <3>2. CASE x \in router /\ x[1] # k
      BY <1>2, <1>3, <1>7, <2>1, <2>3, <3>2 DEF CalmShown
    <3>3. CASE x \notin router
      <4>1. Changes(StepOf(k)) /\ x = id
        BY <1>5, <2>3, <3>3
      <4>2. x[1] = k
        BY <4>1
      <4> QED
        BY <1>8, <2>2, <4>1, <4>2
    <3> QED
      BY <3>1, <3>2, <3>3
  <2>4. jobs' = {} /\ shown' \subseteq router'
    BY <1>2, <1>3, <1>5 DEF CalmShown
  <2>5. \A x \in shown' : Part(x[1])' # "elsewhere"
    BY <1>2, <1>3, <1>9, <2>1 DEF CalmShown
  <2>6. Fresh(k)' \subseteq router'
    BY <1>2, <1>5, <1>6 DEF Fresh, Changes
  <2>7. \A j \in Slots : j # k => Fresh(j)' \subseteq router'
    BY <1>3, <1>5, <1>7 DEF CalmShown
  <2> QED
    BY <2>3, <2>4, <2>5, <2>6, <2>7 DEF CalmShown
<1>13. CalmAnswers'
  <2> SUFFICES ASSUME NEW j \in Slots, Heard(j)', "show" \in StepOf(j)'.ok,
                      NEW x \in router', Part(x[1])' = Part(j)'
               PROVE  x \in acts'[j].got
    BY DEF CalmAnswers
  <2>1. CASE j = k
    BY <1>2, <2>1
  <2>2. CASE j # k /\ x \in router
    <3>1. x[1] \in Slots
      BY <2>2 DEF InForce, Used
    <3> QED
      BY <1>2, <1>3, <1>7, <1>9, <2>2, <3>1 DEF CalmAnswers
  <2>3. CASE j # k /\ x \notin router
    <3>1. Changes(StepOf(k)) /\ x = id
      BY <1>5, <2>3
    <3>2. Part(j) = Part(k)
      BY <1>9, <3>1
    <3>3. InProgress(j) /\ "show" \in StepOf(j).ok
      BY <1>7, <2>3 DEF Heard, InProgress
    <3>4. j \in Used
      BY <3>3 DEF InProgress, Used
    <3>5. Part(j) # "elsewhere"
      <4>1. acts[j].pc \in DOMAIN ActOf(j).steps
        BY <3>4, ScriptOf DEF Used
      <4>2. Plain(ActOf(j))
        BY <3>4, CalmScript DEF Calm
      <4> QED
        BY <3>3, <4>1, <4>2 DEF Plain, Part, StepOf, Outcomes
    <3> QED
      BY <1>3, <1>8, <2>3, <3>1, <3>2, <3>3, <3>5, CalmAlone DEF Calm
  <2> QED
    BY <2>1, <2>2, <2>3
<1>14. CalmReadings'
  <2>1. Unchanging(card) => ~Changes(StepOf(k))
    <3>1. acts[k].name \in DOMAIN card.acts /\ acts[k].pc \in DOMAIN ActOf(k).steps
      BY <1>2, ScriptOf DEF Typed, Placed, Used
    <3> QED
      BY <3>1 DEF Unchanging, ChangesSomething, StepOf, ActOf
  <2>2. Unchanging(card)' = Unchanging(card)
    BY <1>2 DEF Unchanging
  <2> QED
    BY <1>2, <1>3, <1>5, <1>10, <2>1, <2>2 DEF CalmReadings
<1> QED
  BY <1>11, <1>12, <1>13, <1>14 DEF CalmInv

(* Going on, an act that does not show all it changed stands no better.    *)
LEMMA CalmGoesOn ==
  ASSUME Typed, CalmActs, card.name \notin Racing, NEW k \in Slots, Resumes(k)
  PROVE  /\ EffectsOf(k) = StepOf(k).ok /\ StepOf(k) \in ScriptSteps
         /\ acts[k].pc \in 1 .. Len(ActOf(k).steps)
         /\ GoesOn(k) <=> "next" \in StepOf(k).ok
         /\ GoesOn(k) => NextPc(k) = acts[k].pc + 1
         /\ /\ Part(k) # "elsewhere" /\ "show" \notin StepOf(k).ok
            /\ \/ Stands(k) # "shown"
               \/ Changes(StepOf(k)) /\ "patch" \notin StepOf(k).ok
            => GoesOn(k) /\ Debts(ActOf(k))[NextPc(k)] # "shown"
<1> DEFINE act == ActOf(k)
           step == StepOf(k)
           pc == acts[k].pc
<1>1. InProgress(k) /\ acts[k].at # "unused" /\ k \in Used
  BY DEF Resumes, InProgress, Used
<1>2. acts[k].ans = "ok" /\ Straight(act, pc)
  BY <1>1 DEF CalmActs
<1>3. EffectsOf(k) = step.ok
  BY <1>2 DEF EffectsOf
<1>4. /\ step \in ScriptSteps /\ pc \in 1 .. Len(act.steps)
  BY <1>1, ScriptOf
<1>5. /\ "last" \notin step.ok /\ "load" \notin step.ok
      /\ step.call \notin Starting
      /\ card.name \notin Overtaken
      /\ Part(k) # "elsewhere" => Settles(act, Debts(act))
  BY <1>1, <1>2, CalmScript
<1>6. /\ GoesOn(k) <=> "next" \in step.ok
      /\ GoesOn(k) => NextPc(k) = pc + 1
  BY <1>3, <1>5 DEF GoesOn, NextPc
<1>7. ASSUME Part(k) # "elsewhere", "show" \notin step.ok,
             Stands(k) # "shown" \/ (Changes(step) /\ "patch" \notin step.ok)
      PROVE  GoesOn(k) /\ Debts(act)[NextPc(k)] # "shown"
  <2>1. GoesTo(act, Debts(act), pc, step.ok, Answered(act, pc, Stands(k)))
    BY <1>1, <1>5, <1>7, AnswerSettles
  <2>2. Answered(act, pc, Stands(k)) = Made(step, Stands(k))
    BY <1>5, <1>7 DEF Answered, Brought, StepOf
  <2>3. Made(step, Stands(k)) # "shown"
    BY <1>7 DEF Made
  <2>4. "next" \in step.ok /\ Within(Made(step, Stands(k)), Debts(act)[pc + 1])
    BY <1>5, <2>1, <2>2, <2>3 DEF GoesTo
  <2> QED
    BY <1>6, <2>3, <2>4 DEF Within
<1> QED
  BY <1>3, <1>4, <1>6, <1>7

LEMMA CalmResumes ==
  ASSUME Typed, InForce, CalmInv, Calm, NEW k \in Slots, Resumes(k)
  PROVE  CalmInv'
<1> DEFINE step == StepOf(k)
           id == <<k, acts[k].pc>>
<1>1. /\ k \in Used
      /\ \A j \in Slots : j # k => acts'[j] = acts[j]
      /\ acts'[k].name = acts[k].name /\ acts'[k].pc = NextPc(k)
      /\ acts'[k].at = IF GoesOn(k) THEN Waiting(ActOf(k).steps[NextPc(k)])
                                    ELSE "ended"
      /\ acts'[k].ans = "ok"
      /\ shown' = Shows(k, EffectsOf(k))
      /\ loads' = IF "load" \in EffectsOf(k)
                    THEN [loads EXCEPT ![k] = Open] ELSE loads
      /\ UNCHANGED <<card, router, jobs, loaded>>
  BY ResumeRecord
<1>2. CalmActs /\ CalmShown /\ CalmAnswers /\ CalmReadings
  BY DEF CalmInv
<1>3. InProgress(k) /\ acts[k].ans = "ok" /\ Straight(ActOf(k), acts[k].pc)
  BY <1>2 DEF Resumes, CalmActs
<1>4. /\ EffectsOf(k) = step.ok
      /\ acts[k].pc \in 1 .. Len(ActOf(k).steps)
      /\ GoesOn(k) <=> "next" \in step.ok
      /\ GoesOn(k) => NextPc(k) = acts[k].pc + 1
      /\ /\ Part(k) # "elsewhere" /\ "show" \notin step.ok
         /\ Stands(k) # "shown" \/ (Changes(step) /\ "patch" \notin step.ok)
         => GoesOn(k) /\ Debts(ActOf(k))[NextPc(k)] # "shown"
  BY <1>2, CalmGoesOn DEF Calm
<1>5. Plain(ActOf(k)) /\ step.call \notin Starting /\ "load" \notin step.ok
  BY <1>1, CalmScript DEF Calm
<1>6. /\ "undo" \notin step.ok
      /\ "show" \in step.ok => "patch" \notin step.ok
      /\ "patch" \in step.ok => Changes(step)
      /\ Part(k) = "elsewhere" => "show" \notin step.ok /\ "patch" \notin step.ok
  <2>1. acts[k].pc \in DOMAIN ActOf(k).steps
    BY <1>1, ScriptOf DEF Used
  <2> QED
    BY <1>5, <2>1 DEF Plain, Part, StepOf, Outcomes
<1>7. /\ ActOf(k)' = ActOf(k) /\ Part(k)' = Part(k)
      /\ Stands(k)' = Debts(ActOf(k))[NextPc(k)]
      /\ InProgress(k)' <=> GoesOn(k)
  <2>1. ActOf(k)' = ActOf(k) /\ Part(k)' = Part(k)
    BY <1>1, SameAct
  <2>2. InProgress(k)' <=> GoesOn(k)
    <3>1. Waiting(ActOf(k).steps[NextPc(k)]) \in {"timer", "sent"}
      BY DEF Waiting
    <3>2. InProgress(k)' <=> acts'[k].at \in {"sent", "served", "timer"}
      BY DEF InProgress
    <3> QED
      BY <1>1, <3>1, <3>2
  <2> QED
    BY <1>1, <2>1, <2>2 DEF Stands
<1>8. \A j \in Slots :
        j # k => /\ Part(j)' = Part(j) /\ InProgress(j)' = InProgress(j)
                 /\ Stands(j)' = Stands(j) /\ Fresh(j)' = Fresh(j)
                 /\ Heard(j)' = Heard(j) /\ StepOf(j)' = StepOf(j)
                 /\ ActOf(j)' = ActOf(j)
  BY <1>1, SameRecord
<1>9. \A x \in router \union shown \union acts[k].got : x[1] \in Slots
  BY DEF InForce, Used
<1>10. loads' = loads
  BY <1>1, <1>4, <1>5
<1>11. Used' = Used
  BY UsedStaysSo
<1>12. CalmActs'
  <2>1. GoesOn(k) => Straight(ActOf(k), NextPc(k))
    BY <1>3, <1>4 DEF Straight, StepOf
  <2> QED
    BY <1>1, <1>2, <1>7, <1>8, <2>1 DEF CalmActs
<1>13. acts[k].got \subseteq router
  BY DEF InForce
<1>14. Heard(k)
  BY <1>3 DEF Resumes, Resume, InProgress, Heard
<1>15. "show" \in step.ok
        => \A x \in router : Part(x[1]) = Part(k) => x \in acts[k].got
  BY <1>2, <1>14 DEF CalmAnswers
<1>16. shown' \subseteq router
       /\ \A x \in shown' : Part(x[1]) # "elsewhere"
  <2>1. CASE "show" \in step.ok
    <3>1. shown' = {x \in shown : Part(x[1]) # Part(k)}
                     \union {x \in acts[k].got : Part(x[1]) = Part(k)}
      BY <1>1, <1>4, <2>1 DEF Shows, Part
    <3>2. Part(k) # "elsewhere"
      BY <1>6, <2>1
    <3> QED
      BY <1>2, <1>13, <3>1, <3>2 DEF CalmShown
  <2>2. CASE "show" \notin step.ok /\ "patch" \in step.ok
    <3>1. shown' = shown \union {id} /\ Part(k) # "elsewhere"
      BY <1>1, <1>4, <1>6, <2>2 DEF Shows
    <3>2. id \in Fresh(k)
      BY <1>6, <1>14, <2>2 DEF Fresh
    <3>3. id \in router
      BY <1>2, <3>2 DEF CalmShown
    <3> QED
      BY <1>2, <3>1, <3>3 DEF CalmShown
  <2>3. CASE "show" \notin step.ok /\ "patch" \notin step.ok
    <3>1. shown' = shown
      BY <1>1, <1>4, <1>6, <2>3 DEF Shows
    <3> QED
      BY <1>2, <3>1 DEF CalmShown
  <2> QED
    BY <2>1, <2>2, <2>3
<1>17. CalmShown'
  <2>1. Fresh(k)' = {}
    <3>1. Heard(k)' => /\ GoesOn(k) /\ Waiting(ActOf(k).steps[NextPc(k)]) = "timer"
      BY <1>1 DEF Heard, Waiting
    <3>2. Heard(k)' => StepOf(k)'.call = "timer"
      BY <1>1, <1>7, <3>1 DEF StepOf, Waiting
    <3> QED
      BY <3>2, ChangesAreShown DEF Fresh, Changes
  <2>2. ASSUME NEW x \in router, Part(x[1]) # "elsewhere", x \notin shown'
        PROVE  InProgress(x[1])' /\ (Stands(x[1])' # "shown" \/ x \in Fresh(x[1])')
    <3>1. x[1] \in Slots
      BY <1>9
    <3>2. "show" \in step.ok => Part(x[1]) # Part(k) /\ x \notin shown
      <4> SUFFICES ASSUME "show" \in step.ok
                   PROVE  Part(x[1]) # Part(k) /\ x \notin shown
        OBVIOUS
      <4>1. shown' = {y \in shown : Part(y[1]) # Part(k)}
                       \union {y \in acts[k].got : Part(y[1]) = Part(k)}
        BY <1>1, <1>4 DEF Shows, Part
      <4> QED
        BY <1>15, <2>2, <4>1
    <3>3. "show" \notin step.ok
            => /\ x \notin shown
               /\ "patch" \in step.ok => x # id
      BY <1>1, <1>4, <1>6, <2>2 DEF Shows
    <3>4. InProgress(x[1]) /\ (Stands(x[1]) # "shown" \/ x \in Fresh(x[1]))
      BY <1>2, <2>2, <3>2, <3>3 DEF CalmShown
    <3>5. CASE x[1] # k
      BY <1>8, <3>1, <3>4, <3>5
    <3>6. CASE x[1] = k
      <4>1. "show" \notin step.ok /\ Part(k) # "elsewhere"
        BY <2>2, <3>2, <3>6
      <4>2. x \in Fresh(k) => Changes(step) /\ x = id
        BY DEF Fresh
      <4>3. Stands(k) # "shown" \/ (Changes(step) /\ "patch" \notin step.ok)
        BY <3>3, <3>4, <3>6, <4>1, <4>2
      <4> QED
        BY <1>4, <1>7, <3>6, <4>1, <4>3
    <3> QED
      BY <3>5, <3>6
  <2>3. \A j \in Slots : Part(j)' = Part(j)
    BY <1>7, <1>8
  <2>4. \A j \in Slots : Fresh(j)' \subseteq router'
    BY <1>1, <1>2, <1>8, <2>1 DEF CalmShown
  <2>5. \A x \in shown' : x[1] \in Slots
    BY <1>9, <1>16
  <2>6. jobs' = {} /\ shown' \subseteq router'
    BY <1>1, <1>2, <1>16 DEF CalmShown
  <2>7. \A x \in shown' : Part(x[1])' # "elsewhere"
    BY <1>16, <2>3, <2>5
  <2>8. \A x \in router' : Part(x[1])' = Part(x[1]) /\ x \in router
    BY <1>1, <1>9, <2>3
  <2> QED
    BY <2>2, <2>4, <2>6, <2>7, <2>8 DEF CalmShown
<1>18. CalmAnswers'
  <2>1. ~(Heard(k)' /\ "show" \in StepOf(k)'.ok)
    <3> SUFFICES ASSUME Heard(k)'
                 PROVE  "show" \notin StepOf(k)'.ok
      OBVIOUS
    <3>1. GoesOn(k) /\ Waiting(ActOf(k).steps[NextPc(k)]) = "timer"
      BY <1>1 DEF Heard, Waiting
    <3>2. NextPc(k) \in DOMAIN ActOf(k).steps
      <4>1. acts[k].pc < Len(ActOf(k).steps)
        BY <1>1, <1>4, <3>1, ScriptOf DEF Used
      <4> QED
        BY <1>1, <1>4, <3>1, <4>1, ScriptOf DEF Used
    <3>3. StepOf(k)' = ActOf(k).steps[NextPc(k)]
      BY <1>1, <1>7 DEF StepOf
    <3> QED
      BY <1>5, <3>1, <3>2, <3>3 DEF Plain, Waiting
  <2>2. \A x \in router : x[1] \in Slots
    BY <1>9
  <2>3. \A j \in Slots : Part(j)' = Part(j)
    BY <1>7, <1>8
  <2> QED
    BY <1>1, <1>2, <1>8, <2>1, <2>2, <2>3 DEF CalmAnswers
<1>19. CalmReadings'
  BY <1>1, <1>2, <1>10, <1>11 DEF CalmReadings, Unchanging
<1> QED
  BY <1>12, <1>17, <1>18, <1>19 DEF CalmInv

LEMMA CalmChecks ==
  ASSUME Typed, CalmInv, Calm, NEW k \in Slots, Check(k)
  PROVE  CalmInv'
<1>1. /\ acts' = [acts EXCEPT ![k].at = "timer"] /\ acts[k].at = "served"
      /\ acts[k].ans = "ok"
      /\ UNCHANGED <<card, router, jobs, shown, loaded, loads>>
  BY DEF Check, Checked
<1>2. /\ \A j \in Slots : j # k => acts'[j] = acts[j]
      /\ acts'[k].name = acts[k].name /\ acts'[k].pc = acts[k].pc
      /\ acts'[k].at = "timer" /\ acts'[k].ans = "ok"
      /\ acts'[k].got = acts[k].got
  BY <1>1 DEF Typed, SlotType
<1>3. /\ ActOf(k)' = ActOf(k) /\ Part(k)' = Part(k) /\ StepOf(k)' = StepOf(k)
      /\ Stands(k)' = Stands(k)
  BY <1>1, <1>2, SameAct DEF StepOf, Stands
<1>4. /\ InProgress(k)' /\ InProgress(k) /\ Heard(k)' /\ Heard(k)
      /\ Fresh(k)' = Fresh(k)
  <2>1. InProgress(k)' /\ InProgress(k) /\ Heard(k)' /\ Heard(k)
    BY <1>1, <1>2 DEF InProgress, Heard
  <2> QED
    BY <1>2, <1>3, <2>1 DEF Fresh, Changes
<1>5. \A j \in Slots :
        /\ Part(j)' = Part(j) /\ (InProgress(j)' <=> InProgress(j))
        /\ Stands(j)' = Stands(j) /\ Fresh(j)' = Fresh(j)
        /\ (Heard(j)' <=> Heard(j)) /\ StepOf(j)' = StepOf(j)
        /\ ActOf(j)' = ActOf(j) /\ acts'[j].pc = acts[j].pc
        /\ acts'[j].ans = acts[j].ans /\ acts'[j].got = acts[j].got
  BY <1>1, <1>2, <1>3, <1>4, SameRecord
<1>6. Used' = Used
  BY <1>1, <1>2 DEF Used
<1>7. \A x \in router \union shown : x[1] \in Slots
  BY DEF Typed, Ids
<1>8. CalmActs /\ CalmShown /\ CalmAnswers /\ CalmReadings
  BY DEF CalmInv
<1>9. CalmActs'
  BY <1>5, <1>8 DEF CalmActs
<1>10. CalmShown'
  BY <1>1, <1>5, <1>7, <1>8 DEF CalmShown
<1>11. CalmAnswers'
  BY <1>1, <1>5, <1>7, <1>8 DEF CalmAnswers
<1>12. CalmReadings'
  BY <1>1, <1>6, <1>8 DEF CalmReadings, Unchanging
<1> QED
  BY <1>9, <1>10, <1>11, <1>12 DEF CalmInv

LEMMA CalmElsewhere ==
  ASSUME Typed, InForce, CalmInv, Calm, Elsewhere, faults' = faults
  PROVE  CalmInv'
<1>1. card' = card /\ acts' = acts /\ Used' = Used
  BY ElsewhereLeaves DEF Used
<1>2. CalmActs /\ CalmShown /\ CalmAnswers /\ CalmReadings
  BY DEF CalmInv
<1>3. \A j \in Slots :
        /\ Part(j)' = Part(j) /\ (InProgress(j)' <=> InProgress(j))
        /\ Stands(j)' = Stands(j) /\ Fresh(j)' = Fresh(j)
        /\ (Heard(j)' <=> Heard(j)) /\ StepOf(j)' = StepOf(j)
        /\ ActOf(j)' = ActOf(j)
  BY <1>1, SameRecord
<1>4. \A x \in router \union shown : x[1] \in Slots
  BY DEF Typed, Ids
<1>5. CalmActs'
  BY <1>1, <1>2, <1>3 DEF CalmActs
<1>6. UNCHANGED <<router, jobs>>
  <2>1. CASE \E id \in jobs : Land(id)
    BY <1>2, <2>1 DEF CalmShown
  <2> QED
    BY <2>1 DEF Elsewhere, Type, Choose, Poll, Feed, LoadAgain,
                      ServeLoad, BreakLoad, Arrive
<1>7. CalmAnswers'
  BY <1>1, <1>2, <1>3, <1>4, <1>6 DEF CalmAnswers
<1>8. ASSUME shown' = shown \/ (router = {} /\ shown' = {}), CalmReadings'
      PROVE  CalmInv'
  <2>1. CalmShown'
    BY <1>1, <1>2, <1>3, <1>4, <1>6, <1>8 DEF CalmShown
  <2> QED
    BY <1>5, <1>7, <1>8, <2>1 DEF CalmInv
<1>9. CASE Type \/ \E id \in jobs : Land(id)
  <2>1. UNCHANGED <<shown, loads, loaded>>
    BY <1>9 DEF Type, Land
  <2> QED
    BY <1>1, <1>2, <1>6, <1>8, <2>1 DEF CalmReadings, Unchanging
<1>10. CASE Choose \/ Poll \/ Feed
  <2>1. /\ card.load \intersect {"poll", "fed", "subject"} # {}
        /\ shown' = shown
    BY <1>10 DEF Choose, Poll, Feed, LoadAgain
  <2>2. card \in Catalogue /\ card.name \notin Overtaken
    BY DEF Typed, Calm, Racing
  <2>3. Unchanging(card)
    BY <2>1, <2>2, ChangesAreShown DEF Unchanging
  <2> QED
    BY <1>1, <1>2, <1>6, <1>8, <2>1, <2>3 DEF CalmReadings
<1>11. ASSUME NEW l \in Readings, ServeLoad(l) \/ BreakLoad(l)
       PROVE  CalmInv'
  <2>1. /\ UNCHANGED <<shown, loaded>>
        /\ \A m \in Readings : loads'[m].at # "idle" => loads[m].at # "idle"
    BY <1>11 DEF ServeLoad, BreakLoad, Typed
  <2> QED
    BY <1>1, <1>2, <1>6, <1>8, <2>1 DEF CalmReadings, Unchanging
<1>12. ASSUME NEW l \in Readings, Arrive(l)
       PROVE  CalmInv'
  <2>1. loads[l].at # "idle"
    BY <1>12 DEF Arrive
  <2>2. Unchanging(card) \/ (l = Mount /\ Used = {})
    BY <1>2, <2>1 DEF CalmReadings
  <2>3. router = {}
    BY <1>2, <2>2 DEF CalmReadings, InForce
  <2>4. shown = {} /\ loads[l].got = {}
    BY <1>2, <2>3 DEF CalmShown, InForce
  <2>5. shown' = {}
    BY <1>12, <2>4 DEF Arrive, Apart
  <2>6. \A m \in Readings : loads'[m].at # "idle" => m # l /\ loads[m].at # "idle"
    <3>1. Idle.at = "idle"
      BY DEF Idle
    <3> QED
      BY <1>12, <3>1 DEF Arrive, Typed
  <2>7. ~Unchanging(card) => \A m \in Readings : loads'[m].at = "idle"
    BY <1>2, <2>1, <2>6 DEF CalmReadings
  <2> QED
    BY <1>1, <1>6, <1>8, <2>3, <2>5, <2>7 DEF CalmReadings, Unchanging
<1> QED
  BY <1>9, <1>10, <1>11, <1>12 DEF Elsewhere

LEMMA CalmStep ==
  ASSUME Typed, FlagsHeld, InForce, CalmInv, [Next]_vars
  PROVE  CalmInv'
<1> SUFFICES ASSUME Calm'
             PROVE  CalmInv'
  BY DEF CalmInv
<1>1. Calm /\ faults' = faults /\ card' = card
  BY CalmBefore
<1>2. CASE Begins
  BY <1>1, <1>2, CalmBegins
<1>3. CASE \E k \in Slots : Resumes(k)
  BY <1>1, <1>3, CalmResumes
<1>4. CASE \E k \in Slots : Request(k)
  <2>1. PICK k \in Slots : Request(k)
    BY <1>4
  <2>2. faults' # faults + 1
    BY <1>1 DEF Calm
  <2>3. Served(k, Changes(StepOf(k)), "ok")
    BY <2>1, <2>2, RequestFates
  <2> QED
    BY <1>1, <2>3, CalmServed
<1>5. CASE \E k \in Slots : Check(k)
  BY <1>1, <1>5, CalmChecks
<1>6. CASE Elsewhere
  BY <1>1, <1>6, CalmElsewhere
<1>7. CASE UNCHANGED vars
  <2>1. card' = card /\ acts' = acts /\ Used' = Used
    BY <1>7 DEF vars, Used
  <2>2. \A j \in Slots :
          /\ Part(j)' = Part(j) /\ (InProgress(j)' <=> InProgress(j))
          /\ Stands(j)' = Stands(j) /\ Fresh(j)' = Fresh(j)
          /\ (Heard(j)' <=> Heard(j)) /\ StepOf(j)' = StepOf(j)
          /\ ActOf(j)' = ActOf(j)
    BY <2>1, SameRecord
  <2>3. \A x \in router \union shown : x[1] \in Slots
    BY DEF Typed, Ids
  <2>4. UNCHANGED <<router, jobs, shown, loads, loaded>>
    BY <1>7 DEF vars
  <2>5. CalmActs' /\ CalmAnswers' /\ CalmReadings'
    BY <1>1, <2>1, <2>2, <2>3, <2>4
       DEF CalmInv, CalmActs, CalmAnswers, CalmReadings, Unchanging
  <2>6. CalmShown'
    BY <1>1, <2>1, <2>2, <2>3, <2>4 DEF CalmInv, CalmShown
  <2> QED
    BY <2>5, <2>6 DEF CalmInv
<1> QED
  BY <1>2, <1>3, <1>4, <1>5, <1>6, <1>7, StepKinds

LEMMA CalmInit ==
  ASSUME Init
  PROVE  InForce /\ CalmInv
<1>1. /\ \A k \in Slots : /\ acts[k].at = "unused" /\ acts[k].got = {}
                          /\ acts[k] = Unused
      /\ \A l \in Readings : loads[l].got = {}
      /\ router = {} /\ jobs = {} /\ shown = {}
  BY DEF Init, Unused, Idle, Open
<1>2. \A k \in Slots : ~InProgress(k) /\ ~Heard(k) /\ Fresh(k) = {}
  BY <1>1 DEF InProgress, Heard, Fresh
<1>3. Used = {}
  BY <1>1 DEF Used
<1>4. \A l \in Readings : loads[l].at # "idle" => l = Mount /\ ~loaded
  BY DEF Init, Idle
<1> QED
  BY <1>1, <1>2, <1>3, <1>4
     DEF InForce, CalmInv, CalmActs, CalmShown, CalmAnswers, CalmReadings

(* For any number of acts, started in any order and at any time: in the    *)
(* cards that Racing does not name, once nothing is under way the card     *)
(* shows what is in force, though answers and readings overtake each other.*)
THEOREM ConvergesAlways == Spec => []Converges
<1>1. ASSUME Typed, CalmInv
      PROVE  Converges
  <2> SUFFICES ASSUME Quiet, faults = 0, card.name \notin Racing
               PROVE  shown = Here
    BY DEF Converges
  <2>1. CalmShown
    BY <1>1 DEF CalmInv, Calm
  <2>2. \A x \in router \union shown : x[1] \in Slots
    BY <1>1 DEF Typed, Ids
  <2>3. \A x \in router : Part(x[1]) # "elsewhere" => x \in shown
    BY <2>1, <2>2 DEF CalmShown, Quiet
  <2>4. \A x \in shown : x \in router /\ Part(x[1]) # "elsewhere"
    BY <2>1 DEF CalmShown
  <2> QED
    BY <2>3, <2>4 DEF Here, Part
<1> QED
  BY <1>1, TypedInit, TypedStep, CardsInvInit, CardsInvStep, CalmInit,
     InForceStep, CalmStep, PTL DEF Spec, CardsInv

-----------------------------------------------------------------------------
(* One act and its refusals.  While no fault was anything but a change of  *)
(* that act refused, the card shows what is in force up to what the act    *)
(* still has to show, a job still has to make or a reading will bring.     *)
Refusal(k) ==
  /\ ~acts[k].lost
  /\ acts[k].failed \/ (acts[k].ans # "ok" /\ Changes(StepOf(k)))
Simple ==
  /\ card.name \notin Overtaken /\ ~Excused(HalfShown)
  /\ \A j, k \in Used : j = k
  /\ faults = 0 \/ (faults = 1 /\ \E k \in Slots : Refusal(k))

(* While the act is under way, and after it has ended.                     *)
Underway(k) ==
  LET s == Stands(k)
      t == IF Heard(k) THEN Made(StepOf(k), s) ELSE s
  IN  /\ t # "left" => jobs = {}
      /\ s = "shown" => router \union jobs = shown \union Fresh(k)
      /\ Heard(k) /\ "show" \in StepOf(k).ok /\ t # "left"
           => acts[k].got = router
Over(k) ==
  IF loads[k].at # "idle" /\ Part(k) # "apart"
    THEN jobs = {} /\ (loads[k].at = "served" => loads[k].got = router)
    ELSE shown = router \union jobs

SimpleFaults ==
  /\ \A l \in Readings : loads[l].ans = "ok"
  /\ \A k \in Slots :
       /\ ~acts[k].lost
       /\ acts[k].failed \/ acts[k].ans # "ok" => faults = 1
       /\ acts[k].ans # "ok"
            => /\ acts[k].at = "served" /\ Changes(StepOf(k))
               /\ ~acts[k].failed
SimpleReadings ==
  /\ Unchanging(card) => router \union jobs \union shown = {}
  /\ ~Unchanging(card)
       => /\ loads[Again].at = "idle" /\ loads[Choice].at = "idle"
          /\ loads[Mount].at # "idle" => ~loaded /\ Used = {}
          /\ \A k \in Slots :
               loads[k].at # "idle"
                 => acts[k].at = "ended" /\ Part(k) # "elsewhere"
SimpleShown ==
  \A k \in Used :
    IF Part(k) = "elsewhere" THEN shown = {}
      ELSE IF InProgress(k) THEN Underway(k)
             ELSE Unchanging(card) \/ Over(k)
SimpleInv == Simple => SimpleFaults /\ SimpleReadings /\ SimpleShown

LEMMA SimpleScript ==
  ASSUME Typed, Simple, NEW k \in Used
  PROVE  /\ Plain(ActOf(k))
         /\ Part(k) # "elsewhere" => Settles(ActOf(k), Debts(ActOf(k)))
BY ShownScript DEF Simple, Excused

LEMMA SimpleBefore ==
  ASSUME Typed, [Next]_vars, Simple'
  PROVE  Simple /\ card' = card
<1>1. card' = card /\ \A k \in Used : k \in Used' /\ acts'[k].name = acts[k].name
  BY UsedStays
<1>2. card.name \notin Overtaken /\ ~Excused(HalfShown)
  BY <1>1 DEF Simple, Excused
<1>3. \A j, k \in Used : j = k
  BY <1>1 DEF Simple
<1>4. faults \in Nat
  BY BoundsAreNumbers DEF Typed
<1>5. SUFFICES ASSUME faults' = faults, faults = 1
               PROVE  \E k \in Slots : Refusal(k)
  BY <1>1, <1>2, <1>3, <1>4, FaultsGrow DEF Simple
<1>6. PICK k \in Slots : Refusal(k)'
  BY <1>5 DEF Simple
<1>7. ASSUME acts'[k] = acts[k]
      PROVE  Refusal(k)
  BY <1>1, <1>6, <1>7, SameRecord DEF Refusal, Changes
<1>8. CASE Begins
  <2>1. PICK j \in Slots, name \in DOMAIN card.acts :
          \E item \in ItemsOf(j, card.acts[name]) : Begin(j, name, item)
    BY <1>8 DEF Begins
  <2>2. /\ \A i \in Slots : i # j => acts'[i] = acts[i]
        /\ acts'[j].ans = "ok" /\ ~acts'[j].failed
    BY <2>1, BeginRecord
  <2> QED
    BY <1>6, <1>7, <2>2 DEF Refusal
<1>9. CASE \E j \in Slots : Resumes(j)
  <2>1. PICK j \in Slots : Resumes(j)
    BY <1>9
  <2>2. \A i \in Slots : i # j => acts'[i] = acts[i]
    BY <2>1, ResumeRecord
  <2>3. /\ acts'[j].ans = "ok" /\ acts'[j].lost = acts[j].lost
        /\ acts'[j].failed <=> \/ acts[j].failed
                               \/ Changes(StepOf(j)) /\ acts[j].ans # "ok"
    BY <2>1, ResumeRecord
  <2> QED
    BY <1>6, <1>7, <2>2, <2>3 DEF Refusal
<1>10. CASE \E j \in Slots : Request(j)
  <2>1. PICK j \in Slots : Request(j)
    BY <1>10
  <2>2. Served(j, Changes(StepOf(j)), "ok")
    BY <1>4, <1>5, <2>1, RequestFates
  <2>3. Changes(StepOf(j)) \in BOOLEAN
    BY DEF Changes
  <2>4. \A i \in Slots : i # j => acts'[i] = acts[i]
    BY <2>2, <2>3, ServedRecord
  <2>5. /\ acts'[j].ans = "ok" /\ acts'[j].failed = acts[j].failed
        /\ acts'[j].lost <=> acts[j].lost
    BY <2>2, <2>3, ServedRecord
  <2> QED
    BY <1>6, <1>7, <2>4, <2>5 DEF Refusal
<1>11. CASE \E j \in Slots : Check(j)
  <2>1. PICK j \in Slots : Check(j)
    BY <1>11
  <2>2. acts' = [acts EXCEPT ![j].at = "timer"] /\ acts[j].ans = "ok"
    BY <2>1 DEF Check, Checked
  <2>3. \A i \in Slots : i # j => acts'[i] = acts[i]
    BY <2>2 DEF Typed
  <2>4. /\ acts'[j].ans = "ok" /\ acts'[j].failed = acts[j].failed
        /\ acts'[j].lost = acts[j].lost
    BY <2>2 DEF Typed, SlotType
  <2> QED
    BY <1>6, <1>7, <2>3, <2>4 DEF Refusal
<1>12. CASE Elsewhere
  BY <1>6, <1>7, <1>12, ElsewhereLeaves
<1>13. CASE UNCHANGED vars
  BY <1>6, <1>7, <1>13 DEF vars
<1> QED
  BY <1>8, <1>9, <1>10, <1>11, <1>12, <1>13, StepKinds

(* A reading that has come: whatever the card is about, it is wanted.      *)
LEMMA ReadingWanted ==
  ASSUME Typed, "subject" \notin card.load, NEW l
  PROVE  Wanted(l)
BY LateAnswersAreDropped DEF Typed, Wanted

LEMMA SimpleFates ==
  ASSUME Typed, Simple, SimpleFaults, Simple', NEW k \in Slots, Request(k)
  PROVE  \/ /\ Served(k, Changes(StepOf(k)), "ok") /\ faults' = faults
            /\ StepOf(k).call = "installJob" => jobs = {}
         \/ /\ Served(k, FALSE, "thrown") /\ Changes(StepOf(k))
            /\ faults = 0 /\ faults' = 1
<1>1. faults \in Nat
  BY BoundsAreNumbers DEF Typed
<1>2. SUFFICES ASSUME faults' = faults + 1, NEW effect \in BOOLEAN,
                      Served(k, effect, "thrown"),
                      effect => Changes(StepOf(k))
               PROVE  /\ ~effect /\ Changes(StepOf(k))
                      /\ faults = 0 /\ faults' = 1
  BY RequestFates
<1>3. faults = 0 /\ faults' = 1 /\ \E j \in Slots : Refusal(j)'
  BY <1>1, <1>2 DEF Simple
<1>4. PICK j \in Slots : Refusal(j)'
  BY <1>3
<1>5. \A i \in Slots : i # k => acts'[i] = acts[i]
  BY <1>2, ServedRecord
<1>6. /\ acts'[k].failed = acts[k].failed
      /\ acts'[k].name = acts[k].name /\ acts'[k].pc = acts[k].pc
      /\ acts'[k].lost <=> acts[k].lost \/ effect
      /\ card' = card
  BY <1>2, ServedRecord
<1>7. \A i \in Slots : ~acts[i].failed /\ acts[i].ans = "ok"
  BY <1>3 DEF SimpleFaults, Typed, SlotType
<1>8. j = k
  BY <1>4, <1>5, <1>7 DEF Refusal
<1>9. ActOf(k)' = ActOf(k) /\ StepOf(k)' = StepOf(k)
  BY <1>6, SameAct DEF StepOf
<1> QED
  BY <1>3, <1>4, <1>6, <1>7, <1>8, <1>9 DEF Refusal, Changes

LEMMA SimpleBegins ==
  ASSUME Typed, InForce, Simple, SimpleFaults, SimpleReadings, Simple', Begins
  PROVE  (SimpleFaults /\ SimpleReadings /\ SimpleShown)'
<1>1. PICK k \in Slots, name \in DOMAIN card.acts :
        /\ acts[k].at = "unused" /\ loaded
        /\ \E item \in ItemsOf(k, card.acts[name]) : Begin(k, name, item)
  BY DEF Begins
<1> DEFINE act == card.acts[name]
<1>2. /\ \A j \in Slots : j # k => acts'[j] = acts[j]
      /\ acts'[k].name = name /\ acts'[k].pc = 1
      /\ acts'[k].at = Waiting(act.steps[1]) /\ acts'[k].ans = "ok"
      /\ ~acts'[k].failed /\ ~acts'[k].lost
      /\ shown' = IF "patch" \in act.start THEN shown \union {<<k, 1>>} ELSE shown
      /\ UNCHANGED <<card, router, jobs, loaded, loads, faults>>
  BY <1>1, BeginRecord
<1>3. /\ Plain(act) /\ act.steps # <<>> /\ act.steps \in Seq(ScriptSteps)
  BY <1>1, ChangesAreShown, ScriptsAreWellFormed
     DEF Simple, Typed, WellFormed
<1>4. shown' = shown
  BY <1>2, <1>3 DEF Plain
<1>5. Used = {}
  <2>1. k \notin Used /\ k \in Used'
    BY <1>1, <1>2 DEF Used, Waiting
  <2>2. \A j \in Used : j \in Used'
    BY <1>2, <2>1 DEF Used
  <2> QED
    BY <2>1, <2>2 DEF Simple
<1>6. router = {} /\ jobs = {} /\ shown = {}
  BY <1>5 DEF InForce
<1>7. \A j \in Slots : j # k => acts'[j].at = "unused"
  BY <1>2, <1>5 DEF Used
<1>8. ActOf(k)' = act /\ StepOf(k)' = act.steps[1] /\ 1 \in DOMAIN act.steps
  BY <1>2, <1>3 DEF ActOf, StepOf
<1>9. Fresh(k)' = {} /\ ~(Heard(k)' /\ "show" \in StepOf(k)'.ok)
  <2>1. Heard(k)' => act.steps[1].call = "timer"
    BY <1>2 DEF Heard, Waiting
  <2> QED
    BY <1>3, <1>8, <2>1, ChangesAreShown DEF Plain, Fresh, Changes
<1>10. SimpleFaults'
  <2>1. \A j \in Slots : j # k => StepOf(j)' = StepOf(j)
    BY <1>2, SameRecord
  <2> QED
    BY <1>2, <2>1 DEF SimpleFaults, Changes
<1>11. SimpleReadings'
  <2>1. ~Unchanging(card) => \A l \in Readings : loads[l].at = "idle"
    BY <1>1, <1>5, SpecialReadings DEF SimpleReadings, Used
  <2> QED
    BY <1>2, <1>4, <1>6, <2>1, ReadingNames DEF SimpleReadings, Unchanging
<1>12. Underway(k)'
  BY <1>2, <1>4, <1>6, <1>9 DEF Underway
<1>13. InProgress(k)' /\ Used' \subseteq {k}
  BY <1>2, <1>7 DEF InProgress, Used, Waiting
<1> QED
  BY <1>4, <1>6, <1>10, <1>11, <1>12, <1>13 DEF SimpleShown

LEMMA SimpleServed ==
  ASSUME Typed, InForce, Simple, SimpleFaults, SimpleReadings, SimpleShown,
         Simple', NEW k \in Slots, Request(k)
  PROVE  (SimpleFaults /\ SimpleReadings /\ SimpleShown)'
<1> DEFINE id == <<k, acts[k].pc>>
           step == StepOf(k)
           s == Stands(k)
<1>1. PICK ans \in {"ok", "thrown"} :
        /\ Served(k, Changes(step) /\ ans = "ok", ans)
        /\ ans = "ok" => /\ faults' = faults
                         /\ step.call = "installJob" => jobs = {}
        /\ ans = "thrown" => Changes(step) /\ faults = 0 /\ faults' = 1
  <2>1. Served(k, Changes(step), "ok") => Served(k, Changes(step) /\ "ok" = "ok", "ok")
    BY DEF Served
  <2>2. Served(k, FALSE, "thrown")
          => Served(k, Changes(step) /\ "thrown" = "ok", "thrown")
    BY DEF Served
  <2> QED
    BY <2>1, <2>2, SimpleFates
<1>2. (Changes(step) /\ ans = "ok") \in BOOLEAN
  OBVIOUS
<1>3. /\ acts[k].at = "sent" /\ k \in Used
      /\ \A j \in Slots : j # k => acts'[j] = acts[j]
      /\ acts'[k].name = acts[k].name /\ acts'[k].pc = acts[k].pc
      /\ acts'[k].at = "served" /\ acts'[k].ans = ans
      /\ acts'[k].got = IF ans = "thrown" THEN {} ELSE router'
      /\ acts'[k].failed = acts[k].failed
      /\ acts'[k].lost <=> \/ acts[k].lost
                           \/ Changes(step) /\ ans = "ok" /\ ans = "thrown"
      /\ router' = IF Changes(step) /\ ans = "ok" /\ step.call \notin Starting
                     THEN router \union {id} ELSE router
      /\ jobs' = IF Changes(step) /\ ans = "ok" /\ step.call \in Starting
                   THEN jobs \union {id} ELSE jobs
      /\ UNCHANGED <<card, shown, loaded, loads>>
  BY ZenonT(60), <1>1, <1>2, ServedRecord
<1>4. /\ ActOf(k)' = ActOf(k) /\ Part(k)' = Part(k) /\ StepOf(k)' = step
      /\ Stands(k)' = s
  BY <1>3, SameAct DEF StepOf, Stands
<1>5. \A j \in Slots :
        j # k => Part(j)' = Part(j) /\ StepOf(j)' = StepOf(j)
  BY <1>3, SameRecord
<1>6. /\ Used' = Used /\ \A j \in Used : j = k
      /\ Unchanging(card)' = Unchanging(card)
  BY <1>3 DEF Used, Simple, Unchanging
<1>7. /\ InProgress(k) /\ InProgress(k)' /\ ~Heard(k) /\ Fresh(k) = {}
      /\ Heard(k)' <=> ans = "ok"
      /\ Fresh(k)' = IF ans = "ok" /\ Changes(step) THEN {id} ELSE {}
  BY <1>3, <1>4 DEF InProgress, Heard, Fresh, Changes
<1>8. SimpleFaults'
  BY <1>1, <1>3, <1>4, <1>5 DEF SimpleFaults, Changes
<1>9. SimpleReadings'
  <2>1. Unchanging(card) => ~Changes(step)
    <3>1. acts[k].name \in DOMAIN card.acts /\ acts[k].pc \in DOMAIN ActOf(k).steps
      BY <1>3, ScriptOf DEF Typed, Placed, Used
    <3> QED
      BY <3>1 DEF Unchanging, ChangesSomething, StepOf, ActOf
  <2>2. Unchanging(card) => router' \union jobs' \union shown' = {}
    BY <1>3, <2>1 DEF SimpleReadings
  <2>3. \A j \in Slots :
          ~Unchanging(card) /\ loads[j].at # "idle"
            => j # k /\ acts[j].at = "ended" /\ Part(j) # "elsewhere"
    BY <1>3 DEF SimpleReadings
  <2> QED
    BY <1>3, <1>5, <1>6, <2>2, <2>3 DEF SimpleReadings
<1>10. Part(k) # "elsewhere" => Underway(k)'
  <2> SUFFICES ASSUME Part(k) # "elsewhere"
               PROVE  Underway(k)'
    OBVIOUS
  <2>1. /\ s # "left" => jobs = {}
        /\ s = "shown" => router \union jobs = shown
    BY <1>3, <1>7 DEF SimpleShown, Underway
  <2> DEFINE t == IF ans = "ok" THEN Made(step, s) ELSE s
  <2>2. t # "left" => jobs' = {}
    BY <1>1, <1>3, <2>1 DEF Made
  <2>3. s = "shown" => router' \union jobs' = shown \union Fresh(k)'
    BY <1>3, <1>7, <2>1
  <2>4. (IF Heard(k)' THEN Made(StepOf(k)', Stands(k)') ELSE Stands(k)') = t
    BY <1>4, <1>7
  <2>5. Heard(k)' => acts'[k].got = router'
    BY <1>3, <1>7
  <2>6. Made(StepOf(k), Stands(k))' = Made(StepOf(k)', Stands(k)')
    BY DEF Made, Changes
  <2> HIDE DEF t
  <2> QED
    BY <1>3, <1>4, <2>2, <2>3, <2>4, <2>5, <2>6 DEF Underway
<1>11. Part(k) = "elsewhere" => shown' = {}
  BY <1>3 DEF SimpleShown
<1>12. SimpleShown'
  BY <1>4, <1>6, <1>7, <1>10, <1>11 DEF SimpleShown
<1> QED
  BY <1>8, <1>9, <1>12

(* What a continuation of the only act shows.                              *)
LEMMA OnlyShows ==
  ASSUME Typed, InForce, Simple, SimpleFaults, NEW k \in Slots, Resumes(k)
  PROVE  LET effects == EffectsOf(k)
             step == StepOf(k)
         IN  /\ k \in Used /\ \A j \in Used : j = k
             /\ acts[k].pc \in DOMAIN ActOf(k).steps
             /\ IF acts[k].ans = "ok"
                  THEN Heard(k) /\ effects = step.ok
                  ELSE /\ ~Heard(k) /\ effects = step.thrown
                       /\ Changes(step)
             /\ "show" \in effects => acts[k].ans = "ok"
             /\ "patch" \in effects => acts[k].ans = "ok" /\ Changes(step)
             /\ "show" \in effects => "patch" \notin effects
             /\ "load" \in effects => ~GoesOn(k)
             /\ Part(k) = "elsewhere"
                  => effects \intersect {"show", "patch", "load"} = {}
             /\ Shows(k, effects) =
                  IF "show" \in effects THEN acts[k].got
                  ELSE IF "patch" \in effects
                    THEN shown \union {<<k, acts[k].pc>>} ELSE shown
<1> DEFINE step == StepOf(k)
<1>1. k \in Used /\ \A j \in Used : j = k
  BY ResumeRecord DEF Simple
<1>2. acts[k].pc \in DOMAIN ActOf(k).steps
  BY <1>1, ScriptOf DEF Used
<1>3. IF acts[k].ans = "ok"
        THEN Heard(k) /\ EffectsOf(k) = step.ok
        ELSE ~Heard(k) /\ EffectsOf(k) = step.thrown /\ Changes(step)
  BY DEF Resumes, Resume, InProgress, Heard, EffectsOf, SimpleFaults
<1>4. Plain(ActOf(k))
  BY <1>1, SimpleScript
<1>5. /\ "undo" \notin EffectsOf(k)
      /\ "show" \in EffectsOf(k)
           => acts[k].ans = "ok" /\ "patch" \notin EffectsOf(k)
      /\ "patch" \in EffectsOf(k) => acts[k].ans = "ok" /\ Changes(step)
      /\ "load" \in EffectsOf(k) => ~GoesOn(k)
      /\ Part(k) = "elsewhere"
           => EffectsOf(k) \intersect {"show", "patch", "load"} = {}
  BY <1>2, <1>3, <1>4 DEF Plain, Outcomes, StepOf, Part, GoesOn
<1>6. \A x \in shown \union acts[k].got : x[1] = k
  BY <1>1 DEF InForce
<1>7. "show" \in EffectsOf(k) => Shows(k, EffectsOf(k)) = acts[k].got
  BY <1>6 DEF Shows
<1>8. "show" \notin EffectsOf(k)
        => Shows(k, EffectsOf(k)) =
             IF "patch" \in EffectsOf(k)
               THEN shown \union {<<k, acts[k].pc>>} ELSE shown
  BY <1>5 DEF Shows
<1> QED
  BY <1>1, <1>2, <1>3, <1>5, <1>7, <1>8

(* How the only act stands when it goes on or ends.                        *)
LEMMA OnlyStands ==
  ASSUME Typed, InForce, Simple, SimpleFaults, SimpleShown,
         NEW k \in Slots, Resumes(k), Part(k) # "elsewhere"
  PROVE  \E s :
           /\ GoesTo(ActOf(k), Debts(ActOf(k)), acts[k].pc, EffectsOf(k), s)
           /\ GoesOn(k) \/ "load" \in EffectsOf(k)
                => (s # "left" => jobs = {})
           /\ s = "shown" /\ ("load" \notin EffectsOf(k) \/ Part(k) = "apart")
                => Shows(k, EffectsOf(k)) = router \union jobs
<1> DEFINE act == ActOf(k)
           step == StepOf(k)
           pc == acts[k].pc
           id == <<k, pc>>
           s == Stands(k)
           t == IF Heard(k) THEN Made(step, s) ELSE s
           effects == EffectsOf(k)
<1>1. /\ k \in Used /\ pc \in DOMAIN act.steps /\ step = act.steps[pc]
      /\ IF acts[k].ans = "ok"
           THEN Heard(k) /\ effects = step.ok
           ELSE ~Heard(k) /\ effects = step.thrown /\ Changes(step)
      /\ "show" \in effects => acts[k].ans = "ok"
      /\ "patch" \in effects => acts[k].ans = "ok" /\ Changes(step)
      /\ "show" \in effects => "patch" \notin effects
      /\ Shows(k, effects) =
           IF "show" \in effects THEN acts[k].got
           ELSE IF "patch" \in effects THEN shown \union {id} ELSE shown
  BY OnlyShows DEF StepOf
<1>2. /\ t # "left" => jobs = {}
      /\ s = "shown" => router \union jobs = shown \union Fresh(k)
      /\ Heard(k) /\ "show" \in step.ok /\ t # "left" => acts[k].got = router
  BY <1>1 DEF SimpleShown, Resumes, Underway
<1>3. Fresh(k) = IF Heard(k) /\ Changes(step) THEN {id} ELSE {}
  BY DEF Fresh
<1>4. card.name \notin Overtaken /\ Plain(act) /\ Settles(act, Debts(act))
  BY <1>1, SimpleScript DEF Simple
<1>5. /\ GoesTo(act, Debts(act), pc, step.ok, Answered(act, pc, s))
      /\ Changes(step)
           => GoesTo(act, Debts(act), pc, step.thrown, Refused(act, pc, s))
  BY <1>1, <1>4, AnswerSettles
<1>6. "patch" \in step.ok /\ step.call \in Starting
        => step.ok \intersect {"load", "next", "last"} = {}
  BY <1>1, <1>4 DEF Plain
<1>7. GoesOn(k) <=> effects \intersect {"next", "last"} # {}
  BY DEF GoesOn
(* The change itself is applied.                                           *)
<1>8. CASE acts[k].ans = "ok" /\ "patch" \in step.ok /\ s = "shown"
  <2>1. Answered(act, pc, s) = "shown"
    BY <1>1, <1>8 DEF Answered
  <2>2. GoesOn(k) \/ "load" \in effects => jobs = {}
    <3>1. GoesOn(k) \/ "load" \in effects => step.call \notin Starting
      BY <1>1, <1>6, <1>7, <1>8
    <3>2. step.call \notin Starting => t = "unshown"
      BY <1>1, <1>8 DEF Made
    <3> QED
      BY <1>2, <3>1, <3>2
  <2>3. Shows(k, effects) = router \union jobs
    BY <1>1, <1>2, <1>3, <1>8
  <2> QED
    BY <1>1, <1>5, <1>8, <2>1, <2>2, <2>3
(* Otherwise the card brings what is in force, or nothing.                 *)
<1>9. ASSUME ~(acts[k].ans = "ok" /\ "patch" \in step.ok /\ s = "shown")
      PROVE  /\ Brought(act, effects, t) # "left" => jobs = {}
             /\ /\ Brought(act, effects, t) = "shown"
                /\ "load" \notin effects \/ Part(k) = "apart"
                => Shows(k, effects) = router \union jobs
  <2>1. Brought(act, effects, t) # "left" => t # "left"
    BY DEF Brought
  <2>2. CASE "show" \in effects
    BY <1>1, <1>2, <2>1, <2>2
  <2>3. CASE "show" \notin effects
    <3> SUFFICES ASSUME Brought(act, effects, t) = "shown",
                        "load" \notin effects \/ Part(k) = "apart"
                 PROVE  Shows(k, effects) = router \union jobs
      BY <1>2, <2>1
    <3>1. t = "shown"
      BY <2>3 DEF Brought, Part
    <3>2. s = "shown" /\ Fresh(k) = {}
      BY <1>3, <3>1 DEF Made
    <3>3. "patch" \notin effects
      BY <1>1, <1>9, <3>2
    <3> QED
      BY <1>1, <1>2, <2>3, <3>2, <3>3
  <2> QED
    BY <2>2, <2>3
<1>10. CASE ~(acts[k].ans = "ok" /\ "patch" \in step.ok /\ s = "shown")
  <2>1. CASE acts[k].ans = "ok"
    <3>1. Answered(act, pc, s) = Brought(act, effects, t)
      BY <1>1, <1>10, <2>1 DEF Answered
    <3> QED
      BY <1>1, <1>5, <1>9, <1>10, <2>1, <3>1
  <2>2. CASE acts[k].ans # "ok"
    <3>1. Refused(act, pc, s) = Brought(act, effects, t)
      BY <1>1, <2>2 DEF Refused
    <3> QED
      BY <1>1, <1>5, <1>9, <1>10, <2>2, <3>1
  <2> QED
    BY <2>1, <2>2
<1> QED
  BY <1>8, <1>10

LEMMA SimpleResumes ==
  ASSUME Typed, InForce, Simple, SimpleFaults, SimpleReadings, SimpleShown,
         NEW k \in Slots, Resumes(k)
  PROVE  (SimpleFaults /\ SimpleReadings /\ SimpleShown)'
<1> DEFINE step == StepOf(k)
           effects == EffectsOf(k)
<1>1. /\ k \in Used
      /\ \A j \in Slots : j # k => acts'[j] = acts[j]
      /\ acts'[k].name = acts[k].name /\ acts'[k].pc = NextPc(k)
      /\ acts'[k].at = IF GoesOn(k) THEN Waiting(ActOf(k).steps[NextPc(k)])
                                    ELSE "ended"
      /\ acts'[k].ans = "ok" /\ acts'[k].got = {}
      /\ acts'[k].failed <=> acts[k].failed \/ (Changes(step) /\ acts[k].ans # "ok")
      /\ acts'[k].lost = acts[k].lost
      /\ shown' = Shows(k, effects)
      /\ loads' = IF "load" \in effects
                    THEN [loads EXCEPT ![k] = Open] ELSE loads
      /\ UNCHANGED <<card, router, jobs, loaded, faults>>
  BY ResumeRecord
<1>2. /\ \A j \in Used : j = k
      /\ "patch" \in effects => Changes(step)
      /\ "load" \in effects => ~GoesOn(k)
      /\ Part(k) = "elsewhere"
           => effects \intersect {"show", "patch", "load"} = {}
      /\ Shows(k, effects) =
           IF "show" \in effects THEN acts[k].got
           ELSE IF "patch" \in effects
             THEN shown \union {<<k, acts[k].pc>>} ELSE shown
  BY OnlyShows
<1>3. /\ ActOf(k)' = ActOf(k) /\ Part(k)' = Part(k)
      /\ Stands(k)' = Debts(ActOf(k))[NextPc(k)]
      /\ StepOf(k)' = ActOf(k).steps[NextPc(k)]
  BY <1>1, SameAct DEF Stands, StepOf
<1>4. \A j \in Slots :
        j # k => Part(j)' = Part(j) /\ StepOf(j)' = StepOf(j)
  BY <1>1, SameRecord
<1>5. InProgress(k) /\ (InProgress(k)' <=> GoesOn(k))
  <2>1. Waiting(ActOf(k).steps[NextPc(k)]) \in {"timer", "sent"}
    BY DEF Waiting
  <2>2. InProgress(k)' <=> acts'[k].at \in {"sent", "served", "timer"}
    BY DEF InProgress
  <2> QED
    BY <1>1, <2>1, <2>2 DEF Resumes
<1>6. Used' = Used /\ Unchanging(card)' = Unchanging(card)
  BY <1>1, UsedStaysSo DEF Unchanging
<1>7. acts[k].got \subseteq router
  BY DEF InForce
<1>8. Open.ans = "ok" /\ Open.at = "sent"
  BY DEF Open, Idle
<1>9. SimpleFaults'
  <2>1. \A l \in Readings : loads'[l].ans = "ok"
    BY <1>1, <1>8 DEF SimpleFaults, Typed
  <2>2. \A j \in Slots : j # k => Changes(StepOf(j))' = Changes(StepOf(j))
    BY <1>4 DEF Changes
  <2>3. /\ ~acts'[k].lost /\ acts'[k].ans = "ok"
        /\ acts'[k].failed => faults' = 1
    BY <1>1 DEF SimpleFaults
  <2>4. \A j \in Slots : j # k =>
          /\ ~acts'[j].lost
          /\ acts'[j].failed \/ acts'[j].ans # "ok" => faults' = 1
          /\ acts'[j].ans # "ok"
               => /\ acts'[j].at = "served" /\ Changes(StepOf(j))'
                  /\ ~acts'[j].failed
    BY <1>1, <2>2 DEF SimpleFaults
  <2> QED
    BY <2>1, <2>3, <2>4 DEF SimpleFaults
<1>10. ~Unchanging(card) => loads[k].at = "idle" /\ loads[Mount].at = "idle"
  BY <1>1, <1>5 DEF SimpleReadings, InProgress
<1>11. SimpleReadings'
  <2>1. Unchanging(card) => ~Changes(step)
    <3>1. acts[k].name \in DOMAIN card.acts /\ acts[k].pc \in DOMAIN ActOf(k).steps
      BY <1>1, ScriptOf DEF Typed, Placed, Used
    <3> QED
      BY <3>1 DEF Unchanging, ChangesSomething, StepOf, ActOf
  <2>2. Unchanging(card) => router' \union jobs' \union shown' = {}
    BY <1>1, <1>2, <1>7, <2>1 DEF SimpleReadings
  <2>3. \A l \in {Mount, Again, Choice} : loads'[l] = loads[l]
    BY <1>1, SpecialReadings, ReadingNames DEF Typed
  <2>4. \A j \in Slots : j # k => loads'[j] = loads[j]
    BY <1>1, ReadingNames DEF Typed
  <2>5. ~Unchanging(card) /\ loads'[k].at # "idle"
          => acts'[k].at = "ended" /\ Part(k)' # "elsewhere"
    BY <1>1, <1>2, <1>3, <1>10
  <2> QED
    BY <1>1, <1>4, <1>6, <1>10, <2>2, <2>3, <2>4, <2>5 DEF SimpleReadings
<1>12. Part(k) = "elsewhere" => shown' = {}
  BY <1>1, <1>2 DEF SimpleShown
<1>13. ASSUME Part(k) # "elsewhere"
       PROVE  IF GoesOn(k) THEN Underway(k)' ELSE Unchanging(card) \/ Over(k)'
  <2>1. PICK s :
          /\ GoesTo(ActOf(k), Debts(ActOf(k)), acts[k].pc, effects, s)
          /\ GoesOn(k) \/ "load" \in effects => (s # "left" => jobs = {})
          /\ s = "shown" /\ ("load" \notin effects \/ Part(k) = "apart")
               => Shows(k, effects) = router \union jobs
    BY <1>13, OnlyStands
  <2>2. CASE GoesOn(k)
    <3>1. Within(s, Stands(k)')
      BY <1>3, <2>1, <2>2 DEF GoesTo, GoesOn, NextPc
    <3>2. /\ Heard(k)' => StepOf(k)'.call = "timer"
          /\ NextPc(k) \in DOMAIN ActOf(k).steps
      <4>1. Heard(k)' => StepOf(k)'.call = "timer"
        BY <1>1, <1>3, <2>2 DEF Heard, Waiting
      <4>2. acts[k].pc < Len(ActOf(k).steps)
        BY <1>1, <2>2, ScriptOf DEF GoesOn, Used
      <4> QED
        BY <1>1, <4>1, <4>2, ScriptOf DEF NextPc, Used
    <3>3. Heard(k)' => "show" \notin StepOf(k)'.ok
      <4>1. Plain(ActOf(k))
        BY <1>1, SimpleScript
      <4> QED
        BY <1>3, <3>2, <4>1 DEF Plain
    <3>4. Fresh(k)' = {}
      BY <3>2, ChangesAreShown DEF Fresh, Changes
    <3>5. Heard(k)' => Made(StepOf(k), Stands(k))' = Stands(k)'
      BY <3>2, ChangesAreShown DEF Made, Changes
    <3>6. (IF Heard(k) THEN Made(StepOf(k), Stands(k)) ELSE Stands(k))'
            = Stands(k)'
      BY <3>5
    <3>7. Stands(k)' # "left" => jobs' = {}
      BY <1>1, <2>1, <2>2, <3>1 DEF Within
    <3>8. Stands(k)' = "shown" => router' \union jobs' = shown'
      BY <1>1, <1>2, <2>1, <2>2, <3>1 DEF Within
    <3>9. Underway(k)'
      BY <3>3, <3>4, <3>6, <3>7, <3>8 DEF Underway
    <3> QED
      BY <2>2, <3>9
  <2>3. CASE ~GoesOn(k)
    <3>1. s = "shown"
      BY <2>1, <2>3 DEF GoesTo, GoesOn
    <3>2. CASE "load" \in effects /\ Part(k) # "apart"
      <4>1. loads'[k].at = "sent" /\ jobs' = {}
        BY <1>1, <1>8, <2>1, <3>1, <3>2, ReadingNames DEF Typed
      <4> QED
        BY <1>3, <2>3, <3>2, <4>1 DEF Over
    <3>3. CASE "load" \notin effects \/ Part(k) = "apart"
      <4>1. shown' = router' \union jobs'
        BY <1>1, <2>1, <3>1, <3>3
      <4>2. Unchanging(card) \/ loads'[k].at = "idle" \/ Part(k) = "apart"
        BY <1>1, <1>10, <3>3
      <4> QED
        BY <1>3, <2>3, <4>1, <4>2 DEF Over
    <3> QED
      BY <3>2, <3>3
  <2> QED
    BY <2>2, <2>3
<1>14. SimpleShown'
  BY <1>2, <1>3, <1>5, <1>6, <1>12, <1>13 DEF SimpleShown
<1> QED
  BY <1>9, <1>11, <1>14

LEMMA SimpleChecks ==
  ASSUME Typed, Simple, SimpleFaults, SimpleReadings, SimpleShown,
         NEW k \in Slots, Check(k)
  PROVE  (SimpleFaults /\ SimpleReadings /\ SimpleShown)'
<1>1. /\ acts' = [acts EXCEPT ![k].at = "timer"] /\ acts[k].at = "served"
      /\ acts[k].ans = "ok"
      /\ UNCHANGED <<card, router, jobs, shown, loaded, loads, faults>>
  BY DEF Check, Checked
<1>2. /\ \A j \in Slots : j # k => acts'[j] = acts[j]
      /\ acts'[k].name = acts[k].name /\ acts'[k].pc = acts[k].pc
      /\ acts'[k].at = "timer" /\ acts'[k].ans = "ok"
      /\ acts'[k].got = acts[k].got
      /\ acts'[k].failed = acts[k].failed /\ acts'[k].lost = acts[k].lost
  BY <1>1 DEF Typed, SlotType
<1>3. /\ ActOf(k)' = ActOf(k) /\ Part(k)' = Part(k) /\ StepOf(k)' = StepOf(k)
      /\ Stands(k)' = Stands(k)
  BY <1>1, <1>2, SameAct DEF StepOf, Stands
<1>4. InProgress(k)' /\ InProgress(k) /\ Heard(k)' /\ Heard(k)
  BY <1>1, <1>2 DEF InProgress, Heard
<1>5. Fresh(k)' = Fresh(k) /\ Made(StepOf(k), Stands(k))' = Made(StepOf(k), Stands(k))
  BY <1>2, <1>3, <1>4 DEF Fresh, Changes, Made
<1>6. \A j \in Slots : Part(j)' = Part(j) /\ StepOf(j)' = StepOf(j)
  BY <1>1, <1>2, <1>3, SameRecord
<1>7. /\ Used' = Used /\ \A j \in Used : j = k
      /\ Unchanging(card)' = Unchanging(card)
  BY <1>1, <1>2 DEF Used, Simple, Unchanging
<1>8. SimpleFaults'
  BY <1>1, <1>2, <1>6 DEF SimpleFaults, Changes
<1>9. SimpleReadings'
  BY <1>1, <1>2, <1>6, <1>7 DEF SimpleReadings
<1>10. Part(k) # "elsewhere" => Underway(k)'
  BY <1>1, <1>2, <1>3, <1>4, <1>5, <1>7 DEF SimpleShown, Underway, Used
<1>11. SimpleShown'
  BY <1>1, <1>3, <1>4, <1>7, <1>10 DEF SimpleShown
<1> QED
  BY <1>8, <1>9, <1>11

LEMMA SimpleElsewhere ==
  ASSUME Typed, InForce, Simple, SimpleFaults, SimpleReadings, SimpleShown,
         Simple', Elsewhere
  PROVE  (SimpleFaults /\ SimpleReadings /\ SimpleShown)'
<1>1. card' = card /\ acts' = acts /\ Used' = Used
  BY ElsewhereLeaves DEF Used
<1>2. \A j \in Slots :
        /\ Part(j)' = Part(j) /\ (InProgress(j)' <=> InProgress(j))
        /\ Stands(j)' = Stands(j) /\ Fresh(j)' = Fresh(j)
        /\ (Heard(j)' <=> Heard(j)) /\ StepOf(j)' = StepOf(j)
  BY <1>1, SameRecord
<1>3. \A j \in Slots :
        (IF Heard(j) THEN Made(StepOf(j), Stands(j)) ELSE Stands(j))'
          = IF Heard(j) THEN Made(StepOf(j), Stands(j)) ELSE Stands(j)
  BY <1>2 DEF Made, Changes
<1>4. /\ Unchanging(card)' = Unchanging(card)
      /\ \A j \in Slots : Changes(StepOf(j))' = Changes(StepOf(j))
      /\ \A j, k \in Used : j = k
      /\ \A j \in Used : j \in Slots
  BY <1>1, <1>2 DEF Unchanging, Changes, Simple, Used
<1>5. faults' = faults /\ \A l \in Readings : ~BreakLoad(l)
  <2>1. SUFFICES ASSUME faults' = faults + 1
                 PROVE  FALSE
    <3>1. faults \in Nat
      BY BoundsAreNumbers DEF Typed
    <3> QED
      BY <2>1, <3>1 DEF Elsewhere, Type, Choose, Poll, Feed, LoadAgain, Land,
                        ServeLoad, BreakLoad, Arrive, Fault
  <2>2. faults = 0 /\ \E j \in Slots : Refusal(j)'
    BY <2>1, BoundsAreNumbers DEF Simple, Typed
  <2>3. PICK j \in Slots : Refusal(j)'
    BY <2>2
  <2> QED
    BY <1>1, <2>2, <2>3 DEF Refusal, SimpleFaults
<1>6. ASSUME NEW k \in Slots, Underway(k),
             jobs' = jobs, router' = router, shown' = shown
      PROVE  Underway(k)'
  BY <1>1, <1>2, <1>3, <1>6 DEF Underway
(* A step that brings nothing and starts no reading.                       *)
<1>7. ASSUME UNCHANGED <<router, jobs, shown, loaded>>,
             \A l \in Readings :
               /\ loads'[l].ans = "ok"
               /\ ~Unchanging(card)
                    => /\ loads'[l].at = "idle" <=> loads[l].at = "idle"
                       /\ loads'[l].at = "served"
                            => \/ loads[l].at = "served" /\ loads'[l].got = loads[l].got
                               \/ loads'[l].got = router
      PROVE  (SimpleFaults /\ SimpleReadings /\ SimpleShown)'
  <2>1. SimpleFaults'
    BY <1>1, <1>4, <1>5, <1>7 DEF SimpleFaults
  <2>2. SimpleReadings'
    BY <1>1, <1>2, <1>4, <1>7, ReadingNames DEF SimpleReadings
  <2>3. ASSUME NEW k \in Slots, Over(k), ~Unchanging(card)
        PROVE  Over(k)'
    <3>1. k \in Readings
      BY ReadingNames
    <3> QED
      BY <1>2, <1>7, <2>3, <3>1 DEF Over
  <2>4. SimpleShown'
    BY <1>1, <1>2, <1>4, <1>6, <1>7, <2>3 DEF SimpleShown
  <2> QED
    BY <2>1, <2>2, <2>4
<1>8. CASE Type
  BY <1>7, <1>8 DEF Type, SimpleFaults
<1>9. CASE Choose \/ Poll \/ Feed
  <2>1. /\ card.load \intersect {"poll", "fed", "subject"} # {}
        /\ UNCHANGED <<router, jobs, shown, loaded>>
        /\ \/ loads' = [loads EXCEPT ![Choice] = [Open EXCEPT !.about = "b"]]
           \/ loads' = [loads EXCEPT ![Again] = Open]
    BY <1>9 DEF Choose, Poll, Feed, LoadAgain
  <2>2. Unchanging(card)
    BY <2>1, ChangesAreShown DEF Unchanging, Typed, Simple
  <2>3. Open.ans = "ok" /\ [Open EXCEPT !.about = "b"].ans = "ok"
    BY DEF Open, Idle
  <2>4. \A l \in Readings : loads'[l].ans = "ok"
    BY <2>1, <2>3 DEF SimpleFaults, Typed
  <2> QED
    BY <1>7, <2>1, <2>2, <2>4
<1>10. CASE \E l \in Readings : ServeLoad(l)
  <2>1. PICK l \in Readings : ServeLoad(l)
    BY <1>10
  <2>2. /\ loads[l].at = "sent"
        /\ loads' = [loads EXCEPT ![l].at = "served", ![l].got = router]
        /\ UNCHANGED <<router, jobs, shown, loaded>>
    BY <2>1 DEF ServeLoad
  <2>3. /\ \A m \in Readings : m # l => loads'[m] = loads[m]
        /\ loads'[l].at = "served" /\ loads'[l].got = router
        /\ loads'[l].ans = loads[l].ans
    BY <2>2 DEF Typed, ReadingType
  <2> QED
    BY <1>7, <2>2, <2>3 DEF SimpleFaults
<1>11. CASE \E id \in jobs : Land(id)
  <2>1. PICK id \in jobs : Land(id)
    BY <1>11
  <2>2. /\ jobs # {} /\ router' \union jobs' = router \union jobs
        /\ UNCHANGED <<shown, loaded, loads>>
    BY <2>1 DEF Land
  <2>3. SimpleFaults'
    BY <1>1, <1>4, <1>5, <2>2 DEF SimpleFaults
  <2>4. ~Unchanging(card)
    BY <2>2 DEF SimpleReadings
  <2>5. SimpleReadings'
    BY <1>1, <1>2, <1>4, <2>2, <2>4 DEF SimpleReadings
  <2>6. ASSUME NEW k \in Slots, Underway(k)
        PROVE  Underway(k)'
    BY <1>2, <1>3, <2>2, <2>6 DEF Underway
  <2>7. ASSUME NEW k \in Slots, Over(k)
        PROVE  Over(k)'
    BY <1>2, <2>2, <2>7 DEF Over
  <2>8. SimpleShown'
    BY <1>1, <1>2, <1>4, <2>2, <2>6, <2>7 DEF SimpleShown
  <2> QED
    BY <2>3, <2>5, <2>8
<1>12. CASE \E l \in Readings : Arrive(l)
  <2>1. PICK l \in Readings : Arrive(l)
    BY <1>12
  <2>2. /\ loads[l].at = "served" /\ loads[l].ans = "ok"
        /\ loads' = [loads EXCEPT ![l] = Idle]
        /\ shown' = IF Wanted(l)
              THEN Apart(shown) \union (loads[l].got \ Apart(loads[l].got))
              ELSE shown
        /\ UNCHANGED <<router, jobs>>
    BY <2>1 DEF Arrive, SimpleFaults
  <2>3. /\ \A m \in Readings : m # l => loads'[m] = loads[m]
        /\ loads'[l].at = "idle" /\ loads'[l].ans = "ok"
    BY <2>2 DEF Typed, Idle
  <2>4. SimpleFaults'
    BY <1>1, <1>4, <1>5, <2>3 DEF SimpleFaults
  <2>5. loads[l].got \subseteq router
    BY DEF InForce
  <2>6. CASE Unchanging(card)
    <3>1. router = {} /\ jobs = {} /\ shown = {}
      BY <2>6 DEF SimpleReadings
    <3>2. shown' = {}
      BY <2>2, <2>5, <3>1 DEF Apart
    <3>3. SimpleReadings'
      BY <1>4, <2>2, <2>6, <3>1, <3>2 DEF SimpleReadings
    <3>4. SimpleShown'
      BY <1>1, <1>2, <1>4, <1>6, <2>2, <2>6, <3>1, <3>2 DEF SimpleShown
    <3> QED
      BY <2>4, <3>3, <3>4
  <2>7. CASE ~Unchanging(card)
    <3>1. \/ l = Mount /\ Used = {}
          \/ l \in Slots /\ acts[l].at = "ended" /\ Part(l) # "elsewhere"
      BY <2>2, <2>7, SpecialReadings DEF SimpleReadings
    <3>2. SimpleReadings'
      <4>1. \A m \in Readings : loads'[m].at # "idle" => m # l /\ loads[m].at # "idle"
        BY <2>3
      <4>2. loads'[Mount].at # "idle" => ~loaded' /\ Used = {}
        <5> SUFFICES ASSUME loads'[Mount].at # "idle"
                     PROVE  ~loaded' /\ Used = {}
          OBVIOUS
        <5>1. Mount # l /\ ~loaded /\ Used = {}
          BY <2>7, <4>1, ReadingNames DEF SimpleReadings
        <5> QED
          BY <3>1, <5>1 DEF Used
      <4> QED
        BY <1>1, <1>2, <1>4, <2>7, <4>1, <4>2, ReadingNames DEF SimpleReadings
    <3>3. CASE Used = {}
      BY <1>1, <2>4, <3>2, <3>3 DEF SimpleShown
    <3>4. CASE l \in Slots /\ acts[l].at = "ended" /\ Part(l) # "elsewhere"
      <4>1. l \in Used /\ ~InProgress(l)
        BY <3>4 DEF Used, InProgress
      <4>2. Over(l)
        BY <2>7, <3>4, <4>1 DEF SimpleShown
      <4>3. \A x \in shown \union loads[l].got : x[1] = l
        BY <1>4, <2>5, <4>1 DEF InForce
      <4>4. Wanted(l)
        BY <2>7, ChangesAreShown, ReadingWanted DEF Typed, Simple, Unchanging
      <4>5. CASE Part(l) = "apart"
        <5>1. shown' = shown
          BY <2>2, <4>3, <4>4, <4>5 DEF Apart, Part
        <5> QED
          BY <1>1, <1>2, <1>4, <2>2, <2>3, <2>4, <3>2, <4>1, <4>2, <4>5, <5>1
             DEF SimpleShown, Over
      <4>6. CASE Part(l) # "apart"
        <5>1. shown' = loads[l].got
          BY <2>2, <4>3, <4>4, <4>6 DEF Apart, Part
        <5>2. shown' = router' \union jobs'
          BY <2>2, <4>2, <4>6, <5>1 DEF Over
        <5>3. Over(l)'
          BY <2>3, <5>2 DEF Over
        <5> QED
          BY <1>1, <1>2, <1>4, <2>4, <3>2, <3>4, <4>1, <5>3 DEF SimpleShown
      <4> QED
        BY <4>5, <4>6
    <3> QED
      BY <3>1, <3>3, <3>4
  <2> QED
    BY <2>6, <2>7
<1> QED
  BY <1>5, <1>8, <1>9, <1>10, <1>11, <1>12 DEF Elsewhere

LEMMA SimpleStep ==
  ASSUME Typed, InForce, SimpleInv, [Next]_vars
  PROVE  SimpleInv'
<1> SUFFICES ASSUME Simple'
             PROVE  (SimpleFaults /\ SimpleReadings /\ SimpleShown)'
  BY DEF SimpleInv
<1>1. Simple /\ card' = card
  BY SimpleBefore
<1>2. SimpleFaults /\ SimpleReadings /\ SimpleShown
  BY <1>1 DEF SimpleInv
<1>3. CASE Begins
  BY <1>1, <1>2, <1>3, SimpleBegins
<1>4. CASE \E k \in Slots : Resumes(k)
  BY <1>1, <1>2, <1>4, SimpleResumes
<1>5. CASE \E k \in Slots : Request(k)
  BY <1>1, <1>2, <1>5, SimpleServed
<1>6. CASE \E k \in Slots : Check(k)
  BY <1>1, <1>2, <1>6, SimpleChecks
<1>7. CASE Elsewhere
  BY <1>1, <1>2, <1>7, SimpleElsewhere
<1>8. CASE UNCHANGED vars
  <2>1. /\ \A j \in Slots :
             /\ Part(j)' = Part(j) /\ StepOf(j)' = StepOf(j)
             /\ (InProgress(j)' <=> InProgress(j))
             /\ Stands(j)' = Stands(j) /\ Fresh(j)' = Fresh(j)
             /\ (Heard(j)' <=> Heard(j))
        /\ Used' = Used /\ Used \subseteq Slots
    BY <1>8, SameRecord DEF vars, Used
  <2>2. \A j \in Slots :
          /\ Changes(StepOf(j))' = Changes(StepOf(j))
          /\ Made(StepOf(j), Stands(j))' = Made(StepOf(j), Stands(j))
    BY <2>1 DEF Made, Changes
  <2>3. UNCHANGED <<card, router, jobs, shown, loaded, acts, loads, faults>>
    BY <1>8 DEF vars
  <2>4. SimpleFaults'
    BY <1>2, <2>2, <2>3 DEF SimpleFaults
  <2>5. SimpleReadings'
    BY <1>2, <2>1, <2>3 DEF SimpleReadings, Unchanging
  <2>6. \A j \in Slots : Underway(j)' = Underway(j) /\ Over(j)' = Over(j)
    BY <2>1, <2>2, <2>3 DEF Underway, Over
  <2>7. SimpleShown'
    BY <1>2, <2>1, <2>3, <2>6 DEF SimpleShown, Unchanging
  <2> QED
    BY <2>4, <2>5, <2>7
<1> QED
  BY <1>3, <1>4, <1>5, <1>6, <1>7, <1>8, StepKinds

LEMMA SimpleInit ==
  ASSUME Init
  PROVE  SimpleInv
<1>1. /\ \A k \in Slots : /\ acts[k].at = "unused" /\ acts[k].ans = "ok"
                          /\ ~acts[k].failed /\ ~acts[k].lost
      /\ \A l \in Readings : loads[l].ans = "ok"
      /\ router = {} /\ jobs = {} /\ shown = {}
  BY DEF Init, Unused, Idle, Open
<1>2. \A l \in Readings : loads[l].at # "idle" => l = Mount /\ ~loaded
  BY DEF Init, Idle
<1>3. Used = {}
  BY <1>1 DEF Used
<1> QED
  BY <1>1, <1>2, <1>3, SpecialReadings, ReadingNames
     DEF SimpleInv, SimpleFaults, SimpleReadings, SimpleShown

(* Only an act that was started has failed.                                *)
FailedUsed == \A k \in Slots : acts[k].failed => k \in Used

LEMMA FailedStep ==
  ASSUME Typed, FailedUsed, [Next]_vars
  PROVE  FailedUsed'
<1>1. \A k \in Used : k \in Used'
  BY UsedStays
<1>2. SUFFICES ASSUME NEW k \in Slots, acts'[k].failed, ~acts[k].failed
               PROVE  k \in Used
  BY <1>1 DEF FailedUsed
<1>3. CASE Begins
  BY <1>2, <1>3, BeginRecord DEF Begins
<1>4. CASE \E j \in Slots : Resumes(j)
  BY <1>2, <1>4, ResumeRecord
<1>5. CASE \E j \in Slots : Request(j)
  <2>1. PICK j \in Slots : Request(j)
    BY <1>5
  <2>2. Changes(StepOf(j)) \in BOOLEAN
    BY DEF Changes
  <2>3. \E effect \in BOOLEAN, ans \in {"ok", "thrown"} : Served(j, effect, ans)
    BY <2>1, <2>2, RequestFates
  <2> QED
    BY <1>2, <2>3, ServedRecord
<1>6. CASE \E j \in Slots : Check(j)
  BY <1>2, <1>6 DEF Check, Typed, SlotType
<1>7. CASE Elsewhere \/ UNCHANGED vars
  BY <1>2, <1>7, ElsewhereLeaves DEF vars
<1> QED
  BY <1>3, <1>4, <1>5, <1>6, <1>7, StepKinds

(* The promise counts the acts and the faults.                             *)
LEMMA AtMostOne ==
  ASSUME Typed, FailedUsed, OnlyRefusals, Cardinality(Used) <= 1
  PROVE  /\ \A j, k \in Used : j = k
         /\ faults = 0 \/ (faults = 1 /\ \E k \in Slots : Refusal(k))
<1> DEFINE R == {k \in Slots : acts[k].failed /\ ~acts[k].lost}
<1>1. IsFiniteSet(Slots)
  BY BoundsAreNumbers, FS_Interval DEF Slots
<1>2. IsFiniteSet(Used) /\ Cardinality(Used) \in Nat
  BY <1>1, FS_Subset, FS_CardinalityType DEF Used
<1>3. \A j, k \in Used : j = k
  <2>1. CASE Cardinality(Used) = 0
    BY <1>2, <2>1, FS_EmptySet
  <2>2. CASE Cardinality(Used) = 1
    BY <1>2, <2>2, FS_Singleton
  <2> QED
    BY <1>2, <2>1, <2>2
<1>4. R \subseteq Used
  BY DEF FailedUsed
<1>5. faults = Cardinality(R) /\ \A k \in R : k \in Slots /\ Refusal(k)
  BY DEF OnlyRefusals, Refusal
<1> HIDE DEF R
<1>6. R = {} \/ \E k \in R : R = {k}
  BY <1>3, <1>4
<1>7. R = {} => Cardinality(R) = 0
  BY FS_EmptySet
<1>8. \A k : R = {k} => Cardinality(R) = 1
  BY FS_Singleton
<1> QED
  BY <1>3, <1>5, <1>6, <1>7, <1>8

(* For any number of failures and at any moment: after one act, accepted   *)
(* or refused at any of its calls, the card shows what is in force in the  *)
(* router once nothing is under way, but for the cards and acts named.     *)
THEOREM ShowsWhatHoldsAlways == Spec => []ShowsWhatHolds
<1>1. ASSUME Typed, InForce, FailedUsed, SimpleInv
      PROVE  ShowsWhatHolds
  <2> SUFFICES ASSUME Quiet, OnlyRefusals, Cardinality(Used) <= 1,
                      card.name \notin Overtaken, ~Excused(HalfShown)
               PROVE  shown = Here
    BY DEF ShowsWhatHolds
  <2>1. Simple
    BY <1>1, AtMostOne DEF Simple
  <2>2. SimpleReadings /\ SimpleShown /\ \A j, k \in Used : j = k
    BY <1>1, <2>1 DEF SimpleInv, Simple
  <2>3. \A x \in router \union shown : x[1] \in Used
    BY <1>1 DEF InForce
  <2>4. CASE Unchanging(card)
    BY <2>2, <2>4 DEF SimpleReadings, Here
  <2>5. CASE Used = {}
    BY <2>3, <2>5 DEF Here
  <2>6. ASSUME NEW k \in Used, ~Unchanging(card)
        PROVE  shown = Here
    <3>1. \A x \in router : Part(x[1]) = Part(k)
      BY <2>2, <2>3
    <3>2. k \in Slots /\ ~InProgress(k) /\ loads[k].at = "idle" /\ jobs = {}
      BY ReadingNames DEF Used, Quiet
    <3>3. CASE Part(k) = "elsewhere"
      BY <2>2, <3>1, <3>3 DEF SimpleShown, Here, Part
    <3>4. CASE Part(k) # "elsewhere"
      BY <2>2, <2>6, <3>1, <3>2, <3>4 DEF SimpleShown, Over, Here, Part
    <3> QED
      BY <3>3, <3>4
  <2> QED
    BY <2>4, <2>5, <2>6
<1>2. Init => FailedUsed
  <2>1. ~Unused.failed
    BY DEF Unused
  <2>2. Init => \A k \in Slots : acts[k] = Unused
    BY DEF Init
  <2> QED
    BY <2>1, <2>2 DEF FailedUsed
<1> QED
  BY <1>1, <1>2, TypedInit, TypedStep, CalmInit, InForceStep, FailedStep,
     SimpleInit, SimpleStep, PTL DEF Spec

=============================================================================
