---------------------------- MODULE CardDiscipline ----------------------------
(***************************************************************************)
(* What the descriptions of the cards have in common that makes the        *)
(* promises true whatever the user does: how a flag is raised, tested and  *)
(* lowered, what a catch tells, and what a card does with a late answer.   *)
(***************************************************************************)
EXTENDS CardProperties

ScriptSteps ==
  [call : STRING, cycle : {"no", "part", "whole"}, ok : SUBSET Effects,
   thrown : SUBSET Effects]

Outcomes(step) == {step.ok, step.thrown}

(* An act is a script of awaited calls; the flag of useActionCycle is no   *)
(* flag of its own, and its last call has no next one.                     *)
WellFormed(act) ==
  /\ act.steps \in Seq(ScriptSteps) /\ act.steps # <<>>
  /\ act.keyed \in BOOLEAN
  /\ act.flag \notin {"cycle", "no cycle"}
  /\ {"cycle", "no cycle", "none"} \intersect act.shares = {}
  /\ \A i \in DOMAIN act.steps : \A effects \in Outcomes(act.steps[i]) :
       effects \intersect {"next", "last"} # {} => i < Len(act.steps)

(* The effect that lowers a flag, the acts that raise or lower it, and     *)
(* those that raise it as they start.                                      *)
Frees(flag) == IF flag = "cycle" THEN "free" ELSE "idle"
Lowers(step, flag) == \E effects \in Outcomes(step) : Frees(flag) \in effects
Touches(act, flag) ==
  IF flag = "cycle"
    THEN \E i \in DOMAIN act.steps :
           act.steps[i].cycle # "no" \/ Lowers(act.steps[i], flag)
    ELSE flag \in act.shares \union {act.flag}
Raises(act, flag) ==
  IF flag = "cycle" THEN act.steps[1].cycle # "no" ELSE act.flag = flag

(* A call that the flag is there for: it changes the router, or the flag   *)
(* itself.                                                                 *)
Concerns(step, flag) ==
  \/ Changes(step) \/ Lowers(step, flag)
  \/ flag = "cycle" /\ step.cycle # "no"
(* Once the act has lowered the flag, none of its calls to come concerns   *)
(* the flag.                                                               *)
LowersLast(act, flag) ==
  \A i \in DOMAIN act.steps : \A effects \in Outcomes(act.steps[i]) :
    Frees(flag) \in effects
      => /\ "next" \in effects
              => \A j \in i + 1 .. Len(act.steps) :
                   ~Concerns(act.steps[j], flag)
         /\ "last" \in effects
              => ~Concerns(act.steps[Len(act.steps)], flag)

(* Every act of the card that touches the flag is disabled by it alone,    *)
(* raises it for everything and keeps it up to the end.                    *)
Guards(c, flag) ==
  /\ flag \notin {"none", "no cycle"}
  /\ \A name \in DOMAIN c.acts :
       Touches(c.acts[name], flag) /\ <<c.name, name>> \notin SentTwice
         => /\ {flag} \in c.controls[name]
            /\ Raises(c.acts[name], flag) /\ LowersLast(c.acts[name], flag)
            /\ flag # "cycle" => ~c.acts[name].keyed
FlagsOf(c) == {"cycle"} \union {c.acts[name].flag : name \in DOMAIN c.acts}
Guarded(c, name) ==
  \E flag \in FlagsOf(c) : Touches(c.acts[name], flag) /\ Guards(c, flag)

(* The act by itself disables its own button: it keeps up every flag of    *)
(* some test of its control.                                               *)
Keeps(act, flag) ==
  IF flag = "no cycle"
    THEN \A i \in DOMAIN act.steps : act.steps[i].cycle = "no"
    ELSE flag # "none" /\ Raises(act, flag) /\ LowersLast(act, flag)
Kept(c, name) ==
  \E test \in c.controls[name] : \A flag \in test : Keeps(c.acts[name], flag)

ChangesSomething(act) == \E i \in DOMAIN act.steps : Changes(act.steps[i])

-----------------------------------------------------------------------------
(* How an act stands with its changes: all are shown, some are in force    *)
(* without being shown, or some are left to a job.                         *)
Standings == {"shown", "unshown", "left"}
Within(s, t) == s = "shown" \/ s = t \/ t = "left"

(* What the answer to a call makes of it, and what the page then brings.   *)
Made(step, s) ==
  IF Changes(step)
    THEN IF step.call \in Starting \/ s = "left" THEN "left" ELSE "unshown"
    ELSE IF step.call = "installJob" /\ s = "left" THEN "unshown" ELSE s
Brought(act, effects, s) ==
  IF /\ s # "left"
     /\ "show" \in effects \/ ("load" \in effects /\ act.part # "apart")
    THEN "shown" ELSE s
Answered(act, i, s) ==
  IF "patch" \in act.steps[i].ok /\ s = "shown" THEN "shown"
    ELSE Brought(act, act.steps[i].ok, Made(act.steps[i], s))
Refused(act, i, s) == Brought(act, act.steps[i].thrown, s)

(* From standing s the act goes on to a call where it stands no better, or *)
(* ends with all its changes shown.                                        *)
GoesTo(act, d, i, effects, s) ==
  IF "last" \in effects THEN Within(s, d[Len(act.steps)])
    ELSE IF "next" \in effects THEN Within(s, d[i + 1]) ELSE s = "shown"

(* d tells how the act stands at each of its calls, if no call fails but   *)
(* changes that are refused.                                               *)
Settles(act, d) ==
  /\ d[1] = "shown"
  /\ \A i \in DOMAIN act.steps :
       /\ GoesTo(act, d, i, act.steps[i].ok, Answered(act, i, d[i]))
       /\ Changes(act.steps[i])
            => GoesTo(act, d, i, act.steps[i].thrown, Refused(act, i, d[i]))

(* A card applies only changes that were answered, and takes none back; a  *)
(* failed call brings no state; the card's own reading comes last.         *)
Plain(act) ==
  /\ "patch" \notin act.start
  /\ \A i \in DOMAIN act.steps :
       LET step == act.steps[i]
       IN  /\ "undo" \notin step.ok
           /\ step.thrown \intersect {"show", "patch", "undo"} = {}
           /\ "show" \in step.ok => step.call # "timer" /\ "patch" \notin step.ok
           /\ "patch" \in step.ok
                => /\ Changes(step)
                   /\ step.call \in Starting
                        => step.ok \intersect {"load", "next", "last"} = {}
           /\ \A effects \in Outcomes(step) :
                /\ "load" \in effects => effects \intersect {"next", "last"} = {}
                /\ act.part = "elsewhere"
                     => effects \intersect {"show", "patch", "load"} = {}

(* Calls an act comes to while nothing fails, and those whose answer must  *)
(* not be overtaken by another act about the same part.                    *)
Straight(act, i) == \A j \in 1 .. i - 1 : "next" \in act.steps[j].ok
Weighs(step) == Changes(step) \/ "show" \in step.ok
(* Some answer brings the part of the data; while a call of that part that *)
(* weighs is under way the flag is up.                                     *)
Brings(c, part) ==
  \E name \in DOMAIN c.acts :
    /\ c.acts[name].part = part
    /\ \E i \in DOMAIN c.acts[name].steps :
         "show" \in c.acts[name].steps[i].ok
Holds(c, part, flag) ==
  \A name \in DOMAIN c.acts :
    LET act == c.acts[name]
    IN  act.part = part
          => \A i \in DOMAIN act.steps :
               Straight(act, i) /\ Weighs(act.steps[i])
                 => Touches(act, flag) /\ Concerns(act.steps[i], flag)

-----------------------------------------------------------------------------
ASSUME ScriptsAreWellFormed ==
  \A c \in Catalogue :
    DOMAIN c.acts = DOMAIN c.controls
      /\ \A name \in DOMAIN c.acts : WellFormed(c.acts[name])

(* The buttons: an act that changes the router is kept by its own flag,    *)
(* and guarded against the other acts but for those named.                 *)
ASSUME ButtonsAreDisabled ==
  \A c \in Catalogue : \A name \in DOMAIN c.acts :
    ChangesSomething(c.acts[name]) /\ <<c.name, name>> \notin SentTwice
      => /\ Kept(c, name)
         /\ <<c.name, name>> \notin Overwritten => Guarded(c, name)

(* The catch blocks: each tells the user that a change failed.             *)
ASSUME CatchesTell ==
  \A c \in Catalogue : \A name \in DOMAIN c.acts :
    <<c.name, name>> \notin Silent
      => \A i \in DOMAIN c.acts[name].steps :
           Changes(c.acts[name].steps[i])
             => "bad" \in c.acts[name].steps[i].thrown

(* A continuation empties the fields or fills them again.                  *)
Fills(c, act, effects) ==
  \/ "clean" \in effects
  \/ "show" \in effects /\ c.form = "follows" /\ act.part # "apart"

(* The fields: but for the cards and acts named, a form that follows its   *)
(* data is filled by no reading after the first, and no act fills it but   *)
(* one that sends fields.                                                  *)
ASSUME FieldsAreTheUsers ==
  \A c \in Catalogue : c.name \notin Refilling =>
    /\ c.form = "follows" => c.load \intersect {"poll", "fed", "subject"} = {}
    /\ \A name \in DOMAIN c.acts :
         LET act == c.acts[name]
         IN  /\ "clean" \in act.start => act.form # "no"
             /\ <<c.name, name>> \notin DropsDraft
                  => \A i \in DOMAIN act.steps :
                       \A effects \in Outcomes(act.steps[i]) :
                         /\ Fills(c, act, effects) => act.form # "no"
                         /\ c.form = "follows" => "load" \notin effects

(* The data: but for the cards and acts named, no reading comes unasked to *)
(* a card that changes something, and each act shows what it changed.      *)
ASSUME ChangesAreShown ==
  /\ "timer" \notin Changing
  /\ \A c \in Catalogue : c.name \notin Overtaken =>
       /\ \/ c.load \intersect {"poll", "fed", "subject"} = {}
          \/ \A name \in DOMAIN c.acts : ~ChangesSomething(c.acts[name])
       /\ \A name \in DOMAIN c.acts :
            LET act == c.acts[name]
            IN  /\ Plain(act)
                /\ <<c.name, name>> \notin HalfShown /\ act.part # "elsewhere"
                     => \E d \in [DOMAIN act.steps -> Standings] :
                          Settles(act, d)

(* Where nothing races, one flag guards all the acts about a part of the   *)
(* data that answers bring, up to the last of those, and no act reads      *)
(* again without waiting or leaves its change to a job.                    *)
ASSUME PartsAreGuarded ==
  \A c \in Catalogue : c.name \notin Racing =>
    \A name \in DOMAIN c.acts :
      LET act == c.acts[name]
      IN  /\ {<<c.name, name>>} \intersect (SentTwice \union HalfShown) = {}
          /\ \A i \in DOMAIN act.steps :
               /\ act.steps[i].call \notin Starting
               /\ "load" \notin act.steps[i].ok
               /\ Straight(act, i) => "last" \notin act.steps[i].ok
          /\ act.part # "elsewhere" /\ Brings(c, act.part)
               => \E flag \in FlagsOf(c) :
                    Guards(c, flag) /\ Holds(c, act.part, flag)

(* The cards whose subject can change, and they alone, drop a late answer  *)
(* for another one.                                                        *)
ASSUME LateAnswersAreDropped ==
  \A c \in Catalogue : "guarded" \in c.load <=> "subject" \in c.load
=============================================================================
