----------------------------- MODULE CardScripts -----------------------------
(***************************************************************************)
(* The vocabulary in which the cards of the web frontend are described.  A *)
(* card shows something the router knows and offers controls; a control    *)
(* starts an act, which is a script of awaited calls.  What a handler does *)
(* between two awaits happens at once and is a set of effects:             *)
(*   show    the answer's state replaces what the card shows               *)
(*   patch   the card applies the change to what it shows by itself        *)
(*   undo    the card takes such a patch back                              *)
(*   load    the card starts its own reading again, without waiting        *)
(*   clean   the fields are emptied, closed or filled from the data        *)
(*   good    the user is told that it worked                               *)
(*   bad     the user is told that it did not                              *)
(*   free    the phase of useActionCycle is no longer applying or checking *)
(*   idle    the act's own flag goes down                                  *)
(*   next    the script goes on with its next call                         *)
(*   last    it goes on with its last one; without either it ends          *)
(***************************************************************************)
EXTENDS Naturals, Sequences

Effects == {"show", "patch", "undo", "load", "clean", "good", "bad", "free",
            "idle", "next", "last"}

(* One awaited call of api.ts ("timer" for a pause), what follows when it  *)
(* answers and what follows when it throws.  A change that the router      *)
(* rolled back throws too: writeModuleResult answers it with status 500.   *)
Call(call, ok, thrown) ==
  [call |-> call, cycle |-> "no", ok |-> ok, thrown |-> thrown]

(* A change through useActionCycle's run: the banner says applying, then,  *)
(* for 700 ms after the answer, checking, then done; or failed, at once.   *)
Cycle(call, ok, thrown) ==
  [call |-> call, cycle |-> "whole", ok |-> ok \union {"free", "good"},
   thrown |-> thrown \union {"free", "bad"}]
(* One of several calls inside a single run, before the last one.          *)
CyclePart(call) ==
  [call |-> call, cycle |-> "part", ok |-> {"next"},
   thrown |-> {"free", "bad"}]

Pause(ok) == Call("timer", ok, {})

(* An act: the flag it raises when it starts ("none" if none), its script. *)
(* A confirmation dialog is modal, nothing else starts under it, so opening*)
(* it and confirming are one step.                                         *)
Act(flag, steps) ==
  [flag |-> flag, keyed |-> FALSE, shares |-> {}, form |-> "no",
   part |-> "", start |-> {}, steps |-> steps]

(* The act works on one item (a port, a rule) and its flag holds that item.*)
Keyed(act) == [act EXCEPT !.keyed = TRUE]
(* Its flag is kept in one variable with others: raising it lowers them.   *)
Sharing(flags, act) == [act EXCEPT !.shares = flags]
(* The act sends the fields, as they are or once something was typed.      *)
Sending(act) == [act EXCEPT !.form = "fields"]
Submit(act) == [act EXCEPT !.form = "typed"]
(* The act is about one of several parts of the data, which its answer or  *)
(* the reading that follows it bring alone.  The card's own reading does   *)
(* not bring the part "apart"; what is "elsewhere" other cards show.       *)
Of(part, act) == [act EXCEPT !.part = part]
(* What the handler does before its first call.                            *)
At(effects, act) == [act EXCEPT !.start = effects]

(* A card: its name, when it reads ("mount", "poll", "fed": its parent may hand it   *)
(* new data at any time, "subject": when what it is about changes, with    *)
(* "guarded" if a late answer for another subject is dropped), how its     *)
(* fields follow its data ("none": it has none, "own": they are only the   *)
(* user's, "follows": they are filled again whenever the data change), the *)
(* flags that disable each control, and the act behind each control.       *)
Card(name, load, form, controls, acts) ==
  [name |-> name, load |-> load, form |-> form, acts |-> acts,
   controls |-> [act \in DOMAIN controls |-> {{flag} : flag \in controls[act]}]]
(* A control disabled when all of the flags are up ("no cycle": not up).   *)
Jointly(card, act, flags) == [card EXCEPT !.controls[act] = {flags}]

(* Controls that the same flags disable, and acts of the same shape.       *)
Each(names, value) == [x \in names |-> value]

(* Scripts that several handlers follow.                                   *)
Told == {"bad", "idle"}
Finished == {"show", "good", "idle"}
SaveAndShow(call) == Call(call, Finished, Told)
ReadBack(call) == Call(call, {"show"}, {})
(* A change and the card's own reading, whose catch tells of its failure.  *)
SetThenRead(change, read) ==
  <<Call(change, {"next"}, Told), Call(read, {"show", "idle"}, {"idle"})>>
(* A change through useActionCycle whose answer is shown, without more.    *)
ShownCycle(call, effects) == <<Cycle(call, {"show"} \union effects, {})>>
=============================================================================
