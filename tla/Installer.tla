------------------------------ MODULE Installer ------------------------------
(***************************************************************************)
(* What an installation promises the one who asked for it: its packages are*)
(* tried one after the other, it says of a package that it is installed    *)
(* only when it is, it says that it is done only when all were tried, and  *)
(* what it has said of a package it does not take back.  It promises this  *)
(* of one installation at a time: while two are under way only packages    *)
(* arrive ("lost"), until one is begun alone again.                        *)
(***************************************************************************)
EXTENDS Naturals, Sequences

CONSTANT Lists  \* the lists of packages that may be asked for

VARIABLES
  stage,    \* "none", "running", "done", "failed" or "lost"
  wanted,   \* the list of the installation
  tried,    \* how many of them were tried
  told,     \* the packages it says it has installed
  present   \* the packages on the router

vars == <<stage, wanted, tried, told, present>>

Init ==
  stage = "none" /\ wanted = <<>> /\ tried = 0 /\ told = {} /\ present = {}

Begin ==
  /\ stage # "running"
  /\ stage' = "running" /\ wanted' \in Lists /\ tried' = 0 /\ told' = {}
  /\ UNCHANGED present

Put ==
  /\ stage = "running" /\ tried < Len(wanted)
  /\ present' = present \union {wanted[tried + 1]}
  /\ UNCHANGED <<stage, wanted, tried, told>>

Try ==
  /\ stage = "running" /\ tried < Len(wanted)
  /\ tried' = tried + 1
  /\ told' \in {told, (told \union {wanted[tried + 1]}) \intersect present}
  /\ UNCHANGED <<stage, wanted, present>>

Finish ==
  /\ stage = "running" /\ tried = Len(wanted)
  /\ stage' = "done"
  /\ UNCHANGED <<wanted, tried, told, present>>

Fail ==
  /\ stage = "running" /\ stage' = "failed"
  /\ UNCHANGED <<wanted, tried, told, present>>

Overlap ==
  /\ stage' = "lost" /\ wanted' = <<>> /\ tried' = 0 /\ told' = {}
  /\ present \subseteq present'
  /\ stage = "lost" \/ present' = present

(* The panel restarts and knows of no installation.                        *)
Restart ==
  /\ stage' = "none" /\ wanted' = <<>> /\ tried' = 0 /\ told' = {}
  /\ UNCHANGED present

Next == Begin \/ Put \/ Try \/ Finish \/ Fail \/ Overlap \/ Restart
Spec == Init /\ [][Next]_vars
=============================================================================
