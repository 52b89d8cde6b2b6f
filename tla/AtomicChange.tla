----------------------------- MODULE AtomicChange -----------------------------
(***************************************************************************)
(* What the panel promises of a change: it is made as a whole or not at    *)
(* all, however many others are made at the same time.  README.md 52-54:   *)
(* "snapshots the config, applies the change, waits, checks the service    *)
(* came up, and undoes itself if it did not".  Only a rollback that cannot *)
(* do its work leaves a part of a change behind.  Nothing is promised to   *)
(* changes of the same packages that are made at the same time: they are   *)
(* tangled, and what the others see leaves them aside.                     *)
(***************************************************************************)
EXTENDS Naturals

CONSTANTS
  Workers,  \* those that make a change each
  Pkgs      \* the packages of the configuration

VARIABLES
  files,    \* files[p]: the edits in p, but for those of the changes that
            \* are under way or tangled
  state,    \* state[w]: what became of w's change
  asked     \* asked[w]: the <<package, position>> of each edit w has to make

vars == <<files, state, asked>>

Edits(w) == {w} \X Nat

Init ==
  /\ files = [p \in Pkgs |-> {}]
  /\ state = [w \in Workers |-> "idle"]
  /\ asked \in [Workers -> SUBSET (Pkgs \X Nat)]

(* Some of the change arrives in the files, and nothing else does.         *)
Arrives(w) ==
  /\ DOMAIN files' = Pkgs
  /\ \A p \in Pkgs : /\ files[p] \subseteq files'[p]
                     /\ files'[p] \ files[p] \subseteq Edits(w)

Moves(w, before, after) ==
  /\ state[w] = before
  /\ state' = [state EXCEPT ![w] = after]
  /\ UNCHANGED asked

Begin(w) == Moves(w, "idle", "working") /\ UNCHANGED files

Succeed(w) ==
  /\ Moves(w, "working", "done")
  /\ Arrives(w)
  /\ \A c \in asked[w] : <<w, c[2]>> \in files'[c[1]]

Fail(w) == Moves(w, "working", "failed") /\ UNCHANGED files

(* A command of the rollback failed.                                       *)
Break(w) == Moves(w, "working", "broken") /\ Arrives(w)

(* Changes of the same packages meet.                                      *)
Tangle(meeting) ==
  /\ \A w \in meeting : state[w] \in {"idle", "working"}
  /\ state' = [w \in Workers |-> IF w \in meeting THEN "tangled" ELSE state[w]]
  /\ UNCHANGED <<files, asked>>

Next ==
  \/ \E w \in Workers : Begin(w) \/ Succeed(w) \/ Fail(w) \/ Break(w)
  \/ \E meeting \in SUBSET Workers : Tangle(meeting)

Spec == Init /\ [][Next]_vars
=============================================================================
