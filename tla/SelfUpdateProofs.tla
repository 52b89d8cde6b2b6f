-------------------------- MODULE SelfUpdateProofs --------------------------
(***************************************************************************)
(* What SelfUpdate promises for any number of starts, whoever makes them,  *)
(* and any number of restarts and power cuts: its type, that an update     *)
(* restarts into a binary that works, that the rescue copy is made before  *)
(* the binary goes, and that NetPulse and the dialog are told the truth.   *)
(***************************************************************************)
EXTENDS SelfUpdate, TLAPS

At == Idle \union Steps \union Works
RunRecord ==
  [at : At, by : By \union {"none"}, ino : Starts \union {0}, cut : BOOLEAN]

LEMMA StartsType == Starts \subseteq Nat \ {0}
  BY StartsAreCounted DEF Starts

(* A start that goes on stays whose it was.                                *)
LEMMA GoType ==
  ASSUME TypeOK, NEW p \in Starts, NEW at \in At, Go(p, at)
  PROVE  /\ run' \in [Starts -> RunRecord]
         /\ run'[p].at = at
         /\ \A q \in Starts : q # p => run'[q] = run[q]
         /\ \A q \in Starts : /\ run'[q].by = run[q].by
                              /\ run'[q].ino = run[q].ino
                              /\ run'[q].cut = run[q].cut
  <1>1. run \in [Starts -> RunRecord]
    BY DEF TypeOK, RunRecord, At
  <1>2. [run[p] EXCEPT !.at = at] \in RunRecord
    BY <1>1 DEF RunRecord
  <1>3. run' = [run EXCEPT ![p] = [run[p] EXCEPT !.at = at]]
    BY DEF Go
  <1>4. run' \in [Starts -> RunRecord]
    BY <1>1, <1>2, <1>3
  <1>5. run'[p] = [run[p] EXCEPT !.at = at]
    BY <1>1, <1>3
  <1>6. \A q \in Starts : q # p => run'[q] = run[q]
    BY <1>1, <1>3
  <1>7. run[p] \in RunRecord
    BY <1>1
  <1>8. /\ run'[p].at = at /\ run'[p].by = run[p].by
        /\ run'[p].ino = run[p].ino /\ run'[p].cut = run[p].cut
    BY <1>5, <1>7 DEF RunRecord
  <1> QED
    BY <1>4, <1>6, <1>8

(* The outcome goes to the start whose trigger armed the hook.             *)
LEMMA ReportType ==
  ASSUME TypeOK, NEW outcome \in {"ok", "failed"}, reportSelfUpdateOutcome(outcome)
  PROVE  /\ hook' = 0
         /\ told' \in [Starts -> {"nothing", "ok", "failed"}]
         /\ \A p \in Starts : told'[p] \in {told[p], outcome}
  BY DEF TypeOK, reportSelfUpdateOutcome

-----------------------------------------------------------------------------
(* The type of everything but the starts and the hook.                     *)
RestType ==
  /\ phase \in Busy \union {"idle", "restarting", "error"}
  /\ known \in BOOLEAN
  /\ told \in [Starts -> {"nothing", "ok", "failed"}]
  /\ tmp \in Starts \union {0} /\ file \in [Starts -> {"part", "whole"}]
  /\ cutter \in [Starts -> Starts \union {0}]
  /\ bin \in [what : Whole \union {"none", "part"}, by : Starts \union {0}]
  /\ prev \in Whole \union {"none", "part"}
  /\ running \in Whole \union {"dead"}
  /\ dialog \in {"closed", "asking", "watch", "wait", "done", "failed", "reloaded"}
  /\ past \in [overlap : BOOLEAN, norescue : BOOLEAN, cut : BOOLEAN]

RunType ==
  /\ run \in [Starts -> RunRecord]
  /\ hook \in Starts \union {0}
  /\ hook # 0 => run[hook].by = "netpulse"
  /\ hook # 0 => run[hook].at # "none"

(* That the start that armed the hook is under way is what makes the type  *)
(* inductive: nobody starts under its name again.                          *)
Typed == RestType /\ RunType

LEMMA TypedIsTypeOK == Typed => TypeOK
  BY DEF Typed, TypeOK, RestType, RunType, RunRecord, At

(* What a start may do to the starts: it moves, and leaves the hook, takes *)
(* it, or, if NetPulse made it, arms it.                                   *)
LEMMA RunKeeps ==
  ASSUME Typed, NEW p \in Starts, NEW at \in At \ {"none"}, Go(p, at),
         hook' \in {hook, 0} \/ (hook' = p /\ run[p].by = "netpulse")
  PROVE  RunType'
  BY TypedIsTypeOK, GoType, StartsType DEF Typed, RunType

LEMMA PastType ==
  ASSUME RestType, NEW a \in BOOLEAN, NEW b \in BOOLEAN
  PROVE  /\ [past EXCEPT !.overlap = a]
              \in [overlap : BOOLEAN, norescue : BOOLEAN, cut : BOOLEAN]
         /\ [past EXCEPT !.norescue = a]
              \in [overlap : BOOLEAN, norescue : BOOLEAN, cut : BOOLEAN]
         /\ [past EXCEPT !.cut = a, !.norescue = b]
              \in [overlap : BOOLEAN, norescue : BOOLEAN, cut : BOOLEAN]
  BY DEF RestType

LEMMA BinType ==
  ASSUME RestType, NEW what \in Whole \union {"none", "part"},
         NEW p \in Starts \union {0}
  PROVE  /\ [what |-> what, by |-> p]
              \in [what : Whole \union {"none", "part"}, by : Starts \union {0}]
         /\ [bin EXCEPT !.by = 0]
              \in [what : Whole \union {"none", "part"}, by : Starts \union {0}]
         /\ [bin EXCEPT !.by = 0].what = bin.what
         /\ bin.what \in Whole \union {"none", "part"}
  BY DEF RestType

(* A start that fails takes the file away.                                 *)
LEMMA FailType ==
  ASSUME Typed, NEW p \in Starts, failUpdate(p)
  PROVE  /\ RunType' /\ phase' = "error"
         /\ told' \in [Starts -> {"nothing", "ok", "failed"}]
         /\ UNCHANGED <<known, running, dialog, cuts>>
  <1>1. "failed" \in At \ {"none"} /\ "failed" \in {"ok", "failed"}
    BY DEF At, Idle
  <1>2. Go(p, "failed") /\ reportSelfUpdateOutcome("failed")
    BY DEF failUpdate
  <1> QED
    BY <1>1, <1>2, TypedIsTypeOK, ReportType, RunKeeps DEF failUpdate

LEMMA AskType ==
  ASSUME Typed, NEW p \in Starts, NEW by \in By, Ask(p, by)
  PROVE  Typed'
  <1> DEFINE at == IF by = "panel" THEN "start" ELSE "look"
             new == [run[p] EXCEPT !.at = at, !.by = by]
  <1>1. run[p] \in RunRecord /\ at \in At
    BY DEF Typed, RunType, At, Steps
  <1>2. new \in RunRecord
    BY <1>1 DEF RunRecord
  <1>3. run' = [run EXCEPT ![p] = new]
    BY DEF Ask
  <1>4. run' \in [Starts -> RunRecord]
    BY <1>2, <1>3 DEF Typed, RunType
  <1>5. hook # p /\ hook' = hook
    BY StartsType DEF Ask, core, Typed, RunType
  <1>6. RunType'
    BY <1>3, <1>4, <1>5 DEF Typed, RunType
  <1>7. RestType'
    BY DEF Ask, core, files, Typed, RestType
  <1> QED
    BY <1>6, <1>7 DEF Typed

LEMMA StartingType ==
  ASSUME Typed, NEW p \in Starts, Starting(p)
  PROVE  Typed'
  <1> USE DEF Typed
  <1>0. /\ {"refused", "start", "recheck", "go", "spawned"} \subseteq At \ {"none"}
        /\ "failed" \in {"ok", "failed"} /\ TypeOK
    BY TypedIsTypeOK DEF At, Idle, Steps, Works
  <1>1. ASSUME NEW b \in BOOLEAN, CheckSelfUpdate(b) PROVE known' \in BOOLEAN
    BY <1>1 DEF CheckSelfUpdate, RestType
  <1>2. ASSUME refuseStart(p)
        PROVE  /\ RunType' /\ told' \in [Starts -> {"nothing", "ok", "failed"}]
               /\ dialog' \in {dialog, "failed"}
    <2>1. Go(p, "refused") /\ dialog' \in {dialog, "failed"}
      BY <1>2 DEF refuseStart, refuse
    <2>2. /\ hook' \in {hook, 0}
          /\ told' \in [Starts -> {"nothing", "ok", "failed"}]
      BY <1>0, <1>2, ReportType DEF refuseStart, RestType
    <2> QED
      BY <1>0, <2>1, <2>2, RunKeeps
  <1>3. CASE Look(p)
    <2>1. known' \in BOOLEAN
      BY <1>1, <1>3 DEF Look
    <2>2. RunType' /\ dialog' \in {dialog, "failed"}
      BY <1>0, <1>3, RunKeeps DEF Look, refuse
    <2> QED
      BY <1>3, <2>1, <2>2 DEF Look, files, RestType
  <1>4. CASE StartSelfUpdate(p)
    <2>1. CASE refuseStart(p)
      BY <1>2, <1>4, <2>1 DEF StartSelfUpdate, files, RestType
    <2>2. CASE Go(p, IF known THEN "go" ELSE "recheck") /\ UNCHANGED <<hook, told, dialog>>
      <3>1. RunType'
        BY <1>0, <2>2, RunKeeps
      <3> QED
        BY <1>4, <2>2, <3>1 DEF StartSelfUpdate, files, RestType
    <2> QED
      BY <1>4, <2>1, <2>2 DEF StartSelfUpdate
  <1>5. CASE Recheck(p)
    <2>1. known' \in BOOLEAN
      BY <1>1, <1>5 DEF Recheck
    <2>2. CASE refuseStart(p)
      BY <1>2, <1>5, <2>1, <2>2 DEF Recheck, files, RestType
    <2>3. CASE Go(p, "go") /\ UNCHANGED <<hook, told, dialog>>
      <3>1. RunType'
        BY <1>0, <2>3, RunKeeps
      <3> QED
        BY <1>5, <2>1, <2>3, <3>1 DEF Recheck, files, RestType
    <2> QED
      BY <1>5, <2>2, <2>3 DEF Recheck
  <1>6. CASE Spawn(p)
    <2>1. RunType'
      BY <1>0, <1>6, RunKeeps DEF Spawn, core
    <2>2. past.overlap \in BOOLEAN
      BY DEF RestType
    <2>3. past' \in [overlap : BOOLEAN, norescue : BOOLEAN, cut : BOOLEAN]
      BY <1>6, <2>2, PastType DEF Spawn
    <2> QED
      BY <1>6, <2>1, <2>3 DEF Spawn, core, files, RestType
  <1> QED
    BY <1>3, <1>4, <1>5, <1>6 DEF Starting

(* The panel starts again: every start that is under way is gone.          *)
LEMMA AgainType ==
  ASSUME Typed, StartAgain
  PROVE  /\ RunType'
         /\ phase' = "idle" /\ known' = FALSE /\ told' = told
         /\ running' \in Whole \union {"dead"}
         /\ bin' \in [what : Whole \union {"none", "part"}, by : Starts \union {0}]
         /\ dialog' \in {dialog, "failed"}
         /\ \A q \in Starts :
              run'[q].at \notin Steps \union Works /\ run'[q].by = run[q].by
  <1> USE DEF Typed
  <1>1. \A q \in Starts : run[q] \in RunRecord
    BY DEF RunType
  <1>2. \A r \in RunRecord : /\ [r EXCEPT !.at = "gone"] \in RunRecord
                            /\ [r EXCEPT !.at = "gone"].at = "gone"
                            /\ [r EXCEPT !.at = "gone"].by = r.by
    BY DEF RunRecord, At, Idle
  <1>3. \A q \in Starts : run'[q] = IF run[q].at \in Idle THEN run[q]
                                   ELSE [run[q] EXCEPT !.at = "gone"]
    BY DEF StartAgain
  <1>4. \A q \in Starts : run'[q] \in RunRecord
    BY <1>1, <1>2, <1>3
  <1>5. \A q \in Starts : run'[q].at \in Idle /\ run'[q].by = run[q].by
    <2>1. "gone" \in Idle
      BY DEF Idle
    <2> TAKE q \in Starts
    <2>2. CASE run[q].at \in Idle
      BY <1>3, <2>2
    <2>3. CASE run[q].at \notin Idle
      <3>1. run'[q] = [run[q] EXCEPT !.at = "gone"]
        BY <1>3, <2>3
      <3> QED
        BY <1>1, <1>2, <2>1, <3>1
    <2> QED
      BY <2>2, <2>3
  <1>6. run' \in [Starts -> RunRecord]
    BY <1>4 DEF StartAgain
  <1>7. RunType'
    <2>1. hook' = 0
      BY DEF StartAgain
    <2> QED
      BY <1>6, <2>1 DEF RunType
  <1>8. Idle \cap (Steps \union Works) = {}
    BY DEF Idle, Steps, Works
  <1> QED
    BY <1>5, <1>7, <1>8, BinType DEF StartAgain, RestType

LEMMA CreateType ==
  ASSUME Typed, NEW p \in Starts, Create(p)
  PROVE  Typed'
  <1> USE DEF Typed
  <1> DEFINE ino == IF tmp = 0 THEN p ELSE tmp
  <1>1. ino \in Starts
    BY DEF RestType
  <1>2. \A q \in Starts : run[q] \in RunRecord
    BY DEF RunType
  <1>3. \A r \in RunRecord :
          /\ [r EXCEPT !.at = "write", !.ino = ino] \in RunRecord
          /\ [r EXCEPT !.at = "write", !.ino = ino].by = r.by
    BY <1>1 DEF RunRecord, At, Works
  <1>4. \A r \in RunRecord :
          /\ [r EXCEPT !.cut = @ \/ r.ino = ino] \in RunRecord
          /\ [r EXCEPT !.cut = @ \/ r.ino = ino].by = r.by
    BY DEF RunRecord
  <1>5. \A r \in RunRecord :
          /\ [r EXCEPT !.at = "write", !.ino = ino].at = "write"
          /\ [r EXCEPT !.cut = @ \/ r.ino = ino].at = r.at
    BY DEF RunRecord
  <1>6. run' = [q \in Starts |->
                  IF q = p THEN [run[p] EXCEPT !.at = "write", !.ino = ino]
                  ELSE [run[q] EXCEPT !.cut = @ \/ run[q].ino = ino]]
    BY DEF Create
  <1>7. \A q \in Starts :
          /\ run'[q] \in RunRecord
          /\ run'[q].by = run[q].by
          /\ run'[q].at \in {run[q].at, "write"}
    <2> TAKE q \in Starts
    <2>1. CASE q = p
      <3>1. run'[q] = [run[q] EXCEPT !.at = "write", !.ino = ino]
        BY <1>6, <2>1
      <3> QED
        BY <1>2, <1>3, <1>5, <3>1
    <2>2. CASE q # p
      <3>1. run'[q] = [run[q] EXCEPT !.cut = @ \/ run[q].ino = ino]
        BY <1>6, <2>2
      <3> QED
        BY <1>2, <1>4, <1>5, <3>1
    <2> QED
      BY <2>1, <2>2
  <1>8. run' \in [Starts -> RunRecord]
    <2>1. run' = [q \in Starts |-> run'[q]]
      BY <1>6
    <2> QED
      BY <1>7, <2>1
  <1>9. hook' = hook
    BY DEF Create, rest
  <1>10. RunType'
    <2> SUFFICES ASSUME hook # 0
                 PROVE  run'[hook].by = "netpulse" /\ run'[hook].at # "none"
      BY <1>8, <1>9 DEF RunType
    <2>1. /\ hook \in Starts /\ run[hook].by = "netpulse"
          /\ run[hook].at # "none"
      BY DEF RunType
    <2> QED
      BY <1>7, <2>1
  <1>11. RestType'
    BY <1>1 DEF Create, rest, RestType
  <1> QED
    BY <1>10, <1>11

LEMMA OpenType ==
  ASSUME Typed, NEW p \in Starts, Open(p)
  PROVE  Typed'
  <1> USE DEF Typed
  <1>1. CASE tmp = 0
    BY <1>1, FailType DEF Open, failAndRemove, RestType
  <1>2. CASE tmp # 0
    <2> DEFINE new == [run[p] EXCEPT !.at = "copy", !.ino = tmp,
                                     !.cut = file[tmp] = "part"]
    <2>1. tmp \in Starts /\ run[p] \in RunRecord
      BY <1>2 DEF RestType, RunType
    <2>2. new \in RunRecord /\ new.by = run[p].by /\ new.at = "copy"
      <3>1. new \in RunRecord
        BY <2>1 DEF RunRecord, At, Works
      <3>2. new.by = run[p].by /\ new.at = "copy"
        BY <2>1 DEF RunRecord
      <3> QED
        BY <3>1, <3>2
    <2>3. run' = [run EXCEPT ![p] = new] /\ UNCHANGED rest
      BY <1>2 DEF Open
    <2> HIDE DEF new
    <2>4. RunType'
      BY <2>2, <2>3, StartsType DEF rest, RunType
    <2>5. bin' \in [what : Whole \union {"none", "part"}, by : Starts \union {0}]
      BY <1>2, BinType DEF Open
    <2> QED
      BY <1>2, <2>3, <2>4, <2>5 DEF Open, rest, RestType
  <1> QED
    BY <1>1, <1>2

LEMMA WorkType ==
  ASSUME Typed, NEW p \in Starts, Work(p)
  PROVE  Typed'
  <1> USE DEF Typed
  <1>0. Works \subseteq At \ {"none"} /\ TypeOK
    BY TypedIsTypeOK DEF At, Idle, Works
  <1>1. ASSUME NEW at \in Works, Go(p, at), UNCHANGED rest
        PROVE  /\ RunType'
               /\ UNCHANGED <<known, told, running, dialog>>
    BY <1>0, <1>1, RunKeeps DEF rest
  <1>2. CASE Begin(p)
    BY <1>1, <1>2 DEF Begin, files, RestType, Works, Busy
  <1>3. CASE Create(p)
    BY <1>3, CreateType
  <1>4. CASE FetchFails(p) \/ WriteFails(p) \/ NoMatch(p)
    BY <1>4, FailType DEF FetchFails, WriteFails, NoMatch, failAndRemove, files,
                          RestType
  <1>5. CASE Write(p)
    <2>1. PICK held \in {file[run[p].ino], "whole"} :
            file' = [file EXCEPT ![run[p].ino] = held]
      BY <1>5 DEF Write
    <2>2. file' \in [Starts -> {"part", "whole"}]
      BY <2>1 DEF RestType
    <2> QED
      BY <1>1, <1>5, <2>2 DEF Write, RestType, Works, Busy
  <1>6. CASE elfArchMatches(p)
    BY <1>1, <1>6 DEF elfArchMatches, files, RestType, Works, Busy
  <1>7. CASE Rescue(p)
    <2>1. past.norescue \in BOOLEAN
      BY DEF RestType
    <2>2. past' \in [overlap : BOOLEAN, norescue : BOOLEAN, cut : BOOLEAN]
      <3>1. \/ past' = [past EXCEPT !.norescue = past.norescue /\ bin.what = "none"]
            \/ past' = [past EXCEPT !.norescue = TRUE]
        BY <1>7 DEF Rescue
      <3> QED
        BY <2>1, <3>1, PastType
    <2>3. prev' \in Whole \union {"none", "part"}
      BY <1>7, BinType DEF Rescue, RestType
    <2> QED
      BY <1>1, <1>7, <2>2, <2>3 DEF Rescue, RestType, Works
  <1>8. CASE Space(p)
    <2>1. CASE failAndRemove(p) /\ UNCHANGED bin
      BY <1>8, <2>1, FailType DEF Space, failAndRemove, RestType
    <2>2. CASE Go(p, "unlink") /\ UNCHANGED <<rest, phase, files>>
      BY <1>1, <1>8, <2>2 DEF Space, files, RestType, Works
    <2> QED
      BY <1>8, <2>1, <2>2 DEF Space
  <1>9. CASE Unlink(p)
    BY <1>1, <1>9, BinType DEF Unlink, RestType, Works
  <1>10. CASE Open(p)
    BY <1>10, OpenType
  <1>11. CASE Copy(p)
    <2>1. bin' \in [what : Whole \union {"none", "part"}, by : Starts \union {0}]
      BY <1>11, BinType DEF Copy, Whole, RestType
    <2> QED
      BY <1>1, <1>11, <2>1 DEF Copy, RestType, Works
  <1>12. CASE CopyFails(p)
    <2>1. bin' \in [what : Whole \union {"none", "part"}, by : Starts \union {0}]
      BY <1>12, BinType DEF CopyFails, RestType
    <2> QED
      BY <1>12, <2>1, FailType DEF CopyFails, failAndRemove, RestType
  <1>13. CASE Finish(p)
    <2>1. CASE failAndRemove(p) /\ UNCHANGED bin
      BY <1>13, <2>1, FailType DEF Finish, failAndRemove, RestType
    <2>2. CASE bin.what # "none"
      <3>1. reportSelfUpdateOutcome("ok") /\ Go(p, "restart")
        BY <1>13, <2>2 DEF Finish
      <3>2. hook' = 0 /\ told' \in [Starts -> {"nothing", "ok", "failed"}]
        BY <1>0, <3>1, ReportType
      <3>3. RunType'
        BY <1>0, <3>1, <3>2, RunKeeps DEF Works
      <3> QED
        BY <1>13, <2>2, <3>2, <3>3 DEF Finish, RestType
    <2> QED
      BY <1>13, <2>1, <2>2 DEF Finish
  <1>14. CASE Restart(p)
    BY <1>14, AgainType DEF Restart, RestType
  <1> QED
    BY <1>2, <1>3, <1>4, <1>5, <1>6, <1>7, <1>8, <1>9, <1>10, <1>11, <1>12, <1>13,
       <1>14 DEF Work

LEMMA StepTyped == Typed /\ [Next]_vars => Typed'
  <1> SUFFICES ASSUME Typed, [Next]_vars PROVE Typed'
    OBVIOUS
  <1> USE DEF Typed
  <1>1. CASE UNCHANGED vars
    BY <1>1 DEF vars, core, files, RestType, RunType
  <1>2. ASSUME NEW power \in BOOLEAN, Cut(power) PROVE Typed'
    <2>1. past.norescue \in BOOLEAN
      BY DEF RestType
    <2>2. past' \in [overlap : BOOLEAN, norescue : BOOLEAN, cut : BOOLEAN]
      BY <1>2, <2>1, PastType DEF Cut
    <2> QED
      BY <1>2, <2>2, AgainType DEF Cut, RestType
  <1>3. CASE Poll
    BY <1>3 DEF Poll, core, files, RestType, RunType
  <1>4. CASE Me \/ ShellRenders
    BY <1>4 DEF Me, ShellRenders, core, files, RestType, RunType
  <1> QED
    BY <1>1, <1>2, <1>3, <1>4, AskType, StartingType, WorkType DEF Next

LEMMA InitTyped == Init => Typed
  <1>1. NoRun \in RunRecord
    BY DEF NoRun, RunRecord, At, Idle
  <1> QED
    BY <1>1 DEF Init, Typed, RestType, RunType, Whole

(* The phase, the hook, the starts, the files and the dialog keep their    *)
(* types, and only a NetPulse trigger arms the hook.                       *)
THEOREM UpdateTyped == Spec => []TypeOK
  BY InitTyped, StepTyped, TypedIsTypeOK, PTL DEF Spec
-----------------------------------------------------------------------------
(* What one update at a time can count on.  It is the only one at work;    *)
(* the file it created stays, is emptied by nobody else, and is whole once *)
(* it is written; nobody else writes the binary while it does.             *)
Alone == ~past.overlap => \A p, q \in Working : p = q
OwnFile(p) ==
  /\ run[p].at = "write" => tmp # 0 /\ run[p].ino = tmp /\ cutter[tmp] = p
  /\ run[p].at \in {"verify", "rescue", "space", "unlink", "open"}
       => tmp # 0 /\ file[tmp] = "whole"
OwnBinary(p) ==
  /\ run[p].at = "open" => bin.what = "none"
  /\ run[p].at = "copy" => bin = [what |-> "part", by |-> p] /\ ~run[p].cut
  /\ run[p].at \in {"finish", "restart"} => bin.what = "new"
OwnRescue(p) ==
  run[p].at \in {"space", "unlink"} /\ bin.what \in Whole /\ ~past.norescue
    => prev \in Whole

AloneInv ==
  /\ Alone
  /\ ~past.overlap => \A p \in Starts : OwnFile(p) /\ OwnBinary(p) /\ OwnRescue(p)

(* What the dialog can count on, however many updates there are: until the *)
(* panel has started again nothing sets the phase back to idle, and what   *)
(* it starts again from is not the old binary.                             *)
OldGone ==
  \A p \in Starts :
    run[p].at \in {"open", "copy", "finish", "restart"} => bin.what # "old"
NotBegun ==
  /\ \A p \in Starts : run[p].at \in {"none", "refused", "spawned"} \union Steps
  /\ dialog # "wait"
  /\ dialog = "watch" => \E p \in Starts : run[p].at = "spawned"
IdleIsNew == ~past.cut /\ running = "old" /\ phase = "idle" => NotBegun

DialogInv == OldGone /\ IdleIsNew
-----------------------------------------------------------------------------
(* Where a step of a goroutine leads from where it is; the others stay.    *)
LEMMA WorkMoves ==
  ASSUME Typed, NEW p \in Starts, Work(p), ~Restart(p)
  PROVE  /\ run[p].at \in Works
         /\ run'[p].at \in Works \union {"failed"}
         /\ \A q \in Starts : q # p => run'[q].at = run[q].at
         /\ past'.overlap = past.overlap /\ past'.cut = past.cut
  <1> USE DEF Typed
  <1>0. TypeOK /\ Works \union {"failed"} \subseteq At
    BY TypedIsTypeOK DEF At, Idle
  <1>1. ASSUME NEW at \in Works \union {"failed"}, Go(p, at)
        PROVE  run'[p].at = at /\ \A q \in Starts : q # p => run'[q].at = run[q].at
    BY <1>0, <1>1, GoType
  <1>2. run[p].at \in Works
    BY DEF Work, Begin, Create, FetchFails, Write, WriteFails, elfArchMatches,
           NoMatch, Rescue, Space, Unlink, Open, Copy, CopyFails, Finish, Works
  <1>3. /\ past'.overlap = past.overlap /\ past'.cut = past.cut
    <2>1. CASE Rescue(p)
      BY <2>1 DEF Rescue, RestType
    <2>2. CASE past' = past
      BY <2>2
    <2> QED
      BY <2>1, <2>2 DEF Work, Begin, Create, FetchFails, Write, WriteFails,
           elfArchMatches, NoMatch, Space, Unlink, Open, Copy, CopyFails, Finish
  <1>4. CASE Create(p)
    <2> DEFINE ino == IF tmp = 0 THEN p ELSE tmp
    <2>1. run' = [q \in Starts |->
                  IF q = p THEN [run[p] EXCEPT !.at = "write", !.ino = ino]
                  ELSE [run[q] EXCEPT !.cut = @ \/ run[q].ino = ino]]
      BY <1>4 DEF Create
    <2>2. run'[p] = [run[p] EXCEPT !.at = "write", !.ino = ino]
      BY <2>1
    <2>3. run'[p].at = "write"
      BY <2>2 DEF RunType, RunRecord
    <2>4. ASSUME NEW q \in Starts, q # p PROVE run'[q].at = run[q].at
      <3>1. run'[q] = [run[q] EXCEPT !.cut = @ \/ run[q].ino = ino]
        BY <2>1, <2>4
      <3> QED
        BY <3>1 DEF RunType, RunRecord
    <2> QED
      BY <1>2, <1>3, <2>3, <2>4 DEF Works
  <1>5. CASE Open(p) /\ tmp # 0
    <2>1. run' = [run EXCEPT ![p] = [run[p] EXCEPT !.at = "copy", !.ino = tmp,
                                                   !.cut = file[tmp] = "part"]]
      BY <1>5 DEF Open
    <2>2. run'[p] = [run[p] EXCEPT !.at = "copy", !.ino = tmp,
                                   !.cut = file[tmp] = "part"]
      BY <2>1 DEF RunType
    <2>3. run'[p].at = "copy"
      BY <2>2 DEF RunType, RunRecord
    <2>4. \A q \in Starts : q # p => run'[q].at = run[q].at
      BY <2>1 DEF RunType
    <2> QED
      BY <1>2, <1>3, <2>3, <2>4 DEF Works
  <1>6. CASE \E at \in Works \union {"failed"} : Go(p, at)
    BY <1>1, <1>2, <1>3, <1>6
  <1>7. \/ Create(p) \/ (Open(p) /\ tmp # 0)
        \/ \E at \in Works \union {"failed"} : Go(p, at)
    BY DEF Work, Begin, FetchFails, Write, WriteFails, elfArchMatches, NoMatch,
           Rescue, Space, Unlink, Open, Copy, CopyFails, Finish, failUpdate,
           failAndRemove, Works
  <1> QED
    BY <1>4, <1>5, <1>6, <1>7

(* Alone, a goroutine finds its file and its binary as it left them.       *)
LEMMA AloneWork ==
  ASSUME Typed, Typed', NEW p \in Starts, Work(p), ~Restart(p),
         ~past.overlap, OwnFile(p), OwnBinary(p), OwnRescue(p)
  PROVE  (OwnFile(p) /\ OwnBinary(p) /\ OwnRescue(p))'
  <1> USE DEF Typed
  <1>0. TypeOK /\ Works \union {"failed"} \subseteq At
    BY TypedIsTypeOK DEF At, Idle
  <1>1. ASSUME NEW at \in Works \union {"failed"}, Go(p, at)
        PROVE  run'[p].at = at /\ run'[p].ino = run[p].ino /\ run'[p].cut = run[p].cut
    BY <1>0, <1>1, GoType
  <1>2. CASE Begin(p)
    <2>1. run'[p].at = "fetch"
      BY <1>1, <1>2 DEF Begin, Works
    <2> QED
      BY <2>1 DEF OwnFile, OwnBinary, OwnRescue
  <1>3. CASE Create(p)
    <2> DEFINE ino == IF tmp = 0 THEN p ELSE tmp
    <2>1. run'[p] = [run[p] EXCEPT !.at = "write", !.ino = ino]
      BY <1>3 DEF Create
    <2>2. run'[p].at = "write" /\ run'[p].ino = ino
      BY <2>1 DEF RunType, RunRecord
    <2>3. tmp' = ino /\ ino \in Starts /\ cutter' = [cutter EXCEPT ![ino] = p]
      BY <1>3 DEF Create, RestType
    <2>4. cutter'[ino] = p /\ ino # 0
      BY <2>3, StartsType DEF RestType
    <2> QED
      BY <2>2, <2>3, <2>4 DEF OwnFile, OwnBinary, OwnRescue
  <1>4. CASE failUpdate(p)
    <2>1. run'[p].at = "failed"
      BY <1>1, <1>4 DEF failUpdate
    <2> QED
      BY <2>1 DEF OwnFile, OwnBinary, OwnRescue
  <1>5. CASE Write(p)
    <2>1. run'[p].at = "verify" /\ tmp' = tmp
      BY <1>1, <1>5 DEF Write, Works
    <2>2. tmp # 0 /\ run[p].ino = tmp /\ cutter[tmp] = p
      BY <1>5 DEF Write, OwnFile
    <2>3. file' = [file EXCEPT ![tmp] = "whole"]
      BY <1>5, <2>2 DEF Write
    <2>4. file'[tmp] = "whole"
      BY <2>2, <2>3 DEF RestType
    <2> QED
      BY <2>1, <2>2, <2>4 DEF OwnFile, OwnBinary, OwnRescue
  <1>6. CASE elfArchMatches(p)
    <2>1. run'[p].at = "rescue" /\ UNCHANGED files
      BY <1>1, <1>6 DEF elfArchMatches, Works
    <2>2. tmp # 0 /\ file[tmp] = "whole"
      BY <1>6 DEF elfArchMatches, OwnFile
    <2> QED
      BY <2>1, <2>2 DEF files, OwnFile, OwnBinary, OwnRescue
  <1>7. CASE Rescue(p)
    <2>1. run'[p].at = "space" /\ UNCHANGED <<tmp, file, bin>>
      BY <1>1, <1>7 DEF Rescue, Works
    <2>2. tmp # 0 /\ file[tmp] = "whole"
      BY <1>7 DEF Rescue, OwnFile
    <2>3. bin.what \in Whole /\ ~past'.norescue => prev' \in Whole
      <3>1. CASE prev' = IF bin.what = "none" THEN prev ELSE bin.what
        BY <3>1 DEF Whole
      <3>2. CASE past' = [past EXCEPT !.norescue = TRUE]
        BY <3>2 DEF RestType
      <3> QED
        BY <1>7, <3>1, <3>2 DEF Rescue
    <2> QED
      BY <2>1, <2>2, <2>3 DEF OwnFile, OwnBinary, OwnRescue
  <1>8. CASE Space(p) /\ Go(p, "unlink") /\ UNCHANGED <<rest, phase, files>>
    <2>1. run'[p].at = "unlink" /\ UNCHANGED <<files, past>>
      BY <1>1, <1>8 DEF Space, Works
    <2>2. tmp # 0 /\ file[tmp] = "whole"
      BY <1>8 DEF Space, OwnFile
    <2>3. bin.what \in Whole /\ ~past.norescue => prev \in Whole
      BY <1>8 DEF Space, OwnRescue
    <2> QED
      BY <2>1, <2>2, <2>3 DEF files, OwnFile, OwnBinary, OwnRescue
  <1>9. CASE Unlink(p)
    <2>1. run'[p].at = "open" /\ UNCHANGED <<tmp, file>> /\ bin'.what = "none"
      BY <1>1, <1>9 DEF Unlink, Works
    <2>2. tmp # 0 /\ file[tmp] = "whole"
      BY <1>9 DEF Unlink, OwnFile
    <2> QED
      BY <2>1, <2>2 DEF OwnFile, OwnBinary, OwnRescue
  <1>10. CASE Open(p) /\ tmp # 0
    <2>1. run'[p] = [run[p] EXCEPT !.at = "copy", !.ino = tmp,
                                   !.cut = file[tmp] = "part"]
      BY <1>10 DEF Open, RunType
    <2>2. run'[p].at = "copy" /\ run'[p].cut = (file[tmp] = "part")
      BY <2>1 DEF RunType, RunRecord
    <2>3. file[tmp] = "whole"
      BY <1>10 DEF Open, OwnFile
    <2>4. bin' = [what |-> "part", by |-> p]
      BY <1>10 DEF Open
    <2> QED
      BY <2>2, <2>3, <2>4 DEF OwnFile, OwnBinary, OwnRescue
  <1>11. CASE Copy(p)
    <2>1. run'[p].at = "finish"
      BY <1>1, <1>11 DEF Copy, Works
    <2>2. bin.by = p /\ ~run[p].cut
      BY <1>11 DEF Copy, OwnBinary
    <2>3. bin'.what = "new"
      BY <1>11, <2>2 DEF Copy
    <2> QED
      BY <2>1, <2>3 DEF OwnFile, OwnBinary, OwnRescue
  <1>12. CASE Finish(p) /\ bin.what # "none"
    <2>1. run'[p].at = "restart" /\ bin' = bin
      BY <1>1, <1>12 DEF Finish, Works
    <2>2. bin.what = "new"
      BY <1>12 DEF Finish, OwnBinary
    <2> QED
      BY <2>1, <2>2 DEF OwnFile, OwnBinary, OwnRescue
  <1> QED
    BY <1>2, <1>3, <1>4, <1>5, <1>6, <1>7, <1>8, <1>9, <1>10, <1>11, <1>12
    DEF Work, FetchFails, WriteFails, NoMatch, failAndRemove, Space, Open, CopyFails,
        Finish

(* Only where the panel starts again does another version run.             *)
LEMMA RunningStays ==
  ASSUME Typed, [Next]_vars, running' # running
  PROVE  (\E p \in Starts : Restart(p)) \/ \E power \in BOOLEAN : Cut(power)
  BY DEF Next, vars, Ask, Starting, Look, StartSelfUpdate, Recheck, Spawn, Work, Begin,
         rest, Create, FetchFails, failUpdate, Write, WriteFails, failAndRemove,
         elfArchMatches, NoMatch, Rescue, Space, Unlink, Open, Copy, CopyFails,
         Finish, Poll, Me, ShellRenders

(* Where a step before the goroutine leads; the files stay as they are.    *)
LEMMA StartMoves ==
  ASSUME Typed, NEW p \in Starts, Starting(p) \/ \E by \in By : Ask(p, by)
  PROVE  /\ run[p].at \in Steps \union {"none"} /\ UNCHANGED files
         /\ \A q \in Starts : q # p => run'[q] = run[q]
         /\ \/ Spawn(p) /\ run'[p].at = "spawned"
            \/ past' = past /\ run'[p].at \in Steps \union {"refused"}
  <1> USE DEF Typed
  <1>0. /\ {"refused", "start", "recheck", "go", "spawned"} \subseteq At /\ TypeOK
    BY TypedIsTypeOK DEF At, Idle, Steps, Works
  <1>1. ASSUME NEW at \in {"refused", "start", "recheck", "go", "spawned"}, Go(p, at)
        PROVE  run'[p].at = at /\ \A q \in Starts : q # p => run'[q] = run[q]
    BY <1>0, <1>1, GoType
  <1>2. CASE Spawn(p)
    BY <1>1, <1>2 DEF Spawn, Steps
  <1>3. CASE Look(p) \/ StartSelfUpdate(p) \/ Recheck(p)
    <2>1. \/ Go(p, "refused") \/ Go(p, "start") \/ Go(p, "go") \/ Go(p, "recheck")
      BY <1>3 DEF Look, StartSelfUpdate, Recheck, refuseStart, refuse
    <2> QED
      BY <1>1, <1>3, <2>1 DEF Look, StartSelfUpdate, Recheck, Steps
  <1>4. ASSUME NEW by \in By, Ask(p, by)
        PROVE  /\ run[p].at = "none" /\ UNCHANGED files /\ past' = past
               /\ \A q \in Starts : q # p => run'[q] = run[q]
               /\ run'[p].at \in {"start", "look"}
    <2> DEFINE at == IF by = "panel" THEN "start" ELSE "look"
               new == [run[p] EXCEPT !.at = at, !.by = by]
    <2>1. run' = [run EXCEPT ![p] = new]
      BY <1>4 DEF Ask
    <2>2. new.at = at
      BY DEF RunType, RunRecord
    <2>3. run'[p] = new /\ \A q \in Starts : q # p => run'[q] = run[q]
      BY <2>1 DEF RunType
    <2> QED
      BY <1>4, <2>2, <2>3 DEF Ask
  <1> QED
    BY <1>2, <1>3, <1>4 DEF Starting, Steps

(* What has happened stays so.                                             *)
LEMMA PastStays ==
  ASSUME Typed, [Next]_vars
  PROVE  /\ past.overlap => past'.overlap
         /\ past.cut => past'.cut
  <1> USE DEF Typed
  <1>1. CASE past' = past
    BY <1>1
  <1>2. ASSUME NEW p \in Starts, Spawn(p)
        PROVE  (past.overlap => past'.overlap) /\ (past.cut => past'.cut)
    BY <1>2 DEF Spawn, RestType
  <1>3. ASSUME NEW power \in BOOLEAN, Cut(power)
        PROVE  (past.overlap => past'.overlap) /\ (past.cut => past'.cut)
    BY <1>3 DEF Cut, RestType
  <1>4. ASSUME NEW p \in Starts, Work(p), ~Restart(p)
        PROVE  (past.overlap => past'.overlap) /\ (past.cut => past'.cut)
    BY <1>4, WorkMoves
  <1>5. ASSUME NEW p \in Starts, Restart(p) PROVE past' = past
    BY <1>5 DEF Restart
  <1>6. ASSUME NEW p \in Starts, Starting(p) \/ \E by \in By : Ask(p, by), ~Spawn(p)
        PROVE  past' = past
    BY <1>6, StartMoves
  <1>7. CASE UNCHANGED vars \/ Poll \/ Me \/ ShellRenders
    BY <1>1, <1>7 DEF vars, Poll, Me, ShellRenders
  <1> QED
    BY <1>1, <1>2, <1>3, <1>4, <1>5, <1>6, <1>7 DEF Next

LEMMA AloneStep == Typed /\ Typed' /\ AloneInv /\ [Next]_vars => AloneInv'
  <1> SUFFICES ASSUME Typed, Typed', AloneInv, [Next]_vars, ~past'.overlap
               PROVE  /\ \A p, q \in Working' : p = q
                      /\ \A p \in Starts : (OwnFile(p) /\ OwnBinary(p) /\ OwnRescue(p))'
    BY DEF AloneInv, Alone
  <1> DEFINE Own(p) == OwnFile(p) /\ OwnBinary(p) /\ OwnRescue(p)
  <1>8. ~past.overlap
    BY PastStays
  <1>1. ASSUME NEW p \in Starts, run'[p].at \notin Works PROVE Own(p)'
    BY <1>1 DEF OwnFile, OwnBinary, OwnRescue, Works
  <1>2. CASE UNCHANGED <<run, files, past>>
    BY <1>2, <1>8 DEF files, AloneInv, Alone, Working, OwnFile, OwnBinary, OwnRescue
  <1>3. CASE UNCHANGED vars \/ Poll \/ Me \/ ShellRenders
    BY <1>2, <1>3 DEF vars, Poll, Me, ShellRenders
  <1>4. CASE StartAgain
    <2>1. \A p \in Starts : run'[p].at \notin Works
      BY <1>4, AgainType
    <2> QED
      BY <1>1, <2>1 DEF Working
  <1>5. ASSUME NEW p \in Starts, Work(p), ~Restart(p)
        PROVE  Working' \subseteq Working /\ \A q \in Starts : Own(q)'
    <2>1. /\ run[p].at \in Works
          /\ \A q \in Starts : q # p => run'[q].at = run[q].at
      BY <1>5, WorkMoves
    <2>2. \A q \in Starts : q # p => run[q].at \notin Works
      BY <1>8, <2>1 DEF AloneInv, Alone, Working
    <2>3. Own(p)'
      BY <1>5, <1>8, AloneWork DEF AloneInv
    <2>4. ASSUME NEW q \in Starts, q # p PROVE Own(q)'
      BY <1>1, <2>1, <2>2, <2>4
    <2> QED
      BY <2>1, <2>2, <2>3, <2>4 DEF Working
  <1>6. ASSUME NEW p \in Starts, Starting(p) \/ \E by \in By : Ask(p, by), ~Spawn(p)
        PROVE  Working' = Working /\ \A q \in Starts : Own(q)'
    <2>1. /\ run[p].at \notin Works /\ run'[p].at \notin Works /\ UNCHANGED files
          /\ past' = past /\ \A q \in Starts : q # p => run'[q] = run[q]
      BY <1>6, StartMoves DEF Steps, Works
    <2>3. ASSUME NEW q \in Starts, q # p PROVE Own(q)'
      <3>1. Own(q) /\ UNCHANGED <<run[q], tmp, file, cutter, bin, prev, past>>
        BY <1>8, <2>1, <2>3 DEF files, AloneInv
      <3> QED
        BY <3>1 DEF OwnFile, OwnBinary, OwnRescue
    <2> QED
      BY <1>1, <2>1, <2>3 DEF Working
  <1>7. ASSUME NEW p \in Starts, Spawn(p)
        PROVE  Working' = {p} /\ \A q \in Starts : Own(q)'
    <2>1. Working = {}
      BY <1>7 DEF Spawn, Typed, RestType
    <2>2. /\ run'[p].at = "spawned"
          /\ \A q \in Starts : q # p => run'[q].at = run[q].at
      BY <1>7, TypedIsTypeOK, GoType DEF Spawn, At, Works
    <2>3. \A q \in Starts : q # p => run'[q].at \notin Works
      BY <2>1, <2>2 DEF Working
    <2>4. Own(p)'
      BY <2>2 DEF OwnFile, OwnBinary, OwnRescue
    <2>5. Working' = {p}
      BY <2>2, <2>3 DEF Working, Works
    <2> QED
      BY <1>1, <2>3, <2>4, <2>5
  <1> QED
    BY <1>3, <1>4, <1>5, <1>6, <1>7, <1>8 DEF Next, Work, Restart, Cut, AloneInv, Alone

AloneFull == Typed /\ AloneInv

LEMMA AloneAlways == Spec => []AloneFull
  <1>1. Init => AloneInv
    BY DEF Init, NoRun, AloneInv, Alone, OwnFile, OwnBinary, OwnRescue, Working,
           Works
  <1>2. AloneFull /\ [Next]_vars => AloneFull'
    BY StepTyped, AloneStep DEF AloneFull
  <1> QED
    BY <1>1, <1>2, InitTyped, PTL DEF Spec, AloneFull

(* The panel that an update restarts is one that works: whatever fails on  *)
(* the way, if there was no second update at work and nobody else stopped  *)
(* it.                                                                     *)
THEOREM RestartsWholeAlways == Spec => []RestartsWhole
  <1>1. Init => RestartsWhole
    BY DEF Init, RestartsWhole
  <1>2. AloneFull /\ RestartsWhole /\ [Next]_vars => RestartsWhole'
    <2> SUFFICES ASSUME AloneFull, RestartsWhole, [Next]_vars, running' = "dead",
                        ~past'.overlap, ~past'.cut
                 PROVE  FALSE
      BY DEF RestartsWhole
    <2>1. ~past.overlap /\ ~past.cut
      BY PastStays DEF AloneFull
    <2>2. running # "dead"
      BY <2>1 DEF RestartsWhole
    <2>3. \A power \in BOOLEAN : ~Cut(power)
      BY DEF Cut, AloneFull, Typed, RestType
    <2>4. PICK p \in Starts : Restart(p)
      BY <2>2, <2>3, RunningStays DEF AloneFull
    <2>5. bin.what = "new"
      BY <2>1, <2>4 DEF Restart, AloneFull, AloneInv, OwnBinary
    <2> QED
      BY <2>4, <2>5 DEF Restart, StartAgain, Whole
  <1> QED
    BY <1>1, <1>2, AloneAlways, PTL DEF Spec

(* Only three steps make the binary another one.                           *)
LEMMA BinaryStays ==
  ASSUME Typed, [Next]_vars, bin'.what # bin.what
  PROVE  \E p \in Starts : Unlink(p) \/ (Open(p) /\ tmp # 0) \/ Copy(p)
  <1> USE DEF Typed
  <1>1. CASE StartAgain
    BY <1>1, BinType DEF StartAgain
  <1>2. ASSUME NEW p \in Starts, CopyFails(p) PROVE bin'.what = bin.what
    BY <1>2 DEF CopyFails, RestType
  <1>3. ASSUME NEW p \in Starts, Starting(p) \/ \E by \in By : Ask(p, by)
        PROVE  bin' = bin
    BY <1>3, StartMoves DEF files
  <1>4. CASE UNCHANGED vars \/ Poll \/ Me \/ ShellRenders
    BY <1>4 DEF vars, Poll, Me, ShellRenders, files
  <1>5. ASSUME NEW p \in Starts, Work(p)
        PROVE  \/ bin' = bin \/ CopyFails(p) \/ StartAgain
               \/ Unlink(p) \/ (Open(p) /\ tmp # 0) \/ Copy(p)
    BY <1>5 DEF Work, Begin, Create, FetchFails, Write, WriteFails, elfArchMatches,
                NoMatch, Rescue, Space, Open, Finish, Restart, files
  <1> QED
    BY <1>1, <1>2, <1>3, <1>4, <1>5 DEF Next, Cut

(* The binary that works is not taken away before there is a copy of it,   *)
(* if making the copy did not fail and the update is the only one at work. *)
THEOREM RescueFirstAlways == Spec => RescueFirst
  <1>1. AloneFull /\ [Next]_vars =>
          (bin.what \in Whole /\ bin'.what \notin Whole /\ ~past.norescue
           /\ ~past.overlap => prev \in Whole)
    <2> SUFFICES ASSUME AloneFull, [Next]_vars, bin.what \in Whole,
                        bin'.what \notin Whole, ~past.norescue, ~past.overlap
                 PROVE  prev \in Whole
      OBVIOUS
    <2>1. PICK p \in Starts : Unlink(p) \/ (Open(p) /\ tmp # 0) \/ Copy(p)
      BY BinaryStays DEF AloneFull
    <2>2. OwnBinary(p) /\ OwnRescue(p)
      BY DEF AloneFull, AloneInv
    <2>3. CASE Unlink(p)
      BY <2>2, <2>3 DEF Unlink, OwnRescue
    <2>4. CASE Open(p) \/ Copy(p)
      BY <2>2, <2>4 DEF Open, Copy, OwnBinary, Whole
    <2> QED
      BY <2>1, <2>3, <2>4
  <1> QED
    BY <1>1, AloneAlways, PTL DEF Spec, RescueFirst

(* A server is told of a success only where the binary is the new one.     *)
LEMMA OnlyFinishSucceeds ==
  ASSUME Typed, [Next]_vars, NEW q \in Starts, told[q] = "nothing", told'[q] = "ok"
  PROVE  \E p \in Starts : Finish(p) /\ bin.what # "none"
  <1> USE DEF Typed
  <1>1. ASSUME reportSelfUpdateOutcome("failed") PROVE FALSE
    BY <1>1, TypedIsTypeOK, ReportType
  <1>2. CASE told' = told
    BY <1>2
  <1>3. ASSUME NEW p \in Starts, Starting(p) \/ \E by \in By : Ask(p, by)
        PROVE  FALSE
    BY <1>1, <1>2, <1>3 DEF Starting, Look, StartSelfUpdate, Recheck, Spawn,
                            refuseStart, Ask, core
  <1>4. ASSUME NEW p \in Starts, Work(p)
        PROVE  Finish(p) /\ bin.what # "none"
    BY <1>1, <1>2, <1>4 DEF Work, Begin, rest, Create, FetchFails, failUpdate, Write,
         WriteFails, failAndRemove, elfArchMatches, NoMatch, Rescue, Space, Unlink,
         Open, Copy, CopyFails, Finish, Restart, StartAgain
  <1> QED
    BY <1>2, <1>3, <1>4 DEF Next, vars, core, Cut, StartAgain, Poll, Me, ShellRenders

(* A NetPulse server that is told of a success can rely on the new binary  *)
(* being there, if its trigger was not one of two at work.                 *)
THEOREM ToldTheTruthAlways == Spec => ToldTheTruth
  <1>1. AloneFull /\ [Next]_vars =>
          \A p \in Starts : told[p] = "nothing" /\ told'[p] = "ok" /\ ~past.overlap
                             => bin.what = "new"
    <2> SUFFICES ASSUME AloneFull, [Next]_vars, NEW q \in Starts,
                        told[q] = "nothing", told'[q] = "ok", ~past.overlap
                 PROVE  bin.what = "new"
      OBVIOUS
    <2>1. PICK p \in Starts : Finish(p) /\ bin.what # "none"
      BY OnlyFinishSucceeds DEF AloneFull
    <2>2. OwnBinary(p)
      BY DEF AloneFull, AloneInv
    <2> QED
      BY <2>1, <2>2 DEF Finish, OwnBinary
  <1> QED
    BY <1>1, AloneAlways, PTL DEF Spec, ToldTheTruth
-----------------------------------------------------------------------------
Late == {"open", "copy", "finish", "restart"}

(* The old binary is gone for good once it is taken away.                  *)
LEMMA OldGoneStep ==
  ASSUME Typed, Typed', OldGone, [Next]_vars
  PROVE  OldGone'
  <1> USE DEF Typed
  <1>0. TypeOK /\ Works \union {"failed"} \subseteq At
    BY TypedIsTypeOK DEF At, Idle
  <1>1. bin.what # "old" => bin'.what # "old"
    <2> SUFFICES ASSUME bin'.what # bin.what
                 PROVE  bin'.what # "old"
      OBVIOUS
    <2>1. PICK p \in Starts : Unlink(p) \/ (Open(p) /\ tmp # 0) \/ Copy(p)
      BY BinaryStays
    <2>2. CASE Copy(p)
      <3>1. PICK what \in {"part", "new"} :
              bin' = IF bin.by = p THEN [what |-> what, by |-> 0] ELSE bin
        BY <2>2 DEF Copy
      <3> QED
        BY <3>1
    <2> QED
      BY <2>1, <2>2 DEF Unlink, Open
  <1>2. ASSUME NEW p \in Starts, run'[p].at \in Late, run[p].at \notin Late
        PROVE  Unlink(p)
    <2>1. CASE UNCHANGED run
      BY <1>2, <2>1
    <2>2. ~StartAgain
      BY <1>2, AgainType DEF Late, Works
    <2>3. ASSUME NEW q \in Starts, Starting(q) \/ \E by \in By : Ask(q, by)
          PROVE  FALSE
      BY <1>2, <2>3, StartMoves DEF Late, Steps
    <2>4. ASSUME NEW q \in Starts, Work(q), ~Restart(q), q # p
          PROVE  FALSE
      BY <1>2, <2>4, WorkMoves
    <2>5. ASSUME Work(p), ~Restart(p)
          PROVE  Unlink(p)
      <3>1. ASSUME NEW at \in Works \union {"failed"}, Go(p, at) PROVE at \in Late
        BY <1>0, <1>2, <3>1, GoType
      <3>2. run[p].at \in Works \ Late
        BY <1>2, <2>5, WorkMoves
      <3>3. ~Create(p)
        <4> SUFFICES ASSUME Create(p) PROVE FALSE
          OBVIOUS
        <4> DEFINE ino == IF tmp = 0 THEN p ELSE tmp
        <4>1. run'[p] = [run[p] EXCEPT !.at = "write", !.ino = ino]
          BY DEF Create
        <4>2. run'[p].at = "write"
          BY <4>1 DEF RunType, RunRecord
        <4> QED
          BY <1>2, <4>2 DEF Late
      <3> QED
        BY <2>5, <3>1, <3>2, <3>3
        DEF Work, Begin, FetchFails, failUpdate, Write, WriteFails, failAndRemove,
            elfArchMatches, NoMatch, Rescue, Space, Unlink, Open, Copy, CopyFails,
            Finish, Works, Late
    <2> QED
      BY <2>1, <2>2, <2>3, <2>4, <2>5 DEF Next, vars, Cut, Restart, Poll, Me,
                                          ShellRenders
  <1>3. ASSUME NEW p \in Starts, run'[p].at \in Late PROVE bin'.what # "old"
    <2>1. CASE run[p].at \in Late
      BY <1>1, <2>1 DEF OldGone, Late
    <2>2. CASE run[p].at \notin Late
      BY <1>2, <1>3, <2>2 DEF Unlink
    <2> QED
      BY <2>1, <2>2
  <1> QED
    BY <1>3 DEF OldGone, Late

LEMMA IdleStep ==
  ASSUME Typed, Typed', OldGone, IdleIsNew, [Next]_vars
  PROVE  IdleIsNew'
  <1> USE DEF Typed
  <1> SUFFICES ASSUME ~past'.cut, running' = "old", phase' = "idle"
               PROVE  NotBegun'
    BY DEF IdleIsNew
  <1>1. ~past.cut
    BY PastStays
  <1>2. \A power \in BOOLEAN : ~Cut(power)
    BY DEF Cut, RestType
  <1>3. ASSUME NEW p \in Starts, Restart(p) PROVE FALSE
    BY <1>3 DEF Restart, StartAgain, OldGone, Whole
  <1>4. running = "old"
    BY <1>2, <1>3, RunningStays
  <1>5. ASSUME phase = "idle" PROVE NotBegun
    BY <1>1, <1>4, <1>5 DEF IdleIsNew
  <1>6. ASSUME NEW p \in Starts, Work(p) PROVE FALSE
    <2>1. CASE phase = "idle"
      <3>1. run[p].at = "spawned"
        BY <1>3, <1>5, <1>6, <2>1, WorkMoves DEF NotBegun, Works, Steps
      <3>2. Begin(p)
        BY <1>6, <3>1 DEF Work, Create, FetchFails, Write, WriteFails, elfArchMatches,
             NoMatch, Rescue, Space, Unlink, Open, Copy, CopyFails, Finish, Restart
      <3> QED
        BY <3>2 DEF Begin
    <2>2. CASE phase # "idle"
      BY <1>3, <1>6, <2>2 DEF Work, Begin, Create, FetchFails, failUpdate, Write,
           WriteFails, failAndRemove, elfArchMatches, NoMatch, Rescue, Space, Unlink,
           Open, Copy, CopyFails, Finish
    <2> QED
      BY <2>1, <2>2
  <1>7. ASSUME NEW p \in Starts, Starting(p) \/ \E by \in By : Ask(p, by)
        PROVE  NotBegun'
    <2>1. phase' = phase
      BY <1>7 DEF Starting, Look, StartSelfUpdate, Recheck, Spawn, Ask, core
    <2>2. NotBegun
      BY <1>5, <2>1
    <2>3. /\ run[p].at # "spawned"
          /\ run'[p].at \in Steps \union {"refused", "spawned"}
          /\ \A q \in Starts : q # p => run'[q] = run[q]
      BY <1>7, StartMoves DEF Steps
    <2>4. \/ dialog' \in {dialog, "failed", "asking"}
          \/ Spawn(p)
      BY <1>7 DEF Starting, Look, StartSelfUpdate, Recheck, refuseStart, refuse, Ask
    <2>5. CASE Spawn(p)
      <3>1. run'[p].at = "spawned" /\ dialog' \in {dialog, "watch"}
        BY <2>5, TypedIsTypeOK, GoType DEF Spawn, At, Works
      <3> QED
        BY <2>2, <2>3, <3>1 DEF NotBegun
    <2>6. CASE dialog' \in {dialog, "failed", "asking"}
      BY <2>2, <2>3, <2>6 DEF NotBegun
    <2> QED
      BY <2>4, <2>5, <2>6
  <1>8. CASE Poll \/ Me \/ ShellRenders
    BY <1>5, <1>8 DEF Poll, Me, ShellRenders, core, NotBegun
  <1>9. CASE UNCHANGED vars
    BY <1>5, <1>9 DEF vars, core, NotBegun
  <1> QED
    BY <1>2, <1>6, <1>7, <1>8, <1>9 DEF Next

DialogFull == Typed /\ DialogInv

(* The dialog says that the update is done only when the new version runs, *)
(* however many updates there are, unless somebody else restarted the      *)
(* panel.                                                                  *)
THEOREM DoneIsNewAlways == Spec => DoneIsNew
  <1>1. Init => DialogInv
    BY DEF Init, NoRun, DialogInv, OldGone, IdleIsNew, NotBegun
  <1>2. DialogFull /\ [Next]_vars => DialogFull'
    BY StepTyped, OldGoneStep, IdleStep DEF DialogFull, DialogInv
  <1>3. DialogFull /\ [Next]_vars =>
          (dialog = "watch" /\ dialog' = "done" => running = "new" \/ past.cut)
    <2> SUFFICES ASSUME DialogFull, [Next]_vars, dialog = "watch", dialog' = "done",
                        ~past.cut
                 PROVE  running = "new"
      OBVIOUS
    <2>1. Poll
      BY DEF Next, vars, Ask, Starting, Look, StartSelfUpdate, Recheck, refuseStart,
         refuse, Spawn, Work, Begin, rest, Create, FetchFails, failUpdate, Write,
         WriteFails, failAndRemove, elfArchMatches, NoMatch, Rescue, Space, Unlink,
         Open, Copy, CopyFails, Finish, Restart, StartAgain, Cut, Me, ShellRenders
    <2>2. phase = "idle" /\ running # "dead"
      BY <2>1 DEF Poll, DialogFull, Typed, RestType
    <2>3. \A p \in Starts : run[p].at # "spawned"
      BY <2>1 DEF Poll
    <2> QED
      BY <2>2, <2>3 DEF DialogFull, DialogInv, IdleIsNew, NotBegun, Typed, RestType,
                        Whole
  <1> QED
    BY <1>1, <1>2, <1>3, InitTyped, PTL DEF Spec, DialogFull, DoneIsNew
=============================================================================
