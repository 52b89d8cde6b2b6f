--------------------------- MODULE ConfigTxProofs ---------------------------
(***************************************************************************)
(* What ConfigTx promises for any number of workers, packages, services,   *)
(* handlers and faults: its type, that the rollback of a handler that      *)
(* guards the packages it touches is exact when no other was at work on    *)
(* them at the same time, and that an acknowledged change is lost only     *)
(* when one that was at work on them at the same time rolled back.         *)
(***************************************************************************)
EXTENDS WriteDiscipline, TLAPS

IsTarget(o) ==
  IF o.op \in {"edit", "commit", "restore"} THEN o.on \in Pkgs
                                            ELSE o.on \in Svcs

(* The list a worker is at is a sequence of operations, and an operation   *)
(* acts on what its kind acts on.                                          *)
LEMMA TodoType ==
  ASSUME TypeOK, NEW w \in Workers
  PROVE  /\ Todo(w) \in Seq(Op)
         /\ \A i \in DOMAIN Todo(w) : Todo(w)[i] \in Op /\ IsTarget(Todo(w)[i])
  <1>1. plan[w] \in PlanIds
    BY DEF TypeOK
  <1>2. Todo(w) \in {Plan[plan[w]].steps, Plan[plan[w]].undo,
                     Plan[plan[w]].unprobe}
    BY DEF Todo
  <1>3. Todo(w) \in Seq(Op)
    BY <1>1, <1>2, PlanAssumption
  <1>4. \A i \in DOMAIN Todo(w) : Todo(w)[i] \in Op
    BY <1>3
  <1>5. \A i \in DOMAIN Todo(w) : IsTarget(Todo(w)[i])
    BY <1>1, <1>2, TargetAssumption DEF IsTarget
  <1> QED
    BY <1>3, <1>4, <1>5

LEMMA CurType ==
  ASSUME TypeOK, NEW w \in Workers, Running(w)
  PROVE  Cur(w) \in Op /\ IsTarget(Cur(w)) /\ at[w] \in Nat
  BY TodoType DEF Running, Cur, TypeOK

SysType ==
  /\ committed \in [Pkgs -> Content]
  /\ staged \in [Pkgs -> Content]
  /\ en \in SUBSET Svcs
  /\ up \in SUBSET Svcs
  /\ loaded \in [Svcs -> Content]

(* A service action keeps the types of what it changes.                    *)
LEMMA ActType ==
  ASSUME TypeOK, NEW s \in Svcs, NEW a, Act(s, a)
  PROVE  SysType'
  <1>1. committed' = committed /\ staged' = staged
    BY DEF Act
  <1>2. en' \in SUBSET Svcs
    BY DEF Act, TypeOK
  <1>3. Drives[s] \in SUBSET Svcs
    BY ShapeAssumption
  <1>4. up' \in SUBSET Svcs
    BY <1>3 DEF Act, TypeOK
  <1>5. \A S : Load(S) => loaded' \in [Svcs -> Content]
    BY ShapeAssumption DEF Load, TypeOK
  <1>6. Load(Drives[s]) \/ Load(Drives[s] \cap up) \/ loaded' = loaded
    BY DEF Act
  <1>7. loaded' \in [Svcs -> Content]
    BY <1>5, <1>6 DEF TypeOK
  <1> QED
    BY <1>1, <1>2, <1>4, <1>7 DEF SysType, TypeOK

LEMMA EffectType ==
  ASSUME TypeOK, NEW w \in Workers, Running(w), Effect(w)
  PROVE  SysType'
  <1> DEFINE o == Cur(w)
  <1>1. o \in Op /\ IsTarget(o) /\ at[w] \in Nat
    BY CurType
  <1>2. CASE Edit(w)
    <2>1. <<w, at[w]>> \in Mark
      BY <1>1 DEF Mark
    <2>2. o.on \in Pkgs
      BY <1>1, <1>2 DEF Edit, IsTarget
    <2> QED
      BY <1>2, <2>1, <2>2 DEF Edit, SysType, TypeOK, Content
  <1>3. CASE Commit(w)
    <2>1. o.on \in Pkgs
      BY <1>1, <1>3 DEF Commit, IsTarget
    <2> QED
      BY <1>3, <2>1 DEF Commit, SysType, TypeOK, Content, Visible
  <1>4. CASE Restore(w)
    <2>1. o.on \in Pkgs
      BY <1>1, <1>4 DEF Restore, IsTarget
    <2>2. snap[w][o.on] \in Content
      BY <2>1 DEF TypeOK
    <2> QED
      BY <1>4, <2>1, <2>2 DEF Restore, SysType, TypeOK, Content
  <1>5. CASE Service(w)
    <2>1. o.on \in Svcs
      BY <1>1, <1>5 DEF Service, IsTarget
    <2>2. CASE UNCHANGED sys
      BY <2>2 DEF sys, SysType, TypeOK
    <2>3. CASE \E a : Act(o.on, a)
      BY <2>1, <2>3, ActType
    <2> QED
      BY <1>5, <2>2, <2>3 DEF Service, ActIf
  <1>6. CASE Package(w)
    BY <1>6 DEF Package, sys, SysType, TypeOK
  <1> QED
    BY <1>2, <1>3, <1>4, <1>5, <1>6 DEF Effect
-----------------------------------------------------------------------------
(* Only the beginning of a handler makes it meet others, those at work,    *)
(* and no step makes it forget one.                                        *)
LEMMA MetGrows ==
  ASSUME TypeOK, NEW v \in Workers, Begin(v) \/ Step(v) \/ Fault(v)
  PROVE  /\ met' \in [Workers -> SUBSET Workers]
         /\ \A w \in Workers : met[w] \subseteq met'[w]
         /\ Begin(v) \/ met' = met
         /\ Begin(v) =>
              /\ met'[v] = met[v] \cup Near(v)
              /\ \A w \in Workers \ {v} :
                   met'[w] = IF w \in Near(v) THEN met[w] \cup {v} ELSE met[w]
  <1>1. met \in [Workers -> SUBSET Workers] /\ Near(v) \subseteq Workers
    BY DEF TypeOK, Near
  <1>2. CASE Begin(v)
    <2>1. met' = [w \in Workers |-> IF w = v THEN met[v] \cup Near(v)
                                   ELSE IF w \in Near(v) THEN met[w] \cup {v}
                                                         ELSE met[w]]
      BY <1>2 DEF Begin
    <2> QED
      BY <1>1, <1>2, <2>1
  <1>3. CASE Step(v) \/ Fault(v)
    <2>1. met' = met
      BY <1>3 DEF Step, Fault, Snapshot, Prepare, OpOk, Applied, Healthy,
                  Undone, SnapshotFails, OpFails, Unhealthy
    <2>2. ~Begin(v)
      BY <1>3 DEF Begin, Step, Fault, Snapshot, Prepare, OpOk, Applied, Healthy,
                  Undone, SnapshotFails, OpFails, Unhealthy, Running, Undoing
    <2> QED
      BY <1>1, <2>1, <2>2
  <1> QED
    BY <1>2, <1>3

(* Every step of a handler keeps the types.                                *)
LEMMA StepType ==
  ASSUME TypeOK, NEW w \in Workers, Begin(w) \/ Step(w) \/ Fault(w)
  PROVE  TypeOK'
  <1>1. MaxFaults \in Nat
    BY ShapeAssumption
  <1>2. Plan[plan[w]].snaps \in Seq(SnapReq)
    BY PlanAssumption DEF TypeOK
  <1>3. \A p \in Pkgs : Visible(p) \in Content
    BY DEF TypeOK, Visible, Content
  <1>4. UNCHANGED sys => SysType'
    BY DEF sys, SysType, TypeOK
  <1>5. CASE Begin(w)
    <2>1. [p \in Pkgs |-> Visible(p)] \in [Pkgs -> Content]
      BY <1>3
    <2>2. before' \in [Workers -> [Pkgs -> Content]]
      BY <1>5, <2>1, SMTT(60) DEF Begin, TypeOK
    <2>3. met' \in [Workers -> SUBSET Workers]
      BY <1>5, MetGrows
    <2> QED
      BY <1>4, <1>5, <2>2, <2>3 DEF Begin, TypeOK, SysType, Phases, Busy
  <1>6. CASE Snapshot(w)
    <2> DEFINE p == Plan[plan[w]].snaps[at[w]].pkg
    <2>1. p \in Pkgs
      <3>1. \A i \in DOMAIN Plan[plan[w]].snaps :
              Plan[plan[w]].snaps[i] \in SnapReq
        BY <1>2
      <3>2. at[w] \in DOMAIN Plan[plan[w]].snaps
        BY <1>6 DEF Snapshot
      <3> QED
        BY <3>1, <3>2 DEF SnapReq
    <2>2. snap' \in [Workers -> [Pkgs -> Content]]
      BY <1>3, <1>6, <2>1 DEF Snapshot, TypeOK
    <2>3. has' \in [Workers -> SUBSET Pkgs]
      BY <1>6, <2>1 DEF Snapshot, TypeOK
    <2> QED
      BY <1>4, <1>6, <2>2, <2>3 DEF Snapshot, TypeOK, SysType
  <1>7. CASE Prepare(w)
    BY <1>4, <1>7 DEF Prepare, TypeOK, SysType, Phases, Busy
  <1>8. CASE OpOk(w)
    <2>1. SysType'
      BY <1>8, EffectType DEF OpOk
    <2> QED
      BY <1>8, <2>1 DEF OpOk, TypeOK, SysType
  <1>9. CASE OpFails(w)
    <2>1. SysType'
      BY <1>4, <1>9, EffectType DEF OpFails
    <2>2. faults' \in 0..MaxFaults
      BY <1>1, <1>9 DEF OpFails, TypeOK
    <2>3. pc' \in [Workers -> Phases] /\ at' \in [Workers -> Nat \ {0}]
      <3>1. pc \in [Workers -> Phases] /\ "undo" \in Phases
        BY DEF TypeOK, Phases, Busy
      <3>2. at \in [Workers -> Nat \ {0}] /\ at[w] + 1 \in Nat \ {0}
        BY DEF TypeOK
      <3>3. CASE pc[w] = "run" /\ Cur(w).must
        BY <1>9, <3>1, <3>2, <3>3 DEF OpFails
      <3>4. CASE ~(pc[w] = "run" /\ Cur(w).must)
        BY <1>9, <3>1, <3>2, <3>4 DEF OpFails
      <3> QED
        BY <3>3, <3>4
    <2>4. clean' \in [Workers -> BOOLEAN]
      <3>1. (clean[w] /\ pc[w] = "run") \in BOOLEAN
        OBVIOUS
      <3> QED
        BY <1>9, <3>1, Zenon DEF OpFails, TypeOK
    <2> QED
      BY <1>9, <2>1, <2>2, <2>3, <2>4 DEF OpFails, TypeOK, SysType
  <1>10. CASE Applied(w) \/ Healthy(w) \/ Undone(w)
    BY <1>4, <1>10 DEF Applied, Healthy, Undone, TypeOK, SysType, Phases, Busy
  <1>11. CASE SnapshotFails(w)
    <2>1. faults' \in 0..MaxFaults
      BY <1>1, <1>11 DEF SnapshotFails, TypeOK
    <2>2. pc' \in [Workers -> Phases] /\ at' \in [Workers -> Nat \ {0}]
      <3>1. \/ pc' = [pc EXCEPT ![w] = "refused"] /\ at' = at
            \/ at' = [at EXCEPT ![w] = @ + 1] /\ pc' = pc
        BY <1>11, Zenon DEF SnapshotFails
      <3>2. "refused" \in Phases
        BY DEF Phases
      <3>3. pc' \in [Workers -> Phases]
        BY <3>1, <3>2 DEF TypeOK
      <3>4. at' \in [Workers -> Nat \ {0}]
        <4>1. at[w] + 1 \in Nat \ {0} /\ at \in [Workers -> Nat \ {0}]
          BY DEF TypeOK
        <4>2. at' = at \/ at' = [at EXCEPT ![w] = at[w] + 1]
          BY <3>1
        <4> QED
          BY <4>1, <4>2
      <3> QED
        BY <3>3, <3>4
    <2> QED
      BY <1>4, <1>11, <2>1, <2>2 DEF SnapshotFails, TypeOK, SysType
  <1>12. CASE Unhealthy(w)
    BY <1>1, <1>4, <1>12 DEF Unhealthy, TypeOK, SysType, Phases, Busy
  <1> QED
    BY <1>5, <1>6, <1>7, <1>8, <1>9, <1>10, <1>11, <1>12 DEF Step, Fault

LEMMA InitType == Init => TypeOK
  BY ShapeAssumption DEF Init, TypeOK, Content, Phases

(* In every behaviour the variables keep their types, whatever handlers    *)
(* run and whatever fails.                                                 *)
THEOREM TypeCorrect == Spec => []TypeOK
  <1>1. TypeOK /\ [Next]_vars => TypeOK'
    <2> SUFFICES ASSUME TypeOK, [Next]_vars PROVE TypeOK'
      OBVIOUS
    <2>1. CASE Next
      BY <2>1, StepType DEF Next
    <2>2. CASE UNCHANGED vars
      BY <2>2 DEF vars, TypeOK
    <2> QED
      BY <2>1, <2>2
  <1> QED
    BY InitType, <1>1, PTL DEF Spec
-----------------------------------------------------------------------------
(***************************************************************************)
(* The rollback is exact.  The invariant follows a handler through its     *)
(* phases: nothing has happened yet (Fresh); nobody has touched its        *)
(* packages since it began (Exporting); it holds exports of its own        *)
(* packages (Held), and those whose error ends it are there as far as it   *)
(* has come, all of them once it runs (Obtained); every export it holds is *)
(* of what the package held when it began (Kept); a rollback no command of *)
(* which failed has put back the packages it has come past and holds an    *)
(* export of (Restored).  Only the last needs the plan to be of a certain  *)
(* form; Exporting, Kept and Restored are of a handler that met no other.  *)
(* Two handlers at work on a common package have met (Met).                *)
(***************************************************************************)
Fresh(w) == pc[w] = "idle" => at[w] = 1 /\ has[w] = {} /\ Alone(w)

Held(w) == has[w] \subseteq Footprint(plan[w])

Exporting(w) ==
  pc[w] = "snap" /\ Alone(w) =>
    \A p \in Footprint(plan[w]) : Visible(p) = before[w][p]

Obtained(w) ==
  pc[w] \in Busy =>
    \A i \in DOMAIN Plan[plan[w]].snaps :
      (pc[w] = "snap" => i < at[w]) /\ Plan[plan[w]].snaps[i].must
        => Plan[plan[w]].snaps[i].pkg \in has[w]

Kept(w) == pc[w] \in Busy /\ Alone(w) =>
  \A p \in has[w] : snap[w][p] = before[w][p]

IsBack(w, i) ==
  Todo(w)[i].op = "restore" /\ Todo(w)[i].on \in has[w] =>
    LET p == Todo(w)[i].on
    IN committed[p] = before[w][p] /\ staged[p] = {}

Restored(w) ==
  PutsBack(plan[w]) /\ pc[w] \in Undoing /\ clean[w] /\ Alone(w) =>
    \A i \in DOMAIN Todo(w) : i < at[w] => IsBack(w, i)

Follows(w) ==
  /\ Fresh(w) /\ Held(w) /\ Exporting(w) /\ Obtained(w) /\ Kept(w)
  /\ Restored(w)

Share(v, w) ==
  /\ v # w /\ pc[v] \in Busy /\ pc[w] \in Busy
  /\ Footprint(plan[v]) \cap Footprint(plan[w]) # {}
Met ==
  \A w \in Workers : w \notin met[w] /\ \A v \in Workers : Share(v, w) => v \in met[w]

RollbackInv == TypeOK /\ Met /\ \A w \in Workers : Follows(w)

(* A command touches no package outside the footprint of its handler.      *)
LEMMA CurInFootprint ==
  ASSUME TypeOK, NEW w \in Workers, Running(w),
         Cur(w).op \in {"edit", "commit", "restore"}
  PROVE  Cur(w).on \in Footprint(plan[w])
  <1>1. Cur(w).on \in Touched(Todo(w))
    BY DEF Touched, Cur, Running
  <1>2. Touched(Todo(w)) \subseteq Footprint(plan[w])
    BY DEF Footprint, Todo
  <1> QED
    BY <1>1, <1>2

LEMMA EffectFrame ==
  ASSUME TypeOK, NEW w \in Workers, Running(w), Effect(w),
         NEW p \in Pkgs, p \notin Footprint(plan[w])
  PROVE  committed'[p] = committed[p] /\ staged'[p] = staged[p]
  <1>1. CASE Edit(w) \/ Commit(w) \/ Restore(w)
    <2>1. Cur(w).on # p
      BY <1>1, CurInFootprint DEF Edit, Commit, Restore
    <2> QED
      BY <1>1, <2>1 DEF Edit, Commit, Restore, TypeOK
  <1>2. CASE Service(w) \/ Package(w)
    BY <1>2 DEF Service, ActIf, Act, Package, sys
  <1> QED
    BY <1>1, <1>2 DEF Effect

LEMMA FootprintType ==
  ASSUME NEW id \in PlanIds
  PROVE  Footprint(id) \subseteq Pkgs
  <1>1. \A s \in {Plan[id].steps, Plan[id].undo, Plan[id].unprobe} :
          Touched(s) \subseteq Pkgs
    BY TargetAssumption DEF Touched
  <1>2. \A i \in DOMAIN Plan[id].snaps : Plan[id].snaps[i] \in SnapReq
    BY PlanAssumption
  <1>3. {Plan[id].snaps[i].pkg : i \in DOMAIN Plan[id].snaps} \subseteq Pkgs
    BY <1>2, SMTT(60) DEF SnapReq
  <1> QED
    BY <1>1, <1>3 DEF Footprint

(* A step of v leaves what belongs to w, and if the two have not met the   *)
(* packages of w too while w is at work.                                   *)
LEMMA OthersKeep ==
  ASSUME TypeOK, NEW v \in Workers, NEW w \in Workers, v # w,
         Begin(v) \/ Step(v) \/ Fault(v)
  PROVE  /\ pc'[w] = pc[w] /\ plan' = plan /\ at'[w] = at[w]
         /\ snap'[w] = snap[w] /\ has'[w] = has[w]
         /\ before'[w] = before[w] /\ clean'[w] = clean[w]
  BY DEF TypeOK, Step, Fault, Begin, Snapshot, Prepare, OpOk, Applied,
         Healthy, Undone, SnapshotFails, OpFails, Unhealthy

LEMMA OthersStayOut ==
  ASSUME TypeOK, Met, NEW v \in Workers, NEW w \in Workers, v # w,
         Begin(v) \/ Step(v) \/ Fault(v), v \notin met[w], pc[w] \in Busy,
         NEW p \in Footprint(plan[w])
  PROVE  committed'[p] = committed[p] /\ staged'[p] = staged[p]
  <1>1. plan[w] \in PlanIds
    BY DEF TypeOK
  <1>2. p \in Pkgs
    BY <1>1, FootprintType
  <1>3. CASE UNCHANGED sys
    BY <1>3 DEF sys
  <1>4. CASE Running(v) /\ Effect(v)
    <2>1. pc[v] \in Busy
      BY <1>4 DEF Running, Busy, Undoing
    <2>2. Footprint(plan[v]) \cap Footprint(plan[w]) = {}
      BY <2>1 DEF Met, Share
    <2> QED
      BY <1>2, <1>4, <2>2, EffectFrame
  <1>5. UNCHANGED sys \/ (Running(v) /\ Effect(v))
    BY DEF Step, Fault, Begin, Snapshot, Prepare, Applied, OpOk, OpFails,
           Healthy, Undone, SnapshotFails, Unhealthy
  <1> QED
    BY <1>3, <1>4, <1>5

(* Those that come to share a package have met.                            *)
LEMMA MetKept ==
  ASSUME RollbackInv, NEW v \in Workers, Begin(v) \/ Step(v) \/ Fault(v)
  PROVE  Met'
  <1>1. TypeOK /\ Met /\ plan' = plan
    BY DEF RollbackInv, Step, Fault, Begin, Snapshot, Prepare, OpOk, Applied,
           Healthy, Undone, SnapshotFails, OpFails, Unhealthy
  <1>2. \A w \in Workers : pc'[w] \in Busy => pc[w] \in Busy \/ (w = v /\ Begin(v))
    <2>1. \A w \in Workers \ {v} : pc'[w] = pc[w]
      BY <1>1, OthersKeep
    <2>2. Step(v) \/ Fault(v) => pc[v] \in Busy
      BY DEF Step, Fault, Snapshot, Prepare, OpOk, Applied, Healthy, Undone,
             SnapshotFails, OpFails, Unhealthy, Busy, Undoing, Running
    <2> QED
      BY <2>1, <2>2
  <1>3. CASE Begin(v)
    <2>1. pc[v] = "idle" /\ v \notin Near(v)
      BY <1>3 DEF Begin, Near, Busy
    <2>4. /\ met'[v] = met[v] \cup Near(v)
          /\ \A w \in Workers \ {v} :
               met'[w] = IF w \in Near(v) THEN met[w] \cup {v} ELSE met[w]
      BY <1>1, <1>3, MetGrows
    <2>2. ASSUME NEW w \in Workers PROVE w \notin met'[w]
      <3>1. CASE w = v
        BY <1>1, <2>1, <2>4, <3>1 DEF Met
      <3>2. CASE w # v
        BY <1>1, <2>4, <3>2 DEF Met
      <3> QED
        BY <3>1, <3>2
    <2>3. ASSUME NEW u \in Workers, NEW w \in Workers, Share(u, w)'
          PROVE  u \in met'[w]
      <3>1. /\ u # w /\ pc'[u] \in Busy /\ pc'[w] \in Busy
            /\ Footprint(plan[u]) \cap Footprint(plan[w]) # {}
        BY <1>1, <2>3 DEF Share
      <3>2. CASE u # v /\ w # v
        <4>1. Share(u, w)
          BY <1>2, <3>1, <3>2 DEF Share
        <4> QED
          BY <1>1, <4>1, MetGrows DEF Met
      <3>3. CASE w = v
        <4>1. u \in Near(v)
          BY <1>2, <3>1, <3>3 DEF Near
        <4> QED
          BY <2>4, <3>3, <4>1
      <3>4. CASE u = v
        <4>1. w \in Near(v)
          BY <1>2, <3>1, <3>4 DEF Near
        <4> QED
          BY <2>4, <3>1, <3>4, <4>1
      <3> QED
        BY <3>2, <3>3, <3>4
    <2> QED
      BY <2>2, <2>3 DEF Met
  <1>4. CASE ~Begin(v)
    <2>1. met' = met
      BY <1>1, <1>4, MetGrows
    <2>2. \A u, w \in Workers : Share(u, w)' => Share(u, w)
      BY <1>1, <1>2, <1>4 DEF Share
    <2> QED
      BY <1>1, <2>1, <2>2 DEF Met
  <1> QED
    BY <1>3, <1>4

LEMMA OthersFollow ==
  ASSUME RollbackInv, NEW v \in Workers, NEW w \in Workers, v # w,
         Begin(v) \/ Step(v) \/ Fault(v)
  PROVE  Follows(w)'
  <1> USE DEF RollbackInv
  <1>1. /\ pc'[w] = pc[w] /\ plan' = plan /\ at'[w] = at[w]
        /\ snap'[w] = snap[w] /\ has'[w] = has[w]
        /\ before'[w] = before[w] /\ clean'[w] = clean[w]
    BY OthersKeep
  <1>2. Alone(w)' => Alone(w)
    BY MetGrows DEF Alone
  <1>3. pc[w] \in Busy /\ Alone(w) => \A p \in Footprint(plan[w]) :
          committed'[p] = committed[p] /\ staged'[p] = staged[p]
    BY OthersStayOut DEF Alone
  <1>4. Held(w)' /\ Kept(w)' /\ Obtained(w)'
    BY <1>1, <1>2, ZenonT(60) DEF Follows, Held, Kept, Obtained
  <1>5. Fresh(w)'
    <2>1. pc[w] = "idle" => Alone(w)'
      <3>1. w \notin Near(v) \/ pc[w] # "idle"
        BY DEF Near, Busy
      <3> QED
        BY <3>1, MetGrows DEF Follows, Fresh, Alone
    <2> QED
      BY <1>1, <2>1 DEF Follows, Fresh
  <1>6. Exporting(w)'
    BY <1>1, <1>2, <1>3, ZenonT(60) DEF Follows, Exporting, Visible, Busy
  <1>7. Todo(w)' = Todo(w)
    BY <1>1 DEF Todo
  <1>8. Restored(w)'
    <2> SUFFICES ASSUME PutsBack(plan[w]), pc[w] \in Undoing, clean[w], Alone(w),
                        NEW i \in DOMAIN Todo(w), i < at[w],
                        Todo(w)[i].op = "restore", Todo(w)[i].on \in has[w]
                 PROVE  /\ committed'[Todo(w)[i].on] = before[w][Todo(w)[i].on]
                        /\ staged'[Todo(w)[i].on] = {}
      BY <1>1, <1>2, <1>7 DEF Restored, IsBack
    <2> DEFINE p == Todo(w)[i].on
    <2>1. committed[p] = before[w][p] /\ staged[p] = {}
      BY DEF Follows, Restored, IsBack
    <2>2. p \in Footprint(plan[w])
      BY ZenonT(60) DEF Footprint, Touched, Todo
    <2> QED
      BY <1>3, <2>1, <2>2 DEF Busy, Undoing
  <1> QED
    BY <1>4, <1>5, <1>6, <1>8 DEF Follows

(* A command of a rollback puts one package back or touches none, and      *)
(* leaves what is back.                                                    *)
LEMMA UndoEffect ==
  ASSUME TypeOK, NEW w \in Workers, Kept(w), Alone(w), PutsBack(plan[w]),
         pc[w] \in Undoing, Running(w), Effect(w)
  PROVE  /\ \A p \in Pkgs :
              committed[p] = before[w][p] /\ staged[p] = {}
                => committed'[p] = before[w][p] /\ staged'[p] = {}
         /\ Cur(w).op = "restore" /\ Cur(w).on \in has[w] =>
              LET p == Cur(w).on
              IN committed'[p] = before[w][p] /\ staged'[p] = {}
  <1>1. Todo(w) \in Undos(plan[w])
    BY DEF Todo, Undos, Undoing
  <1>2. Cur(w).op \notin {"edit", "commit"}
    BY <1>1 DEF PutsBack, Cur, Running
  <1>3. CASE Restore(w) /\ Cur(w).on \in has[w]
    <2> DEFINE p == Cur(w).on
    <2>2. p \in has[w] /\ snap[w][p] = before[w][p]
      BY <1>3 DEF Kept, Busy, Undoing
    <2>3. p \in Pkgs
      BY <2>2 DEF TypeOK
    <2>4. /\ committed' = [committed EXCEPT ![p] = before[w][p]]
          /\ staged' = [staged EXCEPT ![p] = {}]
      BY <1>3, <2>2 DEF Restore
    <2>5. committed \in [Pkgs -> Content] /\ staged \in [Pkgs -> Content]
      BY DEF TypeOK
    <2> QED
      BY <2>3, <2>4, <2>5
  <1>5. CASE Restore(w) /\ Cur(w).on \notin has[w]
    BY <1>5 DEF Restore
  <1>4. CASE Service(w) \/ Package(w)
    <2>1. committed' = committed /\ staged' = staged
      BY <1>4 DEF Service, ActIf, Act, Package, sys
    <2>2. Cur(w).op # "restore"
      BY <1>4 DEF Service, Package
    <2> QED
      BY <2>1, <2>2
  <1> QED
    BY <1>2, <1>3, <1>4, <1>5 DEF Effect, Edit, Commit

(* What the invariant says of a handler survives the handler's own steps.  *)
LEMMA OwnFollows ==
  ASSUME RollbackInv, NEW w \in Workers, Begin(w) \/ Step(w) \/ Fault(w)
  PROVE  Follows(w)'
  <1> DEFINE snaps == Plan[plan[w]].snaps
  <1>1. TypeOK /\ Follows(w) /\ plan' = plan
    BY DEF RollbackInv, Step, Fault, Begin, Snapshot, Prepare, OpOk, Applied,
           Healthy, Undone, SnapshotFails, OpFails, Unhealthy
  <1>2. /\ Footprint(plan[w]) \subseteq Pkgs /\ at[w] \in Nat \ {0}
        /\ DOMAIN snaps = 1 .. Len(snaps) /\ Len(snaps) \in Nat
        /\ Todo(w) \in Seq(Op)
        /\ pc \in [Workers -> Phases] /\ clean \in [Workers -> BOOLEAN]
    BY <1>1, FootprintType, PlanAssumption, TodoType DEF TypeOK
  <1>11. Step(w) \/ Fault(w) => (Alone(w)' <=> Alone(w))
    BY DEF Alone, Step, Fault, Snapshot, Prepare, OpOk, Applied, Healthy,
           Undone, SnapshotFails, OpFails, Unhealthy
  <1>12. Held(w)'
    <2>1. CASE Snapshot(w)
      <3> DEFINE p == snaps[at[w]].pkg
      <3>1. at[w] \in DOMAIN snaps /\ has'[w] = has[w] \cup {p}
        BY <1>1, <2>1 DEF Snapshot, TypeOK
      <3>2. p \in Footprint(plan[w])
        BY <3>1 DEF Footprint
      <3> QED
        BY <1>1, <3>1, <3>2 DEF Follows, Held
    <2>2. CASE has' = has
      BY <1>1, <2>2 DEF Follows, Held
    <2> QED
      BY <2>1, <2>2 DEF Step, Fault, Begin, Prepare, OpOk, Applied, Healthy,
                        Undone, SnapshotFails, OpFails, Unhealthy
  <1>3. CASE Begin(w)
    <2>1. /\ pc'[w] = "snap" /\ at'[w] = 1 /\ has'[w] = {}
          /\ committed' = committed /\ staged' = staged
      BY <1>1, <1>3 DEF Begin, Follows, Fresh, TypeOK, sys
    <2>2. \A p \in Pkgs : before'[w][p] = Visible(p)
      BY <1>1, <1>3 DEF Begin, TypeOK
    <2>3. \A p \in Footprint(plan[w]) : Visible(p)' = before'[w][p]
      BY <1>2, <2>1, <2>2 DEF Visible
    <2>4. \A i \in DOMAIN snaps : ~(i < 1)
      BY <1>2
    <2>5. Exporting(w)'
      BY <1>1, <2>3, ZenonT(60) DEF Exporting
    <2>6. Obtained(w)'
      <3>1. \A i \in DOMAIN Plan[plan'[w]].snaps : ~(i < at'[w])
        BY <1>1, <2>1, <2>4
      <3> QED
        BY <2>1, <3>1, Zenon DEF Obtained
    <2> QED
      BY <1>12, <2>1, <2>5, <2>6 DEF Follows, Fresh, Kept, Restored, Undoing
  <1>4. CASE Snapshot(w)
    <2> DEFINE p == snaps[at[w]].pkg
    <2>1. /\ pc[w] = "snap" /\ pc' = pc /\ at'[w] = at[w] + 1
          /\ has'[w] = has[w] \cup {p} /\ before' = before
          /\ committed' = committed /\ staged' = staged
          /\ at[w] \in DOMAIN snaps
      BY <1>1, <1>4 DEF Snapshot, TypeOK, sys
    <2>2. p \in Footprint(plan[w]) /\ p \in Pkgs
      BY <1>2, <2>1, SMTT(60) DEF Footprint
    <2>3. /\ snap'[w][p] = Visible(p)
          /\ \A q \in Pkgs \ {p} : snap'[w][q] = snap[w][q]
      BY <1>1, <1>4, <2>2, SMTT(60) DEF Snapshot, TypeOK
    <2>4. has[w] \subseteq Pkgs
      BY <1>1, SMTT(60) DEF TypeOK
    <2>5. Kept(w)'
      <3>1. pc[w] = "snap" /\ pc'[w] = "snap" /\ Alone(w)' => Alone(w)
        BY <1>4, <1>11, <2>1 DEF Step
      <3>2. Alone(w) => \A q \in has'[w] : snap'[w][q] = before[w][q]
        BY <1>1, <2>1, <2>2, <2>3, <2>4 DEF Follows, Kept, Exporting, Busy
      <3> QED
        BY <2>1, <3>1, <3>2 DEF Kept
    <2>6. Exporting(w)'
      BY <1>1, <1>4, <1>11, <2>1, ZenonT(60) DEF Follows, Exporting, Visible, Step
    <2>7. Obtained(w)'
      <3>1. \A i \in DOMAIN snaps :
              i < at'[w] /\ snaps[i].must => snaps[i].pkg \in has'[w]
        <4>1. \A i \in DOMAIN snaps : i < at'[w] => i < at[w] \/ i = at[w]
          BY <1>2, <2>1
        <4> QED
          BY <1>1, <2>1, <4>1 DEF Follows, Obtained, Busy
      <3> QED
        BY <1>1, <2>1, <3>1, Zenon DEF Obtained
    <2> QED
      BY <1>12, <2>1, <2>5, <2>6, <2>7 DEF Follows, Fresh, Restored, Undoing
  <1>5. CASE SnapshotFails(w)
    <2>1. /\ pc[w] = "snap" /\ has' = has /\ before' = before
          /\ snap' = snap /\ committed' = committed /\ staged' = staged
          /\ at[w] \in DOMAIN snaps
      BY <1>5 DEF SnapshotFails, sys
    <2>2. CASE snaps[at[w]].must
      <3>1. pc'[w] = "refused"
        BY <1>2, <1>5, <2>2 DEF SnapshotFails
      <3> QED
        BY <1>12, <3>1 DEF Follows, Fresh, Exporting, Obtained, Kept, Restored,
                          Busy, Undoing
    <2>3. CASE ~snaps[at[w]].must
      <3>1. pc'[w] = "snap" /\ at'[w] = at[w] + 1
        BY <1>1, <2>1, <1>5, <2>3 DEF SnapshotFails, TypeOK
      <3>2. Exporting(w)'
        BY <1>1, <1>2, <1>5, <1>11, <2>1, <3>1
        DEF Follows, Exporting, Visible, Fault
      <3>3. Obtained(w)'
        <4>1. \A i \in DOMAIN snaps : i < at'[w] => i < at[w] \/ i = at[w]
          BY <1>2, <2>1, <3>1
        <4> QED
          BY <1>1, <2>1, <2>3, <3>1, <4>1 DEF Follows, Obtained, Busy
      <3> QED
        BY <1>1, <1>5, <1>11, <1>12, <2>1, <3>1, <3>2, <3>3
        DEF Follows, Fresh, Kept, Restored, Busy, Undoing, Fault
    <2> QED
      BY <2>2, <2>3
  <1>6. CASE Prepare(w)
    <2>1. /\ pc[w] = "snap" /\ pc'[w] = "run" /\ has' = has
          /\ before' = before /\ snap' = snap /\ at[w] \notin DOMAIN snaps
      BY <1>2, <1>6 DEF Prepare
    <2>2. \A i \in DOMAIN snaps : i < at[w]
      BY <1>2, <2>1
    <2>3. Obtained(w)'
      BY <1>1, <2>1, <2>2 DEF Follows, Obtained, Busy
    <2> QED
      BY <1>1, <1>6, <1>11, <1>12, <2>1, <2>3
      DEF Follows, Fresh, Exporting, Kept, Restored, Busy, Undoing, Step
  <1>7. CASE OpOk(w)
    <2>1. /\ pc' = pc /\ at'[w] = at[w] + 1 /\ has' = has /\ snap' = snap
          /\ before' = before /\ clean' = clean
          /\ Running(w) /\ Effect(w) /\ pc[w] \in {"run"} \cup Undoing
      BY <1>1, <1>7 DEF OpOk, TypeOK, Running
    <2>2. Todo(w)' = Todo(w)
      BY <1>1, <2>1 DEF Todo
    <2>3. Restored(w)'
      <3> SUFFICES ASSUME PutsBack(plan[w]), pc[w] \in Undoing, clean[w],
                          Alone(w), NEW i \in DOMAIN Todo(w), i < at[w] + 1,
                          Todo(w)[i].op = "restore", Todo(w)[i].on \in has[w]
                   PROVE  /\ committed'[Todo(w)[i].on] = before[w][Todo(w)[i].on]
                          /\ staged'[Todo(w)[i].on] = {}
        BY <1>1, <1>7, <1>11, <2>1, <2>2 DEF Restored, IsBack, Step
      <3> DEFINE p == Todo(w)[i].on
      <3>1. CASE i = at[w]
        BY <1>1, <2>1, <3>1, UndoEffect DEF Cur, Follows
      <3>2. CASE i < at[w]
        <4>1. committed[p] = before[w][p] /\ staged[p] = {}
          BY <1>1, <3>2 DEF Follows, Restored, IsBack
        <4>2. p \in Pkgs
          BY <1>1, TodoType DEF IsTarget
        <4> QED
          BY <1>1, <2>1, <4>1, <4>2, UndoEffect DEF Follows
      <3>3. i \in Nat
        BY <1>2
      <3> QED
        BY <1>2, <3>1, <3>2, <3>3, SMTT(60)
    <2> QED
      BY <1>1, <1>7, <1>11, <1>12, <2>1, <2>3
      DEF Follows, Fresh, Exporting, Obtained, Kept, Busy, Undoing, Step
  <1>8. CASE OpFails(w)
    <2>1. /\ has' = has /\ snap' = snap /\ before' = before
          /\ pc[w] \in {"run"} \cup Undoing
          /\ \/ pc'[w] = "undo" /\ at'[w] = 1
             \/ pc'[w] = pc[w]
          /\ clean'[w] = (clean[w] /\ pc[w] = "run")
      BY <1>1, <1>8 DEF OpFails, Running, TypeOK
    <2>2. Restored(w)'
      <3>1. CASE pc'[w] = "undo" /\ at'[w] = 1
        <4>1. Todo(w)' = Plan[plan[w]].undo
          BY <1>1, <3>1 DEF Todo
        <4>2. DOMAIN Plan[plan[w]].undo \subseteq Nat \ {0}
          BY <1>1, PlanAssumption DEF TypeOK
        <4>3. \A i \in DOMAIN Todo(w)' : ~(i < 1)
          BY <4>1, <4>2
        <4> QED
          BY <3>1, <4>3 DEF Restored
      <3>2. CASE pc'[w] = pc[w]
        BY <2>1, <3>2 DEF Restored, Undoing
      <3> QED
        BY <2>1, <3>1, <3>2
    <2> QED
      BY <1>1, <1>8, <1>11, <1>12, <2>1, <2>2
      DEF Follows, Fresh, Exporting, Obtained, Kept, Busy, Undoing, Fault
  <1>9. CASE Applied(w) \/ Healthy(w) \/ Undone(w)
    <2>1. /\ has' = has /\ snap' = snap /\ before' = before
          /\ pc[w] \in Busy \ {"snap"}
          /\ pc'[w] \in {"check", "done", "undone"}
      BY <1>2, <1>9 DEF Applied, Healthy, Undone, Busy, Undoing
    <2> QED
      BY <1>1, <1>9, <1>11, <1>12, <2>1
      DEF Follows, Fresh, Exporting, Obtained, Kept, Restored, Busy, Undoing,
          Step
  <1>10. CASE Unhealthy(w)
    <2>1. /\ has' = has /\ snap' = snap /\ before' = before
          /\ pc[w] = "check" /\ pc'[w] = "unprobe" /\ at'[w] = 1
      BY <1>1, <1>10 DEF Unhealthy, TypeOK
    <2>2. DOMAIN Todo(w)' \subseteq Nat \ {0}
      BY <1>1, <2>1, PlanAssumption DEF Todo, TypeOK
    <2>3. Restored(w)'
      BY <2>1, <2>2 DEF Restored
    <2> QED
      BY <1>1, <1>10, <1>11, <1>12, <2>1, <2>3
      DEF Follows, Fresh, Exporting, Obtained, Kept, Busy, Undoing, Fault
  <1> QED
    BY <1>3, <1>4, <1>5, <1>6, <1>7, <1>8, <1>9, <1>10, SMTT(60) DEF Step, Fault

LEMMA RollbackInit == Init => RollbackInv
  <1> SUFFICES ASSUME Init PROVE RollbackInv
    OBVIOUS
  <1>1. \A w \in Workers :
          pc[w] = "idle" /\ at[w] = 1 /\ has[w] = {} /\ met[w] = {}
    BY DEF Init
  <1>2. Met
    BY <1>1 DEF Met, Share, Busy
  <1> QED
    BY <1>1, <1>2, InitType
    DEF RollbackInv, Follows, Fresh, Held, Exporting, Obtained, Kept, Restored,
        Busy, Undoing, Alone

LEMMA RollbackStep ==
  ASSUME RollbackInv, [Next]_vars
  PROVE  RollbackInv'
  <1>1. CASE Next
    <2>1. PICK v \in Workers : Begin(v) \/ Step(v) \/ Fault(v)
      BY <1>1 DEF Next
    <2>2. TypeOK' /\ Met'
      BY <2>1, StepType, MetKept DEF RollbackInv
    <2>3. \A w \in Workers : Follows(w)'
      BY <1>1, <2>1, OthersFollow, OwnFollows
    <2> QED
      BY <2>2, <2>3 DEF RollbackInv
  <1>2. CASE UNCHANGED vars
    <2>1. TypeOK' /\ Met'
      BY <1>2 DEF vars, RollbackInv, TypeOK, Met, Share
    <2>2. \A w \in Workers : Follows(w)'
      <3> SUFFICES ASSUME NEW w \in Workers, Follows(w) PROVE Follows(w)'
        BY DEF RollbackInv
      <3>1. Exporting(w)'
        BY <1>2 DEF vars, Follows, Exporting, Visible, Alone
      <3>2. Fresh(w)' /\ Held(w)' /\ Kept(w)' /\ Obtained(w)'
        BY <1>2, SMTT(60) DEF vars, Follows, Fresh, Held, Kept, Obtained, Alone
      <3>3. /\ pc' = pc /\ clean' = clean /\ at' = at /\ before' = before
            /\ committed' = committed /\ staged' = staged
            /\ has' = has /\ plan' = plan /\ (Alone(w)' <=> Alone(w))
        BY <1>2 DEF vars, sys, Alone
      <3>4. Todo(w)' = Todo(w)
        BY <1>2 DEF vars, Todo
      <3>5. Restored(w)'
        BY <3>3, <3>4 DEF Follows, Restored, IsBack
      <3> QED
        BY <3>1, <3>2, <3>5 DEF Follows
    <2> QED
      BY <2>1, <2>2 DEF RollbackInv
  <1> QED
    BY <1>1, <1>2

(* A rollback ends by a step of its own, at the end of its list.           *)
LEMMA RollbackLast ==
  ASSUME TypeOK, Next, NEW w \in Workers, RollsBack(w)
  PROVE  /\ at[w] \notin DOMAIN Todo(w) /\ pc[w] \in Undoing /\ clean[w]
         /\ committed' = committed /\ staged' = staged
         /\ en' = en /\ up' = up
         /\ plan[w] \in PlanIds /\ Todo(w) \in Undos(plan[w])
         /\ \A i \in DOMAIN Todo(w) : i < at[w]
  <1>1. Undone(w)
    <2>1. PICK v \in Workers : Begin(v) \/ Step(v) \/ Fault(v)
      BY DEF Next
    <2>2. v = w
      BY <2>1, OthersKeep DEF RollsBack, Ends
    <2> QED
      BY <2>1, <2>2
      DEF RollsBack, Ends, TypeOK, Step, Fault, Begin, Snapshot,
          Prepare, OpOk, Applied, Healthy, SnapshotFails, OpFails, Unhealthy
  <1>2. /\ at[w] \notin DOMAIN Todo(w) /\ pc[w] \in Undoing /\ clean[w]
        /\ committed' = committed /\ staged' = staged /\ en' = en /\ up' = up
    BY <1>1 DEF Undone, RollsBack, sys
  <1>3. Todo(w) \in Undos(plan[w]) /\ plan[w] \in PlanIds
    BY <1>2 DEF Todo, Undos, Undoing, TypeOK
  <1>4. \A i \in DOMAIN Todo(w) : i < at[w]
    <2>1. Todo(w) \in Seq(Op) /\ at[w] \in Nat \ {0}
      BY TodoType DEF TypeOK
    <2>2. DOMAIN Todo(w) = 1 .. Len(Todo(w)) /\ Len(Todo(w)) \in Nat
      BY <2>1
    <2> QED
      BY <1>2, <2>1, <2>2
  <1> QED
    BY <1>2, <1>3, <1>4

(* The step that ends a clean rollback finds every package put back of     *)
(* which the handler holds an export.                                      *)
LEMMA RollbackEnds ==
  ASSUME RollbackInv, Next, NEW w \in Workers, RollsBack(w), Alone(w),
         PutsBack(plan[w]), NEW p \in Footprint(plan[w]), p \in has[w]
  PROVE  committed'[p] = before[w][p] /\ staged'[p] = {}
  <1>1. /\ pc[w] \in Undoing /\ clean[w]
        /\ committed' = committed /\ staged' = staged
        /\ Todo(w) \in Undos(plan[w]) /\ plan[w] \in PlanIds
        /\ \A i \in DOMAIN Todo(w) : i < at[w]
    BY RollbackLast DEF RollbackInv
  <1>2. PICK i \in DOMAIN Todo(w) :
          Todo(w)[i].op = "restore" /\ Todo(w)[i].on = p
    BY <1>1 DEF PutsBack
  <1> QED
    BY <1>1, <1>2, SMTT(60) DEF RollbackInv, Follows, Restored, IsBack

(* A handler past its exports holds those it cannot do without.            *)
LEMMA HoldsExports ==
  ASSUME RollbackInv, NEW w \in Workers, pc[w] \in Busy \ {"snap"},
         NEW packages, Exports(plan[w], packages)
  PROVE  packages \subseteq has[w]
  <1> SUFFICES ASSUME NEW p \in packages PROVE p \in has[w]
    OBVIOUS
  <1>1. PICK i \in DOMAIN Plan[plan[w]].snaps :
          Plan[plan[w]].snaps[i] = [pkg |-> p, must |-> TRUE]
    BY DEF Exports
  <1>2. Plan[plan[w]].snaps[i].must /\ Plan[plan[w]].snaps[i].pkg = p
    BY <1>1
  <1> QED
    BY <1>2 DEF RollbackInv, Follows, Obtained

(***************************************************************************)
(* README.md 52-54 and ADR-003.  If every handler is WellGuarded, a        *)
(* rollback whose commands all worked, of a handler that met no other on   *)
(* its packages, ends with each of them, files and delta, as it was when   *)
(* the handler began, for any handlers, packages, faults and overlaps of   *)
(* the others.                                                             *)
(***************************************************************************)
THEOREM RollbackIsExact ==
  ASSUME \A id \in PlanIds : WellGuarded(id)
  PROVE  Spec => RollbackExact
  <1> DEFINE ExactStep == \A w \in Workers : Alone(w) => UndoesItself(w)
  <1>1. RollbackInv /\ [Next]_vars => RollbackInv'
    BY RollbackStep
  <1>2. RollbackInv /\ [Next]_vars => [ExactStep]_vars
    <2> SUFFICES ASSUME RollbackInv, Next, NEW w \in Workers, RollsBack(w),
                        Alone(w)
                 PROVE  \A p \in Footprint(plan[w]) :
                          committed'[p] = before[w][p] /\ staged'[p] = {}
      BY DEF UndoesItself
    <2>1. PutsBack(plan[w]) /\ Exports(plan[w], Footprint(plan[w]))
      BY DEF RollbackInv, TypeOK, WellGuarded
    <2>2. pc[w] \in Busy \ {"snap"}
      BY RollbackLast DEF RollbackInv, Busy, Undoing
    <2>3. Footprint(plan[w]) \subseteq has[w]
      BY <2>1, <2>2, HoldsExports
    <2> QED
      BY <2>1, <2>3, RollbackEnds
  <1> QED
    BY RollbackInit, <1>1, <1>2, PTL DEF Spec, RollbackExact
-----------------------------------------------------------------------------
(***************************************************************************)
(* Whose edits a package holds.  The trace of a package is what it holds   *)
(* and what the handlers' exports of it hold: from either an edit may come *)
(* back.  A handler has left no trace before it runs (Unwritten), nor,     *)
(* ever, outside its footprint (Within), and when it began it found none   *)
(* of its own edits (Innocent).  A handler whose rollbacks only put back   *)
(* has written nothing but what it means to write (Neat).  All this is so  *)
(* however the handlers overlap.                                           *)
(*   Where none of those that w met has put an export back (Spared), the   *)
(* exports of the handlers it did not meet hold the edits of w that the    *)
(* packages hold (Unmixed), so that nobody's rollback takes one out or     *)
(* brings one back.  A handler that met no other and exports what it       *)
(* writes, or happens to have exported everything (Careful), leaves        *)
(* nothing when it is rejected (Spotless).                                 *)
(***************************************************************************)
Trace(p) == Visible(p) \cup UNION {snap[u][p] : u \in Workers}
Bears(p, w) == Trace(p) \cap MarksOf(w) # {}

Unwritten(w) ==
  pc[w] \in {"idle", "snap", "refused"} => \A p \in Pkgs : ~Bears(p, w)

Innocent(w) ==
  pc[w] \in Busy => \A p \in Pkgs : before[w][p] \cap MarksOf(w) = {}

Within(w) == \A p \in Pkgs : p \notin Footprint(plan[w]) => ~Bears(p, w)

Neat(w) ==
  PutsBack(plan[w]) =>
    \A p \in Pkgs : p \notin Written(plan[w]) => ~Bears(p, w)

Spared(w) ==
  \A v \in met[w] : OnlyWrites(plan[v]) /\ pc[v] \notin Undoing \cup {"undone"}

Unmixed(v, w) ==
  v # w /\ v \notin met[w] /\ Spared(w) /\ pc[v] \in Busy =>
    \A p \in has[v] : snap[v][p] \cap MarksOf(w) = Visible(p) \cap MarksOf(w)

Careful(w) ==
  PutsBack(plan[w]) /\ (Exports(plan[w], Written(plan[w])) \/ Exported(w))
Spotless(w) == Careful(w) /\ Alone(w) => LeavesNo(w)

Marks(w) ==
  /\ Unwritten(w) /\ Innocent(w) /\ Within(w) /\ Neat(w) /\ Spotless(w)
  /\ \A v \in Workers : Unmixed(v, w)

MarksInv == RollbackInv /\ \A w \in Workers : Marks(w)

LEMMA AloneIsSpared == ASSUME NEW w, Alone(w) PROVE Spared(w)
  BY DEF Alone, Spared

LEMMA HoldsBears ==
  ASSUME NEW p, NEW w, ~Bears(p, w)
  PROVE  /\ ~Holds(p, w) /\ Visible(p) \cap MarksOf(w) = {}
         /\ \A u \in Workers : snap[u][p] \cap MarksOf(w) = {}
  <1>1. Visible(p) \subseteq Trace(p)
    BY DEF Trace
  <1>2. \A u \in Workers : snap[u][p] \subseteq Trace(p)
    BY DEF Trace
  <1> QED
    BY <1>1, <1>2 DEF Bears, Holds

(* A step either leaves the files alone or runs a command of a handler.    *)
LEMMA FilesStep ==
  ASSUME TypeOK, NEW v \in Workers, Begin(v) \/ Step(v) \/ Fault(v)
  PROVE  \/ committed' = committed /\ staged' = staged
         \/ /\ Running(v) /\ Effect(v) /\ pc[v] \in {"run"} \cup Undoing
            /\ before' = before /\ plan' = plan
            /\ pc'[v] = pc[v] \/ pc'[v] = "undo"
  BY DEF TypeOK, Running, sys, Step, Fault, Begin, Snapshot, Prepare, OpOk,
         Applied, Healthy, Undone, SnapshotFails, OpFails, Unhealthy

(* The only edit that a step brings into the trace of a package is the one *)
(* that a command of it makes.                                             *)
LEMMA TraceStep ==
  ASSUME TypeOK, NEW v \in Workers, Begin(v) \/ Step(v) \/ Fault(v),
         NEW p \in Pkgs, NEW m \in Trace(p)', m \notin Trace(p)
  PROVE  Running(v) /\ Edit(v) /\ Cur(v).on = p /\ m = <<v, at[v]>>
  <1>1. snap' = snap \/ Snapshot(v)
    BY DEF Step, Fault, Begin, Prepare, OpOk, Applied, Healthy, Undone,
           SnapshotFails, OpFails, Unhealthy
  <1>2. ASSUME NEW u \in Workers PROVE snap'[u][p] \subseteq Trace(p)
    <2>1. CASE snap' = snap
      BY <2>1 DEF Trace
    <2>2. CASE Snapshot(v)
      <3> DEFINE q == Plan[plan[v]].snaps[at[v]].pkg
      <3>1. snap' = [snap EXCEPT ![v][q] = Visible(q)]
        BY <2>2 DEF Snapshot
      <3>2. snap'[u][p] = snap[u][p] \/ snap'[u][p] = Visible(p)
        BY <3>1 DEF TypeOK
      <3> QED
        BY <3>2 DEF Trace
    <2> QED
      BY <1>1, <2>1, <2>2
  <1>3. m \in Visible(p)'
    BY <1>2 DEF Trace
  <1>4. m \notin Visible(p) /\ \A u \in Workers : m \notin snap[u][p]
    BY DEF Trace
  <1>5. ~(committed' = committed /\ staged' = staged)
    BY <1>3, <1>4 DEF Visible
  <1>6. Running(v) /\ Effect(v)
    BY <1>5, FilesStep
  <1>7. CASE Edit(v)
    BY <1>3, <1>4, <1>6, <1>7 DEF Edit, Visible, TypeOK
  <1>8. CASE Commit(v) \/ Restore(v)
    BY <1>3, <1>4, <1>8 DEF Commit, Restore, Visible, TypeOK
  <1>9. CASE Service(v) \/ Package(v)
    BY <1>5, <1>9 DEF Service, ActIf, Act, Package, sys
  <1> QED
    BY <1>6, <1>7, <1>8, <1>9 DEF Effect

(* So the step of one handler brings no edit of another.                   *)
LEMMA OthersBring ==
  ASSUME TypeOK, NEW v \in Workers, NEW w \in Workers, v # w,
         Begin(v) \/ Step(v) \/ Fault(v), NEW p \in Pkgs, ~Bears(p, w)
  PROVE  ~Bears(p, w)'
  <1> SUFFICES ASSUME NEW m \in Trace(p)', m \in MarksOf(w) PROVE FALSE
    BY DEF Bears
  <1>1. m \notin Trace(p)
    BY DEF Bears
  <1>2. m = <<v, at[v]>>
    BY <1>1, TraceStep
  <1> QED
    BY <1>2 DEF MarksOf

(* A step of one handler neither adds an edit of another to a package nor  *)
(* takes one away, staged or committed, unless it puts an export back and  *)
(* the two have met.                                                       *)
LEMMA OthersMarks ==
  ASSUME TypeOK, NEW v \in Workers, NEW w \in Workers, v # w,
         Begin(v) \/ Step(v) \/ Fault(v), Unmixed(v, w), Spared(w),
         NEW p \in Pkgs
  PROVE  Visible(p)' \cap MarksOf(w) = Visible(p) \cap MarksOf(w)
  <1>1. CASE committed' = committed /\ staged' = staged
    BY <1>1 DEF Visible
  <1>2. CASE /\ Running(v) /\ Effect(v) /\ pc[v] \in {"run"} \cup Undoing
    <2>1. CASE Service(v) \/ Package(v)
      BY <2>1 DEF Service, ActIf, Act, Package, sys, Visible
    <2>2. CASE Edit(v)
      <3>1. <<v, at[v]>> \notin MarksOf(w)
        BY DEF MarksOf
      <3>2. committed' = committed
        BY <2>2 DEF Edit
      <3>3. staged'[p] = staged[p] \/ staged'[p] = staged[p] \cup {<<v, at[v]>>}
        BY <2>2 DEF Edit, TypeOK
      <3> QED
        BY <3>1, <3>2, <3>3 DEF Visible
    <2>3. CASE Commit(v)
      <3>1. \/ committed'[p] = committed[p] /\ staged'[p] = staged[p]
            \/ committed'[p] = Visible(p) /\ staged'[p] = {}
        BY <2>3 DEF Commit, TypeOK
      <3> QED
        BY <3>1 DEF Visible
    <2>4. CASE Restore(v)
      <3>1. \/ committed'[p] = committed[p] /\ staged'[p] = staged[p]
            \/ /\ committed'[p] = snap[v][p] /\ staged'[p] = {}
               /\ p \in has[v]
        BY <2>4 DEF Restore, TypeOK
      <3>2. pc[v] \in Busy
        BY <1>2 DEF Busy, Undoing
      <3>3. v \notin met[w]
        <4> SUFFICES ASSUME v \in met[w] PROVE FALSE
          OBVIOUS
        <4>1. OnlyWrites(plan[v]) /\ pc[v] = "run"
          BY <1>2 DEF Spared
        <4>2. Cur(v).op # "restore"
          BY <1>2, <4>1 DEF OnlyWrites, Cur, Todo, Running
        <4> QED
          BY <2>4, <4>2 DEF Restore
      <3>4. p \in has[v] =>
              snap[v][p] \cap MarksOf(w) = Visible(p) \cap MarksOf(w)
        BY <3>2, <3>3 DEF Unmixed
      <3> QED
        BY <3>1, <3>4 DEF Visible
    <2> QED
      BY <1>2, <2>1, <2>2, <2>3, <2>4 DEF Effect
  <1> QED
    BY <1>1, <1>2, FilesStep

(* Who met nobody that put an export back, after a step, had not before.   *)
LEMMA SparedBefore ==
  ASSUME TypeOK, NEW u \in Workers, Begin(u) \/ Step(u) \/ Fault(u),
         NEW w \in Workers, Spared(w)'
  PROVE  Spared(w) /\ \A v \in Workers : v \notin met'[w] => v \notin met[w]
  <1>1. met[w] \subseteq met'[w] /\ met[w] \subseteq Workers
    BY MetGrows DEF TypeOK
  <1>2. plan' = plan
    BY DEF Step, Fault, Begin, Snapshot, Prepare, OpOk, Applied, Healthy,
           Undone, SnapshotFails, OpFails, Unhealthy
  <1>3. ASSUME NEW v \in met[w], pc[v] \in Undoing \cup {"undone"}
        PROVE  pc'[v] \in Undoing \cup {"undone"}
    <2>1. CASE v # u
      BY <1>1, <1>3, <2>1, OthersKeep
    <2>2. CASE v = u
      BY <1>3, <2>2 DEF TypeOK, Undoing, Step, Fault, Begin, Snapshot, Prepare,
         OpOk, Applied, Healthy, Undone, SnapshotFails, OpFails, Unhealthy
    <2> QED
      BY <2>1, <2>2
  <1> QED
    BY <1>1, <1>2, <1>3 DEF Spared

LEMMA UnmixedKept ==
  ASSUME MarksInv, NEW u \in Workers, Begin(u) \/ Step(u) \/ Fault(u),
         NEW v \in Workers, NEW w \in Workers
  PROVE  Unmixed(v, w)'
  <1> SUFFICES ASSUME v # w, v \notin met'[w], Spared(w)', pc'[v] \in Busy,
                      NEW p \in has'[v]
               PROVE  snap'[v][p] \cap MarksOf(w) = Visible(p)' \cap MarksOf(w)
    BY DEF Unmixed
  <1>1. /\ TypeOK /\ Met /\ Follows(v) /\ Follows(w) /\ Marks(w)
        /\ Unmixed(u, w) /\ Unmixed(v, w)
    BY DEF MarksInv, RollbackInv, Marks
  <1>2. Spared(w) /\ v \notin met[w]
    BY <1>1, SparedBefore
  <1>3. has'[v] \subseteq Pkgs
    <2>1. TypeOK'
      BY <1>1, StepType
    <2> QED
      BY <2>1 DEF TypeOK
  <1>4. CASE u = w
    <2>1. has'[v] = has[v] /\ snap'[v] = snap[v] /\ pc'[v] = pc[v]
      BY <1>1, <1>4, OthersKeep
    <2>2. snap[v][p] \cap MarksOf(w) = Visible(p) \cap MarksOf(w)
      BY <1>1, <1>2, <2>1 DEF Unmixed
    <2>3. CASE committed' = committed /\ staged' = staged
      BY <2>1, <2>2, <2>3 DEF Visible
    <2>4. CASE Running(w) /\ Effect(w)
      <3>1. p \in Footprint(plan[v]) /\ pc[w] \in Busy
        BY <1>1, <2>1, <2>4 DEF Follows, Held, Running, Busy, Undoing
      <3>2. p \notin Footprint(plan[w])
        BY <1>1, <1>2, <2>1, <3>1 DEF Met, Share
      <3> QED
        BY <1>1, <1>3, <2>1, <2>2, <2>4, <3>2, EffectFrame DEF Visible
    <2> QED
      BY <1>1, <1>4, <2>3, <2>4, FilesStep
  <1>5. CASE u # w
    <2>1. Visible(p)' \cap MarksOf(w) = Visible(p) \cap MarksOf(w)
      BY <1>1, <1>2, <1>3, <1>5, OthersMarks
    <2>2. CASE has'[v] = has[v] /\ snap'[v] = snap[v] /\ pc[v] \in Busy
      BY <1>1, <1>2, <2>1, <2>2 DEF Unmixed
    <2>3. CASE Begin(u) /\ u = v
      <3>1. has'[v] = {}
        BY <1>1, <2>3 DEF Begin, Follows, Fresh
      <3> QED
        BY <3>1
    <2>4. CASE Snapshot(u) /\ u = v
      <3> DEFINE q == Plan[plan[v]].snaps[at[v]].pkg
      <3>1. /\ snap' = [snap EXCEPT ![v][q] = Visible(q)]
            /\ has' = [has EXCEPT ![v] = @ \cup {q}]
            /\ committed' = committed /\ staged' = staged /\ pc[v] \in Busy
        BY <2>4 DEF Snapshot, sys, Busy
      <3>2. CASE p = q
        <4>1. snap'[v][p] = Visible(p)
          BY <1>1, <1>3, <3>1, <3>2 DEF TypeOK
        <4> QED
          BY <2>1, <4>1
      <3>3. CASE p # q
        <4>1. p \in has[v] /\ snap'[v][p] = snap[v][p]
          BY <1>1, <3>1, <3>3 DEF TypeOK
        <4> QED
          BY <1>1, <1>2, <2>1, <3>1, <4>1 DEF Unmixed
      <3> QED
        BY <3>2, <3>3
    <2>5. \/ has'[v] = has[v] /\ snap'[v] = snap[v] /\ pc[v] \in Busy
          \/ Begin(u) /\ u = v
          \/ Snapshot(u) /\ u = v
      <3>1. CASE u # v
        BY <1>1, <3>1, OthersKeep
      <3>2. CASE u = v
        BY <3>2 DEF Step, Fault, Prepare, OpOk, Applied, Healthy, Undone,
           SnapshotFails, OpFails, Unhealthy, Busy, Undoing, Running
      <3> QED
        BY <3>1, <3>2
    <2> QED
      BY <2>2, <2>3, <2>4, <2>5
  <1> QED
    BY <1>4, <1>5

LEMMA OthersMarked ==
  ASSUME MarksInv, NEW v \in Workers, NEW w \in Workers, v # w,
         Begin(v) \/ Step(v) \/ Fault(v)
  PROVE  Marks(w)'
  <1>1. TypeOK /\ Unmixed(v, w) /\ Marks(w)
    BY DEF MarksInv, RollbackInv, Marks
  <1>2. /\ pc'[w] = pc[w] /\ plan' = plan /\ has'[w] = has[w]
        /\ before'[w] = before[w] /\ clean'[w] = clean[w]
    BY <1>1, OthersKeep
  <1>3. \A p \in Pkgs : ~Bears(p, w) => ~Bears(p, w)'
    BY <1>1, OthersBring
  <1>4. Unwritten(w)' /\ Within(w)' /\ Neat(w)' /\ Innocent(w)'
    BY <1>1, <1>2, <1>3 DEF Marks, Unwritten, Within, Neat, Innocent
  <1>5. Spotless(w)'
    <2> SUFFICES ASSUME Alone(w)', Careful(w)' PROVE LeavesNo(w)'
      BY DEF Spotless
    <2>1. Alone(w)
      BY <1>1, MetGrows DEF Alone
    <2>2. Spared(w)
      BY <2>1, AloneIsSpared
    <2>3. \A p \in Pkgs :
            Visible(p)' \cap MarksOf(w) = Visible(p) \cap MarksOf(w)
      BY <1>1, <2>2, OthersMarks
    <2>4. \A p \in Pkgs : Holds(p, w)' <=> Holds(p, w)
      BY <2>3 DEF Holds
    <2> QED
      BY <1>1, <1>2, <2>1, <2>4
      DEF Marks, Spotless, Careful, Exported, LeavesNo, Rejected
  <1>6. \A u \in Workers : Unmixed(u, w)'
    BY UnmixedKept
  <1> QED
    BY <1>4, <1>5, <1>6 DEF Marks

(* A handler writes where its commands edit, and where its rollbacks only  *)
(* put back that is where its list of operations does.                     *)
LEMMA OwnBring ==
  ASSUME TypeOK, NEW w \in Workers, Begin(w) \/ Step(w) \/ Fault(w),
         NEW p \in Pkgs, ~Bears(p, w), Bears(p, w)'
  PROVE  /\ p \in Footprint(plan[w]) /\ pc[w] \in {"run"} \cup Undoing
         /\ PutsBack(plan[w]) => p \in Written(plan[w])
  <1>1. PICK m \in Trace(p)' : m \in MarksOf(w)
    BY DEF Bears
  <1>2. m \notin Trace(p)
    BY <1>1 DEF Bears
  <1>3. Running(w) /\ Edit(w) /\ Cur(w).on = p
    BY <1>2, TraceStep
  <1>4. p \in Footprint(plan[w])
    BY <1>3, CurInFootprint DEF Edit
  <1>5. ASSUME PutsBack(plan[w]) PROVE p \in Written(plan[w])
    <2>1. pc[w] = "run"
      <3>1. pc[w] \in Undoing => Todo(w) \in Undos(plan[w])
        BY DEF Todo, Undos, Undoing
      <3> QED
        BY <1>3, <1>5, <3>1 DEF Edit, PutsBack, Cur, Running
    <2> QED
      BY <1>3, <2>1 DEF Edit, Written, Touched, Cur, Running, Todo
  <1> QED
    BY <1>3, <1>4, <1>5 DEF Running

LEMMA OwnMarked ==
  ASSUME MarksInv, NEW w \in Workers,
         Begin(w) \/ Step(w) \/ Fault(w)
  PROVE  Marks(w)'
  <1>1. TypeOK /\ Marks(w) /\ plan' = plan
    BY DEF MarksInv, RollbackInv, Step, Fault, Begin, Snapshot,
           Prepare, OpOk, Applied, Healthy, Undone, SnapshotFails, OpFails,
           Unhealthy
  <1>2. Footprint(plan[w]) \subseteq Pkgs
    BY <1>1, FootprintType DEF TypeOK
  <1>3. \/ /\ Begin(w) /\ pc[w] = "idle" /\ pc'[w] = "snap"
           /\ committed' = committed /\ staged' = staged
           /\ \A p \in Pkgs : before'[w][p] = Visible(p)
        \/ pc[w] \in Busy /\ before' = before
    BY <1>1 DEF TypeOK, sys, Busy, Undoing, Running, Step, Fault, Begin,
                Snapshot, Prepare, OpOk, Applied, Healthy, Undone,
                SnapshotFails, OpFails, Unhealthy
  <1>4. pc'[w] \in {"idle", "snap", "refused"} => pc[w] \in {"idle", "snap"}
    BY <1>1 DEF TypeOK, sys, Busy, Undoing, Running, Step, Fault, Begin,
                Snapshot, Prepare, OpOk, Applied, Healthy, Undone,
                SnapshotFails, OpFails, Unhealthy
  <1>5. Unwritten(w)' /\ Within(w)' /\ Neat(w)'
    <2>1. Unwritten(w)'
      <3> SUFFICES ASSUME pc'[w] \in {"idle", "snap", "refused"}, NEW p \in Pkgs
                   PROVE  ~Bears(p, w)'
        BY DEF Unwritten
      <3>1. pc[w] \in {"idle", "snap"} /\ ~Bears(p, w)
        BY <1>1, <1>4 DEF Marks, Unwritten
      <3> QED
        BY <1>1, <3>1, OwnBring DEF Undoing
    <2>2. Within(w)'
      BY <1>1, OwnBring DEF Marks, Within
    <2>3. Neat(w)'
      BY <1>1, OwnBring DEF Marks, Neat
    <2> QED
      BY <2>1, <2>2, <2>3
  <1>6. Innocent(w)'
    <2>1. pc[w] = "idle" => \A p \in Pkgs : Visible(p) \cap MarksOf(w) = {}
      BY <1>1, HoldsBears DEF Marks, Unwritten
    <2> QED
      BY <1>1, <1>3, <2>1 DEF Marks, Innocent
  <1>7. Spotless(w)'
    <2> SUFFICES ASSUME Careful(w)', Alone(w)' PROVE LeavesNo(w)'
      BY DEF Spotless
    <2>1. CASE pc'[w] = "refused"
      <3>1. \A p \in Pkgs : ~Bears(p, w)'
        BY <1>5, <2>1 DEF Unwritten
      <3>2. \A p \in Pkgs : ~Holds(p, w)'
        BY <3>1 DEF Bears, Trace, Holds
      <3> QED
        BY <3>2 DEF LeavesNo
    <2>2. CASE pc'[w] = "undone" /\ clean'[w]
      <3>1. RollsBack(w) /\ has' = has
        BY <1>1, <2>2
        DEF RollsBack, Ends, TypeOK, Undoing, Running, Step, Fault, Begin,
            Snapshot, Prepare, OpOk, Applied, Healthy, Undone, SnapshotFails,
            OpFails, Unhealthy
      <3>2. Next
        BY DEF Next
      <3>3. Careful(w) /\ Alone(w)
        BY <1>1, <3>1, MetGrows DEF Careful, Exported, Alone
      <3>4. pc[w] \in Busy \ {"snap"}
        BY <1>1, <3>1, <3>2, RollbackLast DEF Busy, Undoing
      <3>5. Written(plan[w]) \subseteq Footprint(plan[w])
        BY DEF Written, Footprint
      <3>6. Written(plan[w]) \subseteq has[w]
        BY <3>3, <3>4, <3>5, HoldsExports DEF MarksInv, Careful, Exported
      <3>7. \A p \in Written(plan[w]) :
              committed'[p] = before[w][p] /\ staged'[p] = {}
        BY <3>1, <3>2, <3>3, <3>5, <3>6, RollbackEnds DEF MarksInv, Careful
      <3>8. \A p \in Pkgs : before[w][p] \cap MarksOf(w) = {}
        BY <1>1, <3>4 DEF Marks, Innocent
      <3>9. \A p \in Written(plan[w]) : ~Holds(p, w)'
        BY <1>2, <3>5, <3>7, <3>8 DEF Holds, Visible
      <3>10. \A p \in Pkgs \ Written(plan[w]) : ~Holds(p, w)'
        <4>1. \A p \in Pkgs \ Written(plan[w]) : ~Bears(p, w)'
          BY <1>1, <1>5, <3>3 DEF Neat, Careful
        <4> QED
          BY <4>1 DEF Bears, Trace, Holds
      <3> QED
        BY <3>9, <3>10 DEF LeavesNo
    <2>3. CASE ~Rejected(w)'
      BY <2>3 DEF LeavesNo
    <2> QED
      BY <2>1, <2>2, <2>3 DEF Rejected
  <1>8. \A v \in Workers : Unmixed(v, w)'
    BY UnmixedKept
  <1> QED
    BY <1>5, <1>6, <1>7, <1>8 DEF Marks

LEMMA MarksInit == Init => MarksInv
  <1> SUFFICES ASSUME Init PROVE \A w \in Workers : Marks(w)
    BY RollbackInit DEF MarksInv
  <1>1. \A w \in Workers : pc[w] = "idle"
    BY DEF Init
  <1>2. ASSUME NEW p \in Pkgs PROVE Trace(p) = {}
    <2>1. committed[p] = {} /\ staged[p] = {} /\ \A u \in Workers : snap[u][p] = {}
      BY DEF Init
    <2> QED
      BY <2>1 DEF Trace, Visible
  <1>3. \A w \in Workers : \A p \in Pkgs : ~Bears(p, w)
    BY <1>2 DEF Bears
  <1> QED
    BY <1>1, <1>3 DEF Marks, Unmixed, Unwritten, Innocent, Within, Neat,
                      Spotless, LeavesNo, Rejected, Busy

LEMMA MarksStep ==
  ASSUME MarksInv, [Next]_vars
  PROVE  MarksInv'
  <1>1. RollbackInv'
    BY RollbackStep DEF MarksInv
  <1>2. CASE Next
    <2>1. PICK v \in Workers : Begin(v) \/ Step(v) \/ Fault(v)
      BY <1>2 DEF Next
    <2>2. \A w \in Workers : Marks(w)'
      BY <1>2, <2>1, OthersMarked, OwnMarked
    <2> QED
      BY <1>1, <2>2 DEF MarksInv
  <1>3. CASE UNCHANGED vars
    <2>1. /\ pc' = pc /\ plan' = plan /\ before' = before /\ clean' = clean
          /\ committed' = committed /\ staged' = staged /\ has' = has
          /\ snap' = snap /\ met' = met
      BY <1>3 DEF vars
    <2>2. \A p : Visible(p)' = Visible(p) /\ Trace(p)' = Trace(p)
      BY <2>1 DEF Visible, Trace
    <2>3. \A w \in Workers : Spared(w)' <=> Spared(w)
      BY <2>1 DEF Spared
    <2>4. ASSUME NEW w \in Workers, Marks(w) PROVE Marks(w)'
      <3>1. Unwritten(w)' /\ Innocent(w)' /\ Within(w)' /\ Neat(w)'
        BY <2>1, <2>2, <2>4 DEF Marks, Unwritten, Innocent, Within, Neat, Bears
      <3>2. Spotless(w)'
        BY <2>1, <2>2, <2>4
        DEF Marks, Spotless, Careful, Exported, LeavesNo, Rejected, Holds, Alone
      <3>3. \A v \in Workers : Unmixed(v, w)'
        BY <2>1, <2>2, <2>3, <2>4 DEF Marks, Unmixed
      <3> QED
        BY <3>1, <3>2, <3>3 DEF Marks
    <2>5. \A w \in Workers : Marks(w)'
      BY <2>4 DEF MarksInv
    <2> QED
      BY <1>1, <2>5 DEF MarksInv
  <1> QED
    BY <1>2, <1>3

(* A guarded handler leaves nothing, whatever the others are like.          *)
LEMMA GuardedIsCareful ==
  ASSUME NEW w, WellGuarded(plan[w]) PROVE Careful(w)
  <1>1. Written(plan[w]) \subseteq Footprint(plan[w])
    BY DEF Written, Footprint
  <1> QED
    BY <1>1 DEF WellGuarded, Careful, Exports

(* What the next step may do with the edits of a worker whose handler is   *)
(* over.                                                                   *)
LEMMA OverMarks ==
  ASSUME MarksInv, Next, NEW w \in Workers,
         pc[w] \in {"done", "undone", "refused"}, Spared(w), NEW p \in Pkgs
  PROVE  /\ Visible(p)' \cap MarksOf(w) = Visible(p) \cap MarksOf(w)
         /\ staged'[p] = {} \/ committed'[p] = committed[p]
  <1>1. PICK v \in Workers : Begin(v) \/ Step(v) \/ Fault(v)
    BY DEF Next
  <1>2. v # w
    BY <1>1 DEF Undoing, Running, Step, Fault, Begin, Snapshot, Prepare, OpOk,
                Applied, Healthy, Undone, SnapshotFails, OpFails, Unhealthy
  <1>3. TypeOK /\ Unmixed(v, w)
    BY DEF MarksInv, RollbackInv, Marks
  <1>4. Visible(p)' \cap MarksOf(w) = Visible(p) \cap MarksOf(w)
    BY <1>1, <1>2, <1>3, OthersMarks
  <1>5. staged'[p] = {} \/ committed'[p] = committed[p]
    <2>1. CASE Running(v) /\ Effect(v)
      BY <1>3, <2>1
      DEF TypeOK, Effect, Edit, Commit, Restore, Service, ActIf, Act,
          Package, sys
    <2> QED
      BY <1>1, <1>3, <2>1, FilesStep
  <1> QED
    BY <1>4, <1>5

(***************************************************************************)
(* ADR-003.  Where handlers are WellGuarded, a change that was refused or  *)
(* rolled back, of a handler that met no other on its packages, has left   *)
(* no edit in any package, in the file or staged for whoever commits next, *)
(* whatever ran since and however the others overlapped.                   *)
(***************************************************************************)
THEOREM LeavesNothingAlways ==
  ASSUME \A id \in PlanIds : WellGuarded(id)
  PROVE  Spec => []LeavesNothing
  <1>1. MarksInv /\ [Next]_vars => MarksInv'
    BY MarksStep
  <1>2. MarksInv => LeavesNothing
    BY GuardedIsCareful
    DEF MarksInv, RollbackInv, TypeOK, Marks, Spotless, LeavesNothing
  <1> QED
    BY MarksInit, <1>1, <1>2, PTL DEF Spec

(***************************************************************************)
(* ADR-003.  Under the same discipline no commit of another handler        *)
(* carries into the files what a failed handler left behind.               *)
(***************************************************************************)
THEOREM RejectedStaysOutAlways ==
  ASSUME \A id \in PlanIds : WellGuarded(id)
  PROVE  Spec => RejectedStaysOut
  <1> DEFINE Out ==
        \A w \in Workers : Rejected(w) /\ Alone(w) =>
          \A p \in Pkgs : committed'[p] \cap MarksOf(w) \subseteq committed[p]
  <1>1. MarksInv /\ [Next]_vars => MarksInv'
    BY MarksStep
  <1>2. MarksInv /\ [Next]_vars => [Out]_vars
    <2> SUFFICES ASSUME MarksInv, Next, NEW w \in Workers, Rejected(w),
                        Alone(w), NEW p \in Pkgs
                 PROVE  committed'[p] \cap MarksOf(w) \subseteq committed[p]
      OBVIOUS
    <2>1. Visible(p)' \cap MarksOf(w) = Visible(p) \cap MarksOf(w)
      BY OverMarks, AloneIsSpared DEF Rejected
    <2>2. Visible(p) \cap MarksOf(w) = {}
      BY GuardedIsCareful
      DEF MarksInv, RollbackInv, TypeOK, Marks, Spotless, LeavesNo, Holds
    <2> QED
      BY <2>1, <2>2 DEF Visible
  <1> QED
    BY MarksInit, <1>1, <1>2, PTL DEF Spec, RejectedStaysOut

(***************************************************************************)
(* What a handler reported as done is taken out of the files only after a  *)
(* handler that worked at the same time on one of its packages rolled      *)
(* back: no rollback of any other writes an older export over it, however  *)
(* the handlers overlap, whatever fails, and whether they are careful or   *)
(* not.  No plan puts an export back before something failed.              *)
(***************************************************************************)
THEOREM AckSurvivesAlways ==
  ASSUME \A id \in PlanIds : OnlyWrites(id)
  PROVE  Spec => AckSurvives
  <1> DEFINE Survives ==
        \A w \in Workers : pc[w] = "done" /\ Undisturbed(w) => Stays(w)
  <1>1. MarksInv /\ [Next]_vars => MarksInv'
    BY MarksStep
  <1>2. MarksInv /\ [Next]_vars => [Survives]_vars
    <2> SUFFICES ASSUME MarksInv, Next, NEW w \in Workers, pc[w] = "done",
                        Undisturbed(w), NEW p \in Pkgs
                 PROVE  committed[p] \cap MarksOf(w) \subseteq committed'[p]
      BY DEF Stays
    <2>1. Spared(w)
      BY DEF Spared, Undisturbed, MarksInv, RollbackInv, TypeOK
    <2>2. /\ Visible(p)' \cap MarksOf(w) = Visible(p) \cap MarksOf(w)
          /\ staged'[p] = {} \/ committed'[p] = committed[p]
      BY <2>1, OverMarks
    <2> QED
      BY <2>2 DEF Visible
  <1> QED
    BY MarksInit, <1>1, <1>2, PTL DEF Spec, AckSurvives
-----------------------------------------------------------------------------
(***************************************************************************)
(* The promises of the handlers by name.  The hypothesis Disciplined says  *)
(* how the plans of those that keep them look; TLC finds it true of the    *)
(* plans of the code (MCWritePaths!DisciplineAssumption).                  *)
(***************************************************************************)
LEMMA AbleIsCareful ==
  ASSUME Disciplined, TypeOK, NEW w \in Able
  PROVE  w \in Workers /\ Careful(w)
  BY DEF Disciplined, TypeOK, Able, Under, Careful

(***************************************************************************)
(* ADR-003.  A handler of the catalogue that was refused or rolled back,   *)
(* the careless ones aside, has left no edit anywhere, staged ones         *)
(* included, unless one that shares a package with it worked at the same   *)
(* time, be those others careless or not.                                  *)
(***************************************************************************)
THEOREM HandlersLeaveNothingAlways ==
  ASSUME Disciplined
  PROVE  Spec => []HandlersLeaveNothing
  <1>1. MarksInv /\ [Next]_vars => MarksInv'
    BY MarksStep
  <1>2. MarksInv => HandlersLeaveNothing
    <2> SUFFICES ASSUME MarksInv, NEW w \in Able PROVE LeavesNo(w)
      BY DEF HandlersLeaveNothing
    <2>1. w \in Workers /\ Careful(w)
      BY AbleIsCareful DEF MarksInv, RollbackInv
    <2>2. Alone(w) /\ Spotless(w)
      BY <2>1 DEF MarksInv, Marks, Able
    <2> QED
      BY <2>1, <2>2 DEF Spotless
  <1> QED
    BY MarksInit, <1>1, <1>2, PTL DEF Spec

(* The only handler met no other.                                          *)
LEMMA OnlyOneIsAlone ==
  ASSUME NEW only, Workers = {only}, RollbackInv PROVE Alone(only)
  BY DEF RollbackInv, TypeOK, Met, Alone

(* With no other handler to write it, a package that the handler does not  *)
(* write is as empty of edits as at first.                                 *)
LEMMA UnwrittenIsEmpty ==
  ASSUME NEW only, Workers = {only}, MarksInv, PutsBack(plan[only]),
         pc[only] \in Busy, NEW p \in Pkgs, p \notin Written(plan[only])
  PROVE  committed[p] = {} /\ staged[p] = {} /\ before[only][p] = {}
  <1>1. \A c \in Content : c \cap MarksOf(only) = c
    BY DEF Content, Mark, MarksOf
  <1>2. TypeOK /\ Marks(only)
    BY DEF MarksInv, RollbackInv
  <1>3. Visible(p) \cap MarksOf(only) = {}
    BY <1>2, HoldsBears DEF Marks, Neat
  <1>4. before[only][p] \cap MarksOf(only) = {}
    BY <1>2 DEF Marks, Innocent
  <1>5. /\ committed[p] \in Content /\ staged[p] \in Content
        /\ before[only][p] \in Content
    BY <1>2 DEF TypeOK
  <1> QED
    BY <1>1, <1>3, <1>4, <1>5 DEF Visible

(***************************************************************************)
(* README.md 52-54.  With one handler at work at a time, every handler of  *)
(* the catalogue but the careless ones puts the packages it touches back   *)
(* exactly as they were when it began, if no command of its rollback       *)
(* failed; those that drop the error of an export, if none failed.         *)
(***************************************************************************)
THEOREM HandlersUndoAlways ==
  ASSUME NEW only, Workers = {only}, Disciplined
  PROVE  Spec => HandlersUndo
  <1> DEFINE Undone1 == \A w \in Able : UndoesItself(w)
  <1>1. MarksInv /\ [Next]_vars => MarksInv'
    BY MarksStep
  <1>2. MarksInv /\ [Next]_vars => [Undone1]_vars
    <2> SUFFICES ASSUME MarksInv, Next, only \in Able, RollsBack(only),
                        NEW p \in Footprint(plan[only])
                 PROVE  committed'[p] = before[only][p] /\ staged'[p] = {}
      BY DEF UndoesItself, Able, Under
    <2>1. RollbackInv /\ TypeOK /\ Careful(only) /\ Alone(only)
      BY AbleIsCareful DEF MarksInv, RollbackInv, Able
    <2>2. PutsBack(plan[only])
      BY <2>1 DEF Careful
    <2>3. /\ committed' = committed /\ staged' = staged
          /\ pc[only] \in Busy \ {"snap"} /\ plan[only] \in PlanIds
      BY <2>1, RollbackLast DEF Busy, Undoing
    <2>4. CASE p \in has[only]
      BY <2>1, <2>2, <2>4, RollbackEnds
    <2>5. CASE p \notin has[only]
      <3>1. p \in Pkgs
        BY <2>3, FootprintType
      <3>2. ~Exported(only)
        BY <2>5 DEF Exported
      <3>3. Written(plan[only]) \subseteq has[only]
        BY <2>1, <2>3, <3>2, HoldsExports DEF Careful
      <3> QED
        BY <2>2, <2>3, <2>5, <3>1, <3>3, UnwrittenIsEmpty
    <2> QED
      BY <2>4, <2>5
  <1> QED
    BY MarksInit, <1>1, <1>2, PTL
    DEF Spec, HandlersUndo

(***************************************************************************)
(* The same next to any other handlers, which overlap with each other as   *)
(* they may, for a handler that met none of them on its packages and all   *)
(* of whose exports worked.                                                *)
(***************************************************************************)
THEOREM HandlersUndoTogether ==
  ASSUME Disciplined
  PROVE  Spec =>
           [][\A w \in Able : Exported(w) => UndoesItself(w)]_vars
  <1> DEFINE Undone1 == \A w \in Able : Exported(w) => UndoesItself(w)
  <1>1. RollbackInv /\ [Next]_vars => RollbackInv'
    BY RollbackStep
  <1>2. RollbackInv /\ [Next]_vars => [Undone1]_vars
    <2> SUFFICES ASSUME RollbackInv, Next, NEW w \in Able, RollsBack(w),
                        Exported(w), NEW p \in Footprint(plan[w])
                 PROVE  committed'[p] = before[w][p] /\ staged'[p] = {}
      BY DEF UndoesItself
    <2>1. w \in Workers /\ PutsBack(plan[w]) /\ Alone(w)
      BY AbleIsCareful DEF RollbackInv, Careful, Able
    <2> QED
      BY <2>1, RollbackEnds DEF Exported
  <1> QED
    BY RollbackInit, <1>1, <1>2, PTL DEF Spec
-----------------------------------------------------------------------------
(***************************************************************************)
(* What a handler that answers success has committed.  The edits of its    *)
(* own that it still has staged come after the last commit of the package  *)
(* that it made sure of (Pending).  No other handler adds to them.         *)
(***************************************************************************)
Pending(w) ==
  \A p \in Pkgs : \A k \in Nat : <<w, k>> \in staged[p] =>
    /\ pc[w] \notin {"idle", "snap", "refused"}
    /\ pc[w] \in {"run", "check", "done"} =>
         LET steps == Plan[plan[w]].steps
         IN /\ k \in DOMAIN steps /\ k < at[w]
            /\ steps[k].op = "edit" /\ steps[k].on = p
            /\ \A j \in DOMAIN steps :
                 k < j /\ j < at[w] /\ steps[j].op = "commit" /\ steps[j].must
                   => steps[j].on # p

Through(w) ==
  pc[w] \in {"check", "done"} => at[w] \notin DOMAIN Plan[plan[w]].steps

PendingInv == TypeOK /\ \A w \in Workers : Pending(w) /\ Through(w)

(* A command stages no edit but the one it makes.                          *)
LEMMA EffectStages ==
  ASSUME TypeOK, NEW w \in Workers, Running(w), Effect(w) \/ UNCHANGED sys,
         NEW p \in Pkgs, NEW m \in staged'[p], m \notin staged[p]
  PROVE  Edit(w) /\ Cur(w).on = p /\ m = <<w, at[w]>>
  <1>1. CASE Edit(w)
    BY <1>1 DEF Edit, TypeOK
  <1>2. CASE Commit(w) \/ Restore(w)
    BY <1>2 DEF Commit, Restore, TypeOK
  <1>3. CASE Service(w) \/ Package(w) \/ UNCHANGED sys
    BY <1>3 DEF Service, ActIf, Act, Package, sys
  <1> QED
    BY <1>1, <1>2, <1>3 DEF Effect

LEMMA OthersPending ==
  ASSUME PendingInv, NEW v \in Workers, NEW w \in Workers, v # w,
         Begin(v) \/ Step(v) \/ Fault(v)
  PROVE  Pending(w)' /\ Through(w)'
  <1>1. TypeOK /\ Pending(w) /\ Through(w)
    BY DEF PendingInv
  <1>2. pc'[w] = pc[w] /\ plan' = plan /\ at'[w] = at[w]
    BY <1>1, OthersKeep
  <1>3. \A p \in Pkgs : \A k : <<w, k>> \in staged'[p] => <<w, k>> \in staged[p]
    <2>1. CASE staged' = staged
      BY <2>1
    <2>2. CASE Running(v) /\ Effect(v)
      BY <1>1, <2>2, EffectStages
    <2> QED
      BY <1>1, <2>1, <2>2, FilesStep
  <1>4. Pending(w)'
    BY <1>1, <1>2, <1>3 DEF Pending
  <1>5. Through(w)'
    BY <1>1, <1>2 DEF Through
  <1> QED
    BY <1>4, <1>5

(* A command that is not skipped over commits its package.                 *)
LEMMA OwnPending ==
  ASSUME PendingInv, NEW w \in Workers, Begin(w) \/ Step(w) \/ Fault(w)
  PROVE  Pending(w)' /\ Through(w)'
  <1> DEFINE steps == Plan[plan[w]].steps
  <1>1. TypeOK /\ Pending(w) /\ Through(w) /\ plan' = plan
    BY DEF PendingInv, Step, Fault, Begin, Snapshot, Prepare, OpOk, Applied,
           Healthy, Undone, SnapshotFails, OpFails, Unhealthy
  <1>2. /\ at[w] \in Nat \ {0} /\ DOMAIN steps = 1 .. Len(steps)
        /\ Len(steps) \in Nat /\ pc \in [Workers -> Phases]
        /\ at \in [Workers -> Nat \ {0}]
    BY <1>1, PlanAssumption DEF TypeOK
  <1>3. CASE /\ pc[w] = "run" /\ pc' = pc /\ at'[w] = at[w] + 1
             /\ Running(w)
             /\ Effect(w) \/ (UNCHANGED sys /\ ~Cur(w).must)
    <2>1. Cur(w) = steps[at[w]] /\ at[w] \in DOMAIN steps
      BY <1>3 DEF Cur, Todo, Running
    <2>2. Through(w)'
      BY <1>3 DEF Through
    <2> SUFFICES ASSUME NEW p \in Pkgs, NEW k \in Nat, <<w, k>> \in staged'[p]
                 PROVE  /\ k \in DOMAIN steps /\ k < at[w] + 1
                        /\ steps[k].op = "edit" /\ steps[k].on = p
                        /\ \A j \in DOMAIN steps :
                             k < j /\ j < at[w] + 1
                               /\ steps[j].op = "commit" /\ steps[j].must
                               => steps[j].on # p
      BY <1>1, <1>3, <2>2 DEF Pending
    <2>3. CASE <<w, k>> \notin staged[p]
      <3>1. Edit(w) /\ Cur(w).on = p /\ k = at[w]
        BY <1>1, <1>3, <2>3, EffectStages
      <3> QED
        BY <1>2, <2>1, <3>1 DEF Edit
    <2>4. CASE <<w, k>> \in staged[p]
      <3>1. /\ k \in DOMAIN steps /\ k < at[w]
            /\ steps[k].op = "edit" /\ steps[k].on = p
            /\ \A j \in DOMAIN steps :
                 k < j /\ j < at[w] /\ steps[j].op = "commit" /\ steps[j].must
                   => steps[j].on # p
        BY <1>1, <1>3, <2>4 DEF Pending
      <3>2. steps[at[w]].op = "commit" /\ steps[at[w]].must
              => steps[at[w]].on # p
        <4> SUFFICES ASSUME Cur(w).op = "commit", Cur(w).must, Cur(w).on = p
                     PROVE  FALSE
          BY <2>1
        <4>1. Commit(w)
          BY <1>3 DEF Effect, Edit, Restore, Service, Package
        <4> QED
          BY <1>1, <4>1 DEF Commit, TypeOK
      <3>3. \A j \in DOMAIN steps : j < at[w] + 1 => j < at[w] \/ j = at[w]
        BY <1>2
      <3> QED
        BY <1>2, <3>1, <3>2, <3>3
    <2> QED
      BY <2>3, <2>4
  <1>4. CASE /\ pc'[w] \in Undoing \cup {"undone"}
             /\ pc[w] \notin {"idle", "snap", "refused"}
    BY <1>4 DEF Pending, Through, Undoing
  <1>5. CASE staged' = staged /\ pc[w] \in {"idle", "snap"}
    BY <1>1, <1>5 DEF Pending, Through, Begin, Step, Fault, Snapshot, Prepare, OpOk,
         Applied, Healthy, Undone, SnapshotFails, OpFails, Unhealthy, TypeOK,
         Running, Undoing
  <1>6. CASE /\ staged' = staged /\ at' = at /\ pc[w] \in {"run", "check"}
             /\ pc'[w] \in {"check", "done"} /\ at[w] \notin DOMAIN steps
    BY <1>1, <1>6 DEF Pending, Through
  <1>7. \/ /\ pc[w] = "run" /\ pc' = pc /\ at'[w] = at[w] + 1
           /\ Running(w)
           /\ Effect(w) \/ (UNCHANGED sys /\ ~Cur(w).must)
        \/ /\ pc'[w] \in Undoing \cup {"undone"}
           /\ pc[w] \notin {"idle", "snap", "refused"}
        \/ staged' = staged /\ pc[w] \in {"idle", "snap"}
        \/ /\ staged' = staged /\ at' = at /\ pc[w] \in {"run", "check"}
           /\ pc'[w] \in {"check", "done"} /\ at[w] \notin DOMAIN steps
    <2>1. CASE OpOk(w)
      BY <1>2, <2>1 DEF OpOk, Running, Undoing
    <2>2. CASE OpFails(w)
      BY <1>2, <2>2 DEF OpFails, Running, Undoing
    <2>3. CASE Begin(w) \/ Snapshot(w) \/ Prepare(w) \/ SnapshotFails(w)
      BY <2>3 DEF Begin, Snapshot, Prepare, SnapshotFails, sys
    <2>4. CASE Applied(w) \/ Healthy(w)
      BY <1>1, <1>2, <2>4 DEF Applied, Healthy, sys, Through
    <2>5. CASE Undone(w) \/ Unhealthy(w)
      BY <1>2, <2>5 DEF Undone, Unhealthy, Undoing
    <2> QED
      BY <2>1, <2>2, <2>3, <2>4, <2>5 DEF Step, Fault
  <1> QED
    BY <1>3, <1>4, <1>5, <1>6, <1>7

LEMMA PendingInit == Init => PendingInv
  BY InitType DEF Init, PendingInv, Pending, Through

LEMMA PendingStep == PendingInv /\ [Next]_vars => PendingInv'
  <1> SUFFICES ASSUME PendingInv, [Next]_vars PROVE PendingInv'
    OBVIOUS
  <1>1. CASE Next
    <2>1. PICK v \in Workers : Begin(v) \/ Step(v) \/ Fault(v)
      BY <1>1 DEF Next
    <2>2. TypeOK'
      BY <2>1, StepType DEF PendingInv
    <2>3. \A w \in Workers : Pending(w)' /\ Through(w)'
      BY <2>1, OthersPending, OwnPending
    <2> QED
      BY <2>2, <2>3 DEF PendingInv
  <1>2. CASE UNCHANGED vars
    <2>1. TypeOK'
      BY <1>2 DEF vars, PendingInv, TypeOK
    <2>2. \A w \in Workers : Pending(w)' /\ Through(w)'
      BY <1>2, SMTT(60) DEF vars, PendingInv, Pending, Through
    <2> QED
      BY <2>1, <2>2 DEF PendingInv
  <1> QED
    BY <1>1, <1>2

(***************************************************************************)
(* The first half of TakesEffect, in any interleaving of any handlers and  *)
(* whatever failed: a handler that answers success has none of its edits   *)
(* left in a delta.  The handlers are those of the catalogue but two; the  *)
(* two drop the error of their commit.                                     *)
(***************************************************************************)
THEOREM HandlersCommitAll ==
  ASSUME Committing
  PROVE  Spec => [](\A w \in Under(Lenient) : CommitsAll(w))
  <1>1. PendingInv => \A w \in Under(Lenient) : CommitsAll(w)
    <2> SUFFICES ASSUME PendingInv, NEW w \in Workers, plan[w] \notin Lenient,
                        pc[w] = "done", NEW p \in Pkgs, NEW k \in Nat,
                        <<w, k>> \in staged[p]
                 PROVE  FALSE
      BY DEF Under, CommitsAll, MarksOf
    <2> DEFINE steps == Plan[plan[w]].steps
    <2>1. TypeOK /\ Pending(w) /\ Through(w) /\ plan[w] \in PlanIds
      BY DEF PendingInv, TypeOK
    <2>2. /\ k \in DOMAIN steps /\ k < at[w] /\ at[w] \notin DOMAIN steps
          /\ steps[k].op = "edit" /\ steps[k].on = p
      BY <2>1 DEF Pending, Through
    <2>3. PICK j \in DOMAIN steps :
            /\ k < j /\ steps[j].op = "commit" /\ steps[j].on = p
            /\ steps[j].must
      BY <2>1, <2>2 DEF Committing, CommitsEdits
    <2>4. j < at[w]
      <3>1. DOMAIN steps = 1 .. Len(steps) /\ Len(steps) \in Nat
            /\ at[w] \in Nat \ {0}
        BY <2>1, PlanAssumption DEF TypeOK
      <3> QED
        BY <2>2, <3>1
    <2> QED
      BY <2>1, <2>3, <2>4 DEF Pending
  <1> QED
    BY PendingInit, PendingStep, <1>1, PTL DEF Spec
-----------------------------------------------------------------------------
(***************************************************************************)
(* The services.  A handler that works alone finds them as they were when  *)
(* the router came up (Blank).  The invariant then follows, command by     *)
(* command, which services are enabled and run as before the handler wrote *)
(* (Steady), which of them a rollback has put back (PutAgain), and which   *)
(* run with what their package holds: those that a change told (Told), or  *)
(* never told (Unheard), and those that a rollback told again (Retold).    *)
(***************************************************************************)
Working == {"run", "check"} \cup Undoing

(* A service that runs does so with what its package holds.                *)
Fits(s) == s \in up => loaded[s] = committed[Reads[s]]

Blank(w) ==
  /\ \A p \in Pkgs : snap[w][p] = {}
  /\ pc[w] \in {"idle", "snap"} =>
       /\ \A p \in Pkgs : committed[p] = {} /\ staged[p] = {}
       /\ \A s \in Svcs : loaded[s] = {}
  /\ PutsBack(plan[w]) =>
       /\ \A p \in Pkgs \ Edited(plan[w]) : committed[p] = {} /\ staged[p] = {}
       /\ \A s \in Svcs : Reads[s] \notin Edited(plan[w]) => loaded[s] = {}

Steady(w) ==
  /\ AlwaysUp(plan[w]) \subseteq up /\ AlwaysEnabled(plan[w]) \subseteq en
  /\ \A s \in EnabledIfUp(plan[w]) : s \in up => s \in en
  /\ pc[w] \in Working =>
       /\ AlwaysUp(plan[w]) \subseteq was[w].up
       /\ AlwaysEnabled(plan[w]) \subseteq was[w].en
       /\ \A s \in UpIfWasUp(plan[w]) : s \in up <=> s \in was[w].up
       /\ \A s \in LinkedIfWas(plan[w]) : s \in en <=> s \in was[w].en

Past(w, kind, s) ==
  \E i \in DOMAIN Todo(w) :
    i < at[w] /\ Todo(w)[i].op = kind /\ Todo(w)[i].on = s

PutAgain(w) ==
  SwitchesBack(plan[w]) /\ pc[w] \in Undoing /\ clean[w] =>
    \A s \in Svcs :
      /\ Past(w, "putRunning", s) => (s \in up <=> s \in was[w].up)
      /\ Past(w, "putEnabled", s) => (s \in en <=> s \in was[w].en)

Told(w) ==
  pc[w] \in {"run", "check"} /\ faults = 0 =>
    LET steps == Plan[plan[w]].steps
    IN \A s \in Svcs : \A i \in DOMAIN steps :
         /\ i < at[w] /\ Teaches(plan[w], steps[i], s)
         /\ \A j \in DOMAIN steps : i < j => ~Puts(steps[j], Reads[s])
         => Fits(s)

Unheard(w) ==
  LET steps == Plan[plan[w]].steps
  IN /\ pc[w] = "check" => Plan[plan[w]].health
     /\ pc[w] \in {"run", "check"} =>
          \A s \in Svcs : \A ops \in Undos(plan[w]) :
            NeverTold(plan[w], ops, s) =>
              \/ loaded[s] = {}
              \/ /\ ~Plan[plan[w]].health
                 /\ \A j \in DOMAIN steps : at[w] <= j => ~steps[j].must
     /\ pc[w] \in Undoing =>
          \A s \in Svcs : NeverTold(plan[w], Todo(w), s) => loaded[s] = {}

Retold(w) ==
  PutsBack(plan[w]) /\ pc[w] \in Undoing /\ clean[w] =>
    \A s \in Svcs : \A i, j \in DOMAIN Todo(w) :
      /\ i < j /\ j < at[w]
      /\ Todo(w)[i].op = "restore" /\ Todo(w)[i].on = Reads[s]
      /\ Teaches(plan[w], Todo(w)[j], s)
      => Fits(s)

Serves(w) ==
  Blank(w) /\ Steady(w) /\ PutAgain(w) /\ Told(w) /\ Unheard(w) /\ Retold(w)

ServicesInv == RollbackInv /\ PendingInv /\ \A w \in Workers : Serves(w)

LEMMA OpAmong ==
  ASSUME TypeOK, NEW w \in Workers, Running(w)
  PROVE  /\ Cur(w) \in Among(Todo(w)) /\ Cur(w) \in OpsOf(plan[w])
         /\ pc[w] = "run" => Todo(w) = Plan[plan[w]].steps
         /\ pc[w] \in Undoing => Todo(w) \in Undos(plan[w])
  <1>1. Cur(w) \in Among(Todo(w))
    BY DEF Among, Cur, Running
  <1>2. /\ pc[w] = "run" => Todo(w) = Plan[plan[w]].steps
        /\ pc[w] \in Undoing => Todo(w) \in Undos(plan[w])
    BY DEF Todo, Undos, Undoing
  <1>3. Todo(w) \in {Plan[plan[w]].steps} \cup Undos(plan[w])
    BY <1>2 DEF Running
  <1> QED
    BY <1>1, <1>2, <1>3 DEF OpsOf

(* What a command does to a service, if it does anything: an init script,  *)
(* and the condition it may stand under.                                   *)
LEMMA ServiceActs ==
  ASSUME NEW w \in Workers, Effect(w)
  PROVE  LET o == Cur(w) IN
         \/ en' = en /\ up' = up /\ loaded' = loaded
         \/ \E a :
              /\ Act(o.on, a)
              /\ o.op \in {"svc", "svcIfEnabled", "svcIfWasUp"} => a = o.act
              /\ o.op = "svcIfEnabled" => o.on \in en
              /\ o.op = "svcIfWasUp" => o.on \in was[w].up
              /\ o.op = "putEnabled" =>
                   a = IF o.on \in was[w].en THEN "enable" ELSE "disable"
              /\ o.op = "putRunning" =>
                   a = IF o.on \in was[w].up THEN "start" ELSE "stop"
              /\ o.op \in {"svc", "svcIfEnabled", "svcIfWasUp", "putEnabled",
                           "putRunning"}
  BY DEF Effect, Edit, Commit, Restore, Package, Service, ActIf, sys

(* Which commands start, stop, enable or disable a service, and which make *)
(* it read its package.                                                    *)
LEMMA Moves ==
  ASSUME TypeOK, NEW w \in Workers, Running(w), Effect(w), NEW s \in Svcs
  PROVE  LET o == Cur(w) IN
         /\ s \in up' /\ s \notin up =>
              Launches(o, s) /\ loaded'[s] = committed[Reads[s]]
         /\ s \in up /\ s \notin up' => Halts(o, s)
         /\ s \in en' /\ s \notin en => Enables(o, s)
         /\ s \in en /\ s \notin en' => Disables(o, s)
         /\ loaded'[s] # loaded[s] =>
              /\ Loads(o, s) /\ loaded'[s] = committed[Reads[s]]
              /\ committed' = committed
  <1> DEFINE o == Cur(w)
  <1>1. CASE en' = en /\ up' = up /\ loaded' = loaded
    BY <1>1
  <1>2. CASE ~(en' = en /\ up' = up /\ loaded' = loaded)
    <2>1. PICK a : /\ Act(o.on, a)
                   /\ o.op \in {"svc", "svcIfEnabled", "svcIfWasUp"} => a = o.act
                   /\ o.op = "putEnabled" => a \in {"enable", "disable"}
                   /\ o.op = "putRunning" => a \in {"start", "stop"}
                   /\ o.op \in {"svc", "svcIfEnabled", "svcIfWasUp",
                                "putEnabled", "putRunning"}
      BY <1>2, ServiceActs
    <2>2. a \in {"start", "restart"} => o.act = a \/ o.op = "putRunning"
      BY <2>1
    <2>3. a = "stop" => o.act = a \/ o.op = "putRunning"
      BY <2>1
    <2>4. a = "reload" => o.act = a
      BY <2>1
    <2>5. /\ a = "enable" => o.act = a \/ o.op = "putEnabled"
          /\ a = "disable" => o.act = a \/ o.op = "putEnabled"
      BY <2>1
    <2>6. /\ s \in up' /\ s \notin up =>
               a \in {"start", "restart"} /\ s \in Drives[o.on]
          /\ s \in up /\ s \notin up' => a = "stop" /\ s = o.on
          /\ s \in en' /\ s \notin en => a = "enable" /\ s = o.on
          /\ s \in en /\ s \notin en' => a = "disable" /\ s = o.on
          /\ committed' = committed
      BY <2>1 DEF Act
    <2>7. /\ a \in {"start", "restart"} /\ s \in Drives[o.on] =>
               loaded'[s] = committed[Reads[s]]
          /\ loaded'[s] # loaded[s] =>
               /\ loaded'[s] = committed[Reads[s]]
               /\ a \in {"start", "restart", "reload"} /\ s \in Drives[o.on]
      BY <2>1 DEF Act, Load
    <2> QED
      BY <2>2, <2>3, <2>4, <2>5, <2>6, <2>7
      DEF Launches, Halts, Enables, Disables, Loads
  <1> QED
    BY <1>1, <1>2

(* What a command leaves of the services' state: a service it does not     *)
(* switch runs as it did now or before the handler wrote, and those that   *)
(* always run go on.                                                       *)
LEMMA RunKept ==
  ASSUME TypeOK, NEW w \in Workers, Running(w), Effect(w), Steady(w),
         NEW s \in Svcs
  PROVE  /\ s \in AlwaysUp(plan[w]) => s \in up'
         /\ ~Switches(plan[w], Cur(w), s) =>
              \/ s \in up' <=> s \in up
              \/ s \in up' <=> s \in was[w].up
         /\ Cur(w).op = "putRunning" /\ Cur(w).on = s =>
              (s \in up' <=> s \in was[w].up)
  <1> DEFINE o == Cur(w)
  <1>1. /\ s \in up' /\ s \notin up => Launches(o, s)
        /\ s \in up /\ s \notin up' => Halts(o, s)
    BY Moves
  <1>2. /\ AlwaysUp(plan[w]) \subseteq up
        /\ AlwaysUp(plan[w]) \subseteq was[w].up
    BY DEF Steady, Running, Working
  <1>3. s \in AlwaysUp(plan[w]) => s \in up' /\ s \in was[w].up
    BY <1>1, <1>2, OpAmong DEF AlwaysUp
  <1>4. o.op = "putRunning" /\ o.on = s => (s \in up' <=> s \in was[w].up)
    <2> SUFFICES ASSUME o.op = "putRunning", o.on = s
                 PROVE  s \in up' <=> s \in was[w].up
      OBVIOUS
    <2>1. Act(s, IF s \in was[w].up THEN "start" ELSE "stop")
      BY DEF Effect, Edit, Commit, Restore, Package, Service
    <2> QED
      BY <2>1, ShapeAssumption DEF Act
  <1>5. o.op = "svcIfWasUp" /\ o.on = s /\ s \in up' /\ s \notin up
          => s \in was[w].up
    BY DEF Effect, Edit, Commit, Restore, Package, Service, ActIf, sys
  <1>6. ~Switches(plan[w], o, s) =>
          \/ s \in up' <=> s \in up
          \/ s \in up' <=> s \in was[w].up
    <2> SUFFICES ASSUME ~Switches(plan[w], o, s), s \notin AlwaysUp(plan[w]),
                        ~(s \in up' <=> s \in up)
                 PROVE  s \in up' <=> s \in was[w].up
      BY <1>3
    <2>1. Launches(o, s) \/ Halts(o, s)
      BY <1>1
    <2>2. \/ o.op = "svcIfWasUp" /\ o.act # "stop" /\ o.on = s
          \/ o.op = "putRunning" /\ o.on = s
      BY <2>1 DEF Switches
    <2>3. CASE o.op = "putRunning" /\ o.on = s
      BY <1>4, <2>3
    <2>4. CASE o.op = "svcIfWasUp" /\ o.act # "stop" /\ o.on = s
      <3>1. ~Halts(o, s)
        BY <2>4 DEF Halts
      <3> QED
        BY <1>1, <1>5, <2>4, <3>1
    <2> QED
      BY <2>2, <2>3, <2>4
  <1> QED
    BY <1>3, <1>4, <1>6

LEMMA LinkKept ==
  ASSUME TypeOK, NEW w \in Workers, Running(w), Effect(w), Steady(w),
         NEW s \in Svcs
  PROVE  /\ s \in AlwaysEnabled(plan[w]) => s \in en'
         /\ ~Relinks(plan[w], Cur(w), s) =>
              \/ s \in en' <=> s \in en
              \/ s \in en' <=> s \in was[w].en
         /\ Cur(w).op = "putEnabled" /\ Cur(w).on = s =>
              (s \in en' <=> s \in was[w].en)
  <1> DEFINE o == Cur(w)
  <1>1. /\ s \in en' /\ s \notin en => Enables(o, s)
        /\ s \in en /\ s \notin en' => Disables(o, s)
    BY Moves
  <1>2. /\ AlwaysEnabled(plan[w]) \subseteq en
        /\ AlwaysEnabled(plan[w]) \subseteq was[w].en
    BY DEF Steady, Running, Working
  <1>3. s \in AlwaysEnabled(plan[w]) => s \in en' /\ s \in was[w].en
    BY <1>1, <1>2, OpAmong DEF AlwaysEnabled
  <1>4. o.op = "putEnabled" /\ o.on = s => (s \in en' <=> s \in was[w].en)
    <2> SUFFICES ASSUME o.op = "putEnabled", o.on = s
                 PROVE  s \in en' <=> s \in was[w].en
      OBVIOUS
    <2>1. Act(s, IF s \in was[w].en THEN "enable" ELSE "disable")
      BY DEF Effect, Edit, Commit, Restore, Package, Service
    <2> QED
      BY <2>1 DEF Act
  <1>5. ~Relinks(plan[w], o, s) =>
          \/ s \in en' <=> s \in en
          \/ s \in en' <=> s \in was[w].en
    <2> SUFFICES ASSUME ~Relinks(plan[w], o, s), s \notin AlwaysEnabled(plan[w]),
                        ~(s \in en' <=> s \in en)
                 PROVE  s \in en' <=> s \in was[w].en
      BY <1>3
    <2>1. o.op = "putEnabled" /\ o.on = s
      BY <1>1 DEF Relinks, Enables, Disables
    <2> QED
      BY <1>4, <2>1
  <1> QED
    BY <1>3, <1>4, <1>5

(* A service that fits its package goes on doing so while nobody changes   *)
(* the package, and does so from now on if the command teaches it.         *)
LEMMA FitKept ==
  ASSUME TypeOK, NEW w \in Workers, Running(w), Effect(w), Steady(w),
         NEW s \in Svcs
  PROVE  /\ Fits(s) /\ committed'[Reads[s]] = committed[Reads[s]] => Fits(s)'
         /\ Teaches(plan[w], Cur(w), s) => Fits(s)'
  <1> DEFINE o == Cur(w)
  <1>1. /\ s \in up' /\ s \notin up => loaded'[s] = committed[Reads[s]]
        /\ loaded'[s] # loaded[s] =>
             loaded'[s] = committed[Reads[s]] /\ committed' = committed
    BY Moves
  <1>2. Fits(s) /\ committed'[Reads[s]] = committed[Reads[s]] => Fits(s)'
    BY <1>1 DEF Fits
  <1>3. ASSUME Teaches(plan[w], o, s) PROVE Fits(s)'
    <2>1. s \in Drives[s]
      BY ShapeAssumption
    <2>2. Service(w)
      BY <1>3 DEF Teaches, Effect, Edit, Commit, Restore, Package
    <2>3. ASSUME NEW a, Act(o.on, a),
                 \/ a \in {"start", "restart", "reload"} /\ s \in Drives[o.on]
                 \/ a = "stop" /\ s = o.on
          PROVE  Fits(s)'
      BY <2>3 DEF Act, Load, Fits
    <2>4. CASE o.op = "putRunning"
      <3>1. o.on = s
        BY <1>3, <2>4 DEF Teaches
      <3>2. Act(s, IF s \in was[w].up THEN "start" ELSE "stop")
        BY <2>2, <2>4, <3>1 DEF Service
      <3>3. CASE s \in was[w].up
        BY <2>1, <2>3, <3>1, <3>2, <3>3
      <3>4. CASE s \notin was[w].up
        BY <2>3, <3>1, <3>2, <3>4
      <3> QED
        BY <3>3, <3>4
    <2>5. CASE o.op = "svc"
      <3>1. Act(o.on, o.act)
        BY <2>2, <2>5 DEF Service
      <3> QED
        BY <1>3, <2>3, <2>5, <3>1 DEF Teaches, Loads, Launches, Halts
    <2>6. CASE o.op = "svcIfEnabled"
      <3>1. o.on = s /\ s \in EnabledIfUp(plan[w])
        BY <1>3, <2>6 DEF Teaches
      <3>2. CASE s \in en
        <4>1. Act(o.on, o.act)
          BY <2>2, <2>6, <3>1, <3>2 DEF Service, ActIf
        <4> QED
          BY <1>3, <2>3, <2>6, <4>1 DEF Teaches, Loads, Launches, Halts
      <3>3. CASE s \notin en
        <4>1. s \notin up /\ up' = up
          BY <2>2, <2>6, <3>1, <3>3 DEF Steady, Service, ActIf, sys
        <4> QED
          BY <4>1 DEF Fits
      <3> QED
        BY <3>2, <3>3
    <2>7. CASE o.op = "svcIfWasUp"
      <3>1. o.on = s /\ s \in UpIfWasUp(plan[w])
        BY <1>3, <2>7 DEF Teaches
      <3>2. CASE s \in was[w].up
        <4>1. Act(o.on, o.act)
          BY <2>2, <2>7, <3>1, <3>2 DEF Service, ActIf
        <4> QED
          BY <1>3, <2>3, <2>7, <4>1 DEF Teaches, Loads, Launches, Halts
      <3>3. CASE s \notin was[w].up
        <4>1. s \notin up /\ up' = up
          BY <2>2, <2>7, <3>1, <3>3
          DEF Steady, Service, ActIf, sys, Running, Working
        <4> QED
          BY <4>1 DEF Fits
      <3> QED
        BY <3>2, <3>3
    <2> QED
      BY <1>3, <2>4, <2>5, <2>6, <2>7 DEF Teaches
  <1> QED
    BY <1>2, <1>3

(***************************************************************************)
(* The steps of a handler by what they do to the services and the files:   *)
(* it gets ready, begins to write, runs a command (and goes on, or gives   *)
(* up and rolls back), finds its list through, or is told by the probe     *)
(* that it failed; or it ends.                                             *)
(***************************************************************************)
GetsReady(w) ==
  /\ UNCHANGED sys /\ pc[w] \in {"idle", "snap"} /\ pc'[w] \in {"snap", "refused"}
  /\ \/ snap' = snap
     \/ \E p \in Pkgs : snap' = [snap EXCEPT ![w][p] = Visible(p)]
StartsWriting(w) ==
  /\ UNCHANGED <<sys, snap>> /\ pc[w] = "snap" /\ pc'[w] = "run" /\ at'[w] = 1
  /\ was'[w] = [en |-> en, up |-> up]
GoesOn(w) ==
  /\ Running(w) /\ pc'[w] = pc[w] /\ at'[w] = at[w] + 1
  /\ snap' = snap /\ has' = has /\ was' = was
  /\ \/ Effect(w) /\ faults' = faults /\ clean' = clean
     \/ /\ Effect(w) \/ UNCHANGED sys
        /\ faults' # 0 /\ (clean'[w] => pc[w] = "run")
GivesUp(w) ==
  /\ Running(w) /\ pc[w] = "run" /\ Cur(w).must
  /\ pc'[w] = "undo" /\ at'[w] = 1
  /\ snap' = snap /\ was' = was
  /\ Effect(w) \/ UNCHANGED sys
GetsThrough(w) ==
  /\ UNCHANGED <<sys, snap, was, at, faults>>
  /\ pc[w] \in {"run", "check"} /\ pc'[w] \in {"check", "done"}
  /\ pc'[w] = "check" => pc[w] = "run" /\ Plan[plan[w]].health
FailsTheProbe(w) ==
  /\ UNCHANGED <<sys, snap, was>>
  /\ pc[w] = "check" /\ pc'[w] = "unprobe" /\ at'[w] = 1
Ended(w) == UNCHANGED <<sys, snap, was>> /\ pc'[w] = "undone"

LEMMA OwnStep ==
  ASSUME TypeOK, NEW w \in Workers, Begin(w) \/ Step(w) \/ Fault(w)
  PROVE  /\ \/ GetsReady(w) \/ StartsWriting(w) \/ GoesOn(w) \/ GivesUp(w)
            \/ GetsThrough(w) \/ FailsTheProbe(w) \/ Ended(w)
         /\ plan' = plan
  <1>1. CASE Begin(w) \/ SnapshotFails(w)
    BY <1>1 DEF GetsReady, Begin, SnapshotFails, TypeOK
  <1>2. CASE Snapshot(w)
    <2>1. Plan[plan[w]].snaps[at[w]] \in SnapReq
      BY <1>2, PlanAssumption DEF Snapshot, TypeOK
    <2>2. Plan[plan[w]].snaps[at[w]].pkg \in Pkgs
      BY <2>1 DEF SnapReq
    <2> QED
      BY <1>2, <2>2 DEF GetsReady, Snapshot, TypeOK
  <1>3. CASE Prepare(w)
    BY <1>3 DEF StartsWriting, Prepare, TypeOK
  <1>4. CASE OpOk(w)
    BY <1>4 DEF GoesOn, OpOk, TypeOK
  <1>5. CASE OpFails(w)
    <2>1. /\ faults' # 0 /\ plan' = plan /\ snap' = snap /\ has' = has
          /\ was' = was /\ Running(w)
          /\ Effect(w) \/ UNCHANGED sys
      BY <1>5 DEF OpFails, TypeOK
    <2>2. clean'[w] => pc[w] = "run"
      BY <1>5 DEF OpFails, TypeOK
    <2> QED
      BY <1>5, <2>1, <2>2 DEF GoesOn, GivesUp, OpFails, TypeOK
  <1>6. CASE Applied(w) \/ Healthy(w)
    BY <1>6 DEF GetsThrough, Applied, Healthy, TypeOK
  <1>7. CASE Unhealthy(w)
    BY <1>7 DEF FailsTheProbe, Unhealthy, TypeOK
  <1>8. CASE Undone(w)
    BY <1>8 DEF Ended, Undone, TypeOK
  <1> QED
    BY <1>1, <1>2, <1>3, <1>4, <1>5, <1>6, <1>7, <1>8 DEF Step, Fault

LEMMA BlankKept ==
  ASSUME TypeOK, NEW w \in Workers, Begin(w) \/ Step(w) \/ Fault(w), Blank(w)
  PROVE  Blank(w)'
  <1> DEFINE id == plan[w]
  <1>1. plan' = plan /\ id \in PlanIds
    BY OwnStep DEF TypeOK
  <1>2. \A s \in Svcs : Reads[s] \in Pkgs
    BY ShapeAssumption
  <1>3. CASE GetsReady(w)
    <2>1. UNCHANGED sys /\ pc[w] \in {"idle", "snap"}
      BY <1>3 DEF GetsReady
    <2>2. \A p \in Pkgs : Visible(p) = {} /\ snap[w][p] = {}
      BY <2>1 DEF Blank, Visible
    <2>3. \A p \in Pkgs : snap'[w][p] = {}
      <3>1. CASE snap' = snap
        BY <2>2, <3>1
      <3>2. CASE \E q \in Pkgs : snap' = [snap EXCEPT ![w][q] = Visible(q)]
        <4>1. PICK q \in Pkgs : snap' = [snap EXCEPT ![w][q] = Visible(q)]
          BY <3>2
        <4>2. snap' = [snap EXCEPT ![w][q] = {}]
          BY <2>2, <4>1
        <4> QED
          BY <2>2, <4>2 DEF TypeOK
      <3> QED
        BY <1>3, <3>1, <3>2 DEF GetsReady
    <2> QED
      BY <1>1, <2>1, <2>3 DEF Blank, sys
  <1>4. CASE StartsWriting(w)
    BY <1>1, <1>4 DEF StartsWriting, Blank, sys
  <1>5. CASE /\ pc'[w] \notin {"idle", "snap"} /\ snap' = snap
             /\ UNCHANGED sys \/ (Running(w) /\ Effect(w))
    <2>1. CASE UNCHANGED sys
      BY <1>1, <1>5, <2>1 DEF Blank, sys
    <2>2. CASE Running(w) /\ Effect(w)
      <3> SUFFICES ASSUME PutsBack(id)
                   PROVE  /\ \A p \in Pkgs \ Edited(id) :
                               committed'[p] = {} /\ staged'[p] = {}
                          /\ \A s \in Svcs : Reads[s] \notin Edited(id) =>
                               loaded'[s] = {}
        BY <1>1, <1>5 DEF Blank
      <3>1. \A s \in Svcs : Reads[s] \notin Edited(id) => loaded'[s] = {}
        BY <1>2, <2>2, Moves DEF Blank
      <3>2. CASE Edit(w)
        <4>1. pc[w] = "run"
          BY <2>2, <3>2 DEF PutsBack, Edit, Cur, Todo, Running, Undoing, Undos
        <4>2. Cur(w).on \in Edited(id)
          BY <2>2, <3>2, <4>1, OpAmong DEF Edit, Edited
        <4> QED
          BY <3>1, <3>2, <4>2 DEF Edit, Blank, TypeOK
      <3>3. CASE Commit(w)
        BY <3>1, <3>3 DEF Commit, Blank, Visible, TypeOK
      <3>4. CASE Restore(w)
        BY <3>1, <3>4 DEF Restore, Blank, TypeOK
      <3>5. CASE Service(w) \/ Package(w)
        BY <3>1, <3>5 DEF Service, ActIf, Act, Package, sys, Blank
      <3> QED
        BY <2>2, <3>2, <3>3, <3>4, <3>5 DEF Effect
    <2> QED
      BY <1>5, <2>1, <2>2
  <1>6. CASE GoesOn(w) \/ GivesUp(w)
    BY <1>5, <1>6 DEF GoesOn, GivesUp, Running, Undoing
  <1>7. CASE GetsThrough(w) \/ FailsTheProbe(w) \/ Ended(w)
    BY <1>5, <1>7 DEF GetsThrough, FailsTheProbe, Ended
  <1> QED
    BY OwnStep, <1>3, <1>4, <1>6, <1>7

LEMMA SteadyKept ==
  ASSUME TypeOK, NEW w \in Workers, Begin(w) \/ Step(w) \/ Fault(w), Steady(w)
  PROVE  Steady(w)'
  <1> DEFINE id == plan[w]
  <1>1. plan' = plan /\ id \in PlanIds
    BY OwnStep DEF TypeOK
  <1>2. CASE GetsReady(w)
    BY <1>1, <1>2 DEF GetsReady, Steady, sys, Working, Undoing
  <1>3. CASE StartsWriting(w)
    BY <1>1, <1>3 DEF StartsWriting, Steady, sys, UpIfWasUp, LinkedIfWas
  <1>4. CASE was' = was /\ UNCHANGED sys /\ (pc[w] \in Working \/ pc'[w] \notin Working)
    BY <1>1, <1>4 DEF Steady, sys
  <1>5. CASE was' = was /\ Running(w) /\ Effect(w)
    <2>1. Cur(w) \in OpsOf(id) /\ pc[w] \in Working
      BY <1>5, OpAmong DEF Running, Working
    <2>2. AlwaysUp(id) \subseteq up' /\ AlwaysEnabled(id) \subseteq en'
      BY <1>5, RunKept, LinkKept DEF AlwaysUp, AlwaysEnabled
    <2>3. \A s \in EnabledIfUp(id) : s \in up' => s \in en'
      BY <1>5, <2>1, Moves DEF EnabledIfUp, Steady
    <2>4. \A s \in UpIfWasUp(id) : s \in up' <=> s \in was[w].up
      <3> SUFFICES ASSUME NEW s \in UpIfWasUp(id)
                   PROVE  s \in up' <=> s \in was[w].up
        OBVIOUS
      <3>1. s \in Svcs /\ ~Switches(id, Cur(w), s)
        BY <2>1 DEF UpIfWasUp
      <3>2. s \in up <=> s \in was[w].up
        BY <2>1 DEF Steady
      <3> QED
        BY <1>5, <3>1, <3>2, RunKept
    <2>5. \A s \in LinkedIfWas(id) : s \in en' <=> s \in was[w].en
      <3> SUFFICES ASSUME NEW s \in LinkedIfWas(id)
                   PROVE  s \in en' <=> s \in was[w].en
        OBVIOUS
      <3>1. s \in Svcs /\ ~Relinks(id, Cur(w), s)
        BY <2>1 DEF LinkedIfWas
      <3>2. s \in en <=> s \in was[w].en
        BY <2>1 DEF Steady
      <3> QED
        BY <1>5, <3>1, <3>2, LinkKept
    <2> QED
      BY <1>1, <1>5, <2>1, <2>2, <2>3, <2>4, <2>5 DEF Steady
  <1>6. CASE GoesOn(w) \/ GivesUp(w)
    BY <1>4, <1>5, <1>6 DEF GoesOn, GivesUp, Running, Working
  <1>7. CASE GetsThrough(w) \/ FailsTheProbe(w) \/ Ended(w)
    BY <1>4, <1>7 DEF GetsThrough, FailsTheProbe, Ended, Working, Undoing
  <1> QED
    BY OwnStep, <1>2, <1>3, <1>6, <1>7

LEMMA PutAgainKept ==
  ASSUME TypeOK, NEW w \in Workers, Begin(w) \/ Step(w) \/ Fault(w), Steady(w),
         PutAgain(w)
  PROVE  PutAgain(w)'
  <1> DEFINE id == plan[w]
  <1>1. plan' = plan
    BY OwnStep
  <1>2. CASE GoesOn(w)
    <2> SUFFICES ASSUME SwitchesBack(id), pc'[w] \in Undoing, clean'[w],
                        NEW s \in Svcs
                 PROVE  /\ Past(w, "putRunning", s)' =>
                             (s \in up' <=> s \in was[w].up)
                        /\ Past(w, "putEnabled", s)' =>
                             (s \in en' <=> s \in was[w].en)
      BY <1>1, <1>2 DEF PutAgain, GoesOn
    <2>1. /\ pc[w] \in Undoing /\ clean[w] /\ Effect(w) /\ Running(w)
          /\ at'[w] = at[w] + 1 /\ at[w] \in Nat /\ at[w] \in DOMAIN Todo(w)
          /\ Todo(w)' = Todo(w)
      BY <1>1, <1>2 DEF GoesOn, Undoing, Running, Todo, TypeOK
    <2>2. /\ Todo(w) \in Undos(id) /\ Cur(w) \in Among(Todo(w))
          /\ Cur(w) = Todo(w)[at[w]] /\ DOMAIN Todo(w) \subseteq Nat
      BY <2>1, OpAmong, TodoType DEF Cur
    <2>3. ~Switches(id, Cur(w), s) /\ ~Relinks(id, Cur(w), s)
      BY <2>2 DEF SwitchesBack
    <2>4. \A kind : Past(w, kind, s)' =>
             Past(w, kind, s) \/ (Cur(w).op = kind /\ Cur(w).on = s)
      <3> SUFFICES ASSUME NEW kind, Past(w, kind, s)'
                   PROVE  Past(w, kind, s) \/ (Cur(w).op = kind /\ Cur(w).on = s)
        OBVIOUS
      <3>1. PICK i \in DOMAIN Todo(w) :
              i < at[w] + 1 /\ Todo(w)[i].op = kind /\ Todo(w)[i].on = s
        BY <2>1 DEF Past
      <3>2. i < at[w] \/ i = at[w]
        BY <2>1, <2>2, <3>1
      <3> QED
        BY <2>2, <3>1, <3>2 DEF Past
    <2>5. Past(w, "putRunning", s)' => (s \in up' <=> s \in was[w].up)
      BY <2>1, <2>3, <2>4, RunKept DEF PutAgain
    <2>6. Past(w, "putEnabled", s)' => (s \in en' <=> s \in was[w].en)
      BY <2>1, <2>3, <2>4, LinkKept DEF PutAgain
    <2> QED
      BY <2>5, <2>6
  <1>3. CASE GivesUp(w) \/ FailsTheProbe(w)
    <2>1. at'[w] = 1 /\ Todo(w)' \in Undos(id) /\ id \in PlanIds
      BY <1>1, <1>3 DEF GivesUp, FailsTheProbe, Todo, Undos, TypeOK
    <2>2. DOMAIN Todo(w)' \subseteq Nat \ {0}
      BY <2>1, PlanAssumption DEF Undos
    <2>3. \A kind, s : ~Past(w, kind, s)'
      BY <2>1, <2>2 DEF Past
    <2> QED
      BY <2>3 DEF PutAgain
  <1>4. CASE GetsReady(w) \/ StartsWriting(w) \/ GetsThrough(w) \/ Ended(w)
    BY <1>4 DEF GetsReady, StartsWriting, GetsThrough, Ended, PutAgain, Undoing
  <1> QED
    BY OwnStep, <1>2, <1>3, <1>4

LEMMA ToldKept ==
  ASSUME TypeOK, NEW w \in Workers, Begin(w) \/ Step(w) \/ Fault(w), Steady(w),
         Told(w)
  PROVE  Told(w)'
  <1> DEFINE id == plan[w]
             steps == Plan[id].steps
             Lasts(i, s) ==
               \A j \in DOMAIN steps : i < j => ~Puts(steps[j], Reads[s])
  <1>1. plan' = plan /\ id \in PlanIds
    BY OwnStep DEF TypeOK
  <1>2. DOMAIN steps \subseteq Nat \ {0} /\ at[w] \in Nat
    BY <1>1, PlanAssumption DEF TypeOK
  <1>3. CASE GoesOn(w)
    <2> SUFFICES ASSUME pc'[w] = "run", faults' = 0, NEW s \in Svcs,
                        NEW i \in DOMAIN steps, i < at[w] + 1,
                        Teaches(id, steps[i], s), Lasts(i, s)
                 PROVE  Fits(s)'
      BY <1>1, <1>3 DEF Told, GoesOn, Running, Undoing
    <2>1. /\ Running(w) /\ Effect(w) /\ faults = 0 /\ pc[w] = "run"
          /\ Cur(w) = steps[at[w]] /\ at[w] \in DOMAIN steps
      BY <1>3 DEF GoesOn, Running, Cur, Todo
    <2>2. CASE i = at[w]
      BY <2>1, <2>2, FitKept
    <2>3. CASE i < at[w]
      <3>1. Fits(s)
        BY <2>1, <2>3 DEF Told
      <3>2. ~Puts(Cur(w), Reads[s])
        BY <2>1, <2>3
      <3>3. committed'[Reads[s]] = committed[Reads[s]]
        <4>1. Reads[s] \in Pkgs
          BY ShapeAssumption
        <4> QED
          BY <2>1, <3>2, <4>1
          DEF Puts, Effect, Edit, Commit, Restore, Service, ActIf, Act,
              Package, sys, TypeOK
      <3> QED
        BY <2>1, <3>1, <3>3, FitKept
    <2> QED
      BY <1>2, <2>2, <2>3
  <1>4. CASE StartsWriting(w)
    BY <1>1, <1>2, <1>4 DEF StartsWriting, Told
  <1>5. CASE GetsThrough(w)
    BY <1>1, <1>5 DEF GetsThrough, Told, Fits, sys
  <1>6. CASE GetsReady(w) \/ GivesUp(w) \/ FailsTheProbe(w) \/ Ended(w)
    BY <1>6 DEF GetsReady, GivesUp, FailsTheProbe, Ended, Told
  <1> QED
    BY OwnStep, <1>3, <1>4, <1>5, <1>6

LEMMA UnheardKept ==
  ASSUME TypeOK, NEW w \in Workers, Begin(w) \/ Step(w) \/ Fault(w), Blank(w),
         Unheard(w)
  PROVE  Unheard(w)'
  <1> DEFINE id == plan[w]
             steps == Plan[id].steps
             BeyondUndo(i) == /\ ~Plan[id].health
                              /\ \A j \in DOMAIN steps : i <= j => ~steps[j].must
  <1>1. plan' = plan /\ id \in PlanIds
    BY OwnStep DEF TypeOK
  <1>2. DOMAIN steps \subseteq Nat \ {0} /\ at[w] \in Nat
    BY <1>1, PlanAssumption DEF TypeOK
  <1>3. CASE GoesOn(w) /\ pc[w] = "run"
    <2>1. /\ Running(w)
          /\ Effect(w) \/ UNCHANGED sys
          /\ at[w] \in DOMAIN steps /\ Cur(w) = steps[at[w]]
          /\ pc'[w] = "run" /\ at'[w] = at[w] + 1
      BY <1>3 DEF GoesOn, Running, Cur, Todo
    <2> SUFFICES ASSUME NEW s \in Svcs, NEW ops \in Undos(id),
                        NeverTold(id, ops, s)
                 PROVE  loaded'[s] = {} \/ BeyondUndo(at[w] + 1)
      BY <1>1, <2>1 DEF Unheard, Undoing
    <2>2. CASE BeyondUndo(at[w])
      BY <1>2, <2>2
    <2>3. CASE loaded[s] = {} /\ ~BeyondUndo(at[w])
      <3>1. ~Loads(Cur(w), s)
        BY <2>1, <2>3 DEF NeverTold
      <3>2. loaded'[s] = loaded[s]
        BY <2>1, <3>1, Moves DEF sys
      <3> QED
        BY <2>3, <3>2
    <2> QED
      BY <1>3, <2>2, <2>3 DEF Unheard
  <1>4. CASE GoesOn(w) /\ pc[w] \in Undoing
    <2>1. /\ Running(w)
          /\ Effect(w) \/ UNCHANGED sys
          /\ Cur(w) \in Among(Todo(w)) /\ Todo(w)' = Todo(w)
          /\ pc'[w] = pc[w]
      BY <1>1, <1>4, OpAmong DEF GoesOn, Todo
    <2> SUFFICES ASSUME NEW s \in Svcs, NeverTold(id, Todo(w), s)
                 PROVE  loaded'[s] = {}
      BY <1>1, <1>4, <2>1 DEF Unheard, Undoing
    <2>2. loaded[s] = {}
      BY <1>4 DEF Unheard
    <2>3. ~Loads(Cur(w), s)
      BY <2>1 DEF NeverTold
    <2> QED
      BY <2>1, <2>2, <2>3, Moves DEF sys
  <1>5. CASE GivesUp(w)
    <2>1. /\ Running(w)
          /\ Effect(w) \/ UNCHANGED sys
          /\ at[w] \in DOMAIN steps /\ Cur(w) = steps[at[w]] /\ steps[at[w]].must
          /\ Todo(w)' = Plan[id].undo /\ pc[w] = "run" /\ pc'[w] = "undo"
      BY <1>1, <1>5 DEF GivesUp, Running, Cur, Todo
    <2> SUFFICES ASSUME NEW s \in Svcs, NeverTold(id, Plan[id].undo, s)
                 PROVE  loaded'[s] = {}
      BY <1>1, <2>1 DEF Unheard, Undoing
    <2>2. ~BeyondUndo(at[w])
      BY <1>2, <2>1
    <2>3. loaded[s] = {}
      BY <2>1, <2>2 DEF Unheard, Undos
    <2>4. ~Loads(Cur(w), s)
      BY <2>1, <2>2 DEF NeverTold
    <2> QED
      BY <2>1, <2>3, <2>4, Moves DEF sys
  <1>6. CASE FailsTheProbe(w)
    <2>1. /\ loaded' = loaded /\ Plan[id].health /\ pc[w] = "check"
          /\ pc'[w] = "unprobe" /\ Todo(w)' = Plan[id].unprobe
      BY <1>1, <1>6 DEF FailsTheProbe, Todo, Unheard, sys
    <2> QED
      BY <1>1, <2>1 DEF Unheard, Undoing, Undos
  <1>7. CASE StartsWriting(w)
    BY <1>1, <1>7 DEF StartsWriting, Unheard, Blank, Undoing, sys
  <1>8. CASE GetsThrough(w)
    BY <1>1, <1>8 DEF GetsThrough, Unheard, Undoing, sys
  <1>9. CASE GetsReady(w) \/ Ended(w)
    BY <1>9 DEF GetsReady, Ended, Unheard, Undoing
  <1> QED
    BY OwnStep, <1>3, <1>4, <1>5, <1>6, <1>7, <1>8, <1>9 DEF GoesOn, Running

LEMMA RetoldKept ==
  ASSUME RollbackInv, NEW w \in Workers, Begin(w) \/ Step(w) \/ Fault(w),
         Steady(w), Retold(w), Alone(w)
  PROVE  Retold(w)'
  <1> DEFINE id == plan[w]
  <1>1. TypeOK /\ plan' = plan
    BY OwnStep DEF RollbackInv
  <1>2. CASE GoesOn(w)
    <2> SUFFICES ASSUME PutsBack(id), pc'[w] \in Undoing, clean'[w],
                        NEW s \in Svcs,
                        NEW i \in DOMAIN Todo(w), NEW j \in DOMAIN Todo(w),
                        i < j, j < at[w] + 1,
                        Todo(w)[i].op = "restore", Todo(w)[i].on = Reads[s],
                        Teaches(id, Todo(w)[j], s)
                 PROVE  Fits(s)'
      <3>1. at'[w] = at[w] + 1 /\ Todo(w)' = Todo(w)
        BY <1>1, <1>2 DEF GoesOn, Todo
      <3> QED
        BY <1>1, <3>1 DEF Retold
    <2>1. /\ pc[w] \in Undoing /\ clean[w] /\ Effect(w) /\ Running(w)
          /\ Cur(w) = Todo(w)[at[w]] /\ Todo(w) \in Undos(id)
          /\ at[w] \in DOMAIN Todo(w)
      BY <1>1, <1>2, OpAmong DEF GoesOn, Undoing, Running, Cur
    <2>2. DOMAIN Todo(w) \subseteq Nat /\ at[w] \in Nat
      BY <1>1, TodoType DEF TypeOK
    <2>3. CASE j = at[w]
      BY <1>1, <2>1, <2>3, FitKept
    <2>4. CASE j < at[w]
      <3>1. Fits(s) /\ i < at[w]
        BY <2>1, <2>2, <2>4 DEF Retold
      <3>2. Reads[s] \in Pkgs
        BY ShapeAssumption
      <3>3. Reads[s] \in has[w] => committed[Reads[s]] = snap[w][Reads[s]]
        <4>1. Reads[s] \in has[w] => committed[Reads[s]] = before[w][Reads[s]]
          BY <2>1, <3>1 DEF RollbackInv, Follows, Restored, IsBack
        <4>2. Reads[s] \in has[w] => snap[w][Reads[s]] = before[w][Reads[s]]
          BY <2>1 DEF RollbackInv, Follows, Kept, Undoing, Busy
        <4> QED
          BY <4>1, <4>2
      <3>4. Cur(w).op \notin {"edit", "commit"}
        BY <2>1 DEF PutsBack
      <3>5. committed'[Reads[s]] = committed[Reads[s]]
        <4>1. CASE Restore(w)
          BY <1>1, <3>2, <3>3, <4>1 DEF Restore, TypeOK
        <4>2. CASE Service(w) \/ Package(w)
          BY <4>2 DEF Service, ActIf, Act, Package, sys
        <4> QED
          BY <2>1, <3>4, <4>1, <4>2 DEF Effect, Edit, Commit
      <3> QED
        BY <1>1, <2>1, <3>1, <3>5, FitKept
    <2> QED
      BY <2>2, <2>3, <2>4
  <1>3. CASE GivesUp(w) \/ FailsTheProbe(w)
    <2>1. at'[w] = 1 /\ Todo(w)' \in Undos(id) /\ id \in PlanIds
      BY <1>1, <1>3 DEF GivesUp, FailsTheProbe, Todo, Undos, TypeOK
    <2>2. \A j \in DOMAIN Todo(w)' : ~(j < at'[w])
      BY <2>1, PlanAssumption DEF Undos
    <2> QED
      BY <2>2 DEF Retold
  <1>4. CASE GetsReady(w) \/ StartsWriting(w) \/ GetsThrough(w) \/ Ended(w)
    BY <1>4 DEF GetsReady, StartsWriting, GetsThrough, Ended, Retold, Undoing
  <1> QED
    BY <1>1, OwnStep, <1>2, <1>3, <1>4

LEMMA ServicesInit == Init => ServicesInv
  <1> SUFFICES ASSUME Init, NEW w \in Workers PROVE Serves(w)
    BY RollbackInit, PendingInit DEF ServicesInv
  <1>1. Blank(w)
    BY DEF Init, Blank
  <1>2. Steady(w)
    BY DEF Init, Steady, AlwaysUp, AlwaysEnabled, EnabledIfUp, Working, Undoing
  <1>3. PutAgain(w) /\ Told(w) /\ Unheard(w) /\ Retold(w)
    BY DEF Init, PutAgain, Told, Unheard, Retold, Undoing
  <1> QED
    BY <1>1, <1>2, <1>3 DEF Serves

LEMMA ServicesStep ==
  ASSUME NEW only, Workers = {only}, ServicesInv, [Next]_vars
  PROVE  ServicesInv'
  <1>1. RollbackInv' /\ PendingInv'
    BY RollbackStep, PendingStep DEF ServicesInv
  <1>2. /\ only \in Workers /\ TypeOK /\ RollbackInv /\ Serves(only)
        /\ Alone(only)
    BY OnlyOneIsAlone DEF ServicesInv, RollbackInv
  <1>3. CASE Next
    <2>1. Begin(only) \/ Step(only) \/ Fault(only)
      BY <1>3 DEF Next
    <2>2. Serves(only)'
      BY <1>2, <2>1, BlankKept, SteadyKept, PutAgainKept, ToldKept, UnheardKept,
         RetoldKept
      DEF Serves
    <2> QED
      BY <1>1, <2>2 DEF ServicesInv
  <1>4. CASE UNCHANGED vars
    <2>1. UNCHANGED <<committed, staged, en, up, loaded, pc, plan, at, snap,
                      was, clean, faults>>
      BY <1>4 DEF vars
    <2>2. Todo(only)' = Todo(only) /\ \A s : Fits(s)' <=> Fits(s)
      BY <2>1 DEF Todo, Fits
    <2>3. Blank(only)' /\ Steady(only)' /\ Told(only)' /\ Unheard(only)'
      BY <1>2, <2>1, <2>2 DEF Serves, Blank, Steady, Told, Unheard
    <2>4. PutAgain(only)' /\ Retold(only)'
      BY <1>2, <2>1, <2>2 DEF Serves, PutAgain, Past, Retold
    <2> QED
      BY <1>1, <2>3, <2>4 DEF ServicesInv, Serves
  <1> QED
    BY <1>3, <1>4

(* A service whose package the handler does not write has read all there   *)
(* is to read.                                                             *)
LEMMA UneditedFits ==
  ASSUME ServicesInv, NEW w \in Workers, PutsBack(plan[w]), NEW s \in Svcs,
         Reads[s] \notin Edited(plan[w])
  PROVE  Fits(s)
  <1>1. Blank(w) /\ Reads[s] \in Pkgs
    BY ShapeAssumption DEF ServicesInv, Serves
  <1> QED
    BY <1>1 DEF Blank, Fits

(***************************************************************************)
(* With one handler at work at a time, a rollback no command of which      *)
(* failed ends with every service enabled and running as it was before the *)
(* handler wrote, for every handler of the catalogue but those that switch *)
(* services without looking.                                               *)
(***************************************************************************)
THEOREM HandlersPutServicesBackAlways ==
  ASSUME NEW only, Workers = {only}, Switched
  PROVE  Spec => HandlersPutServicesBack
  <1> DEFINE Back == \A w \in Under(Switching) : ServicesAsBefore(w)
  <1>1. ServicesInv /\ [Next]_vars => ServicesInv'
    BY ServicesStep
  <1>2. ServicesInv /\ [Next]_vars => [Back]_vars
    <2> SUFFICES ASSUME ServicesInv, Next, NEW w \in Under(Switching),
                        RollsBack(w)
                 PROVE  en' = was[w].en /\ up' = was[w].up
      BY DEF ServicesAsBefore
    <2> DEFINE id == plan[w]
    <2>1. w \in Workers /\ TypeOK /\ Steady(w) /\ PutAgain(w)
      BY DEF Under, ServicesInv, RollbackInv, Serves
    <2>2. /\ pc[w] \in Undoing /\ clean[w] /\ en' = en /\ up' = up
          /\ id \in PlanIds /\ Todo(w) \in Undos(id)
          /\ \A i \in DOMAIN Todo(w) : i < at[w]
      BY <2>1, RollbackLast
    <2>3. SwitchesBack(id) /\ pc[w] \in Working
      BY <2>2 DEF Switched, Under, Working
    <2>4. ASSUME NEW s \in Svcs PROVE s \in up <=> s \in was[w].up
      <3>1. CASE \E o \in Among(Plan[id].steps) : Switches(id, o, s)
        <4>1. \E o \in Among(Todo(w)) : o.op = "putRunning" /\ o.on = s
          BY <2>2, <2>3, <3>1 DEF SwitchesBack
        <4>2. Past(w, "putRunning", s)
          BY <2>2, <4>1 DEF Past, Among
        <4> QED
          BY <2>1, <2>2, <2>3, <4>2 DEF PutAgain
      <3>2. CASE ~\E o \in Among(Plan[id].steps) : Switches(id, o, s)
        <4>1. s \in UpIfWasUp(id)
          BY <2>3, <3>2 DEF UpIfWasUp, OpsOf, SwitchesBack
        <4> QED
          BY <2>1, <2>3, <4>1 DEF Steady
      <3> QED
        BY <3>1, <3>2
    <2>5. ASSUME NEW s \in Svcs PROVE s \in en <=> s \in was[w].en
      <3>1. CASE \E o \in Among(Plan[id].steps) : Relinks(id, o, s)
        <4>1. \E o \in Among(Todo(w)) : o.op = "putEnabled" /\ o.on = s
          BY <2>2, <2>3, <3>1 DEF SwitchesBack
        <4>2. Past(w, "putEnabled", s)
          BY <2>2, <4>1 DEF Past, Among
        <4> QED
          BY <2>1, <2>2, <2>3, <4>2 DEF PutAgain
      <3>2. CASE ~\E o \in Among(Plan[id].steps) : Relinks(id, o, s)
        <4>1. s \in LinkedIfWas(id)
          BY <2>3, <3>2 DEF LinkedIfWas, OpsOf, SwitchesBack
        <4> QED
          BY <2>1, <2>3, <4>1 DEF Steady
      <3> QED
        BY <3>1, <3>2
    <2>6. /\ en \subseteq Svcs /\ up \subseteq Svcs
          /\ was[w].en \subseteq Svcs /\ was[w].up \subseteq Svcs
      BY <2>1 DEF TypeOK
    <2> QED
      BY <2>2, <2>4, <2>5, <2>6
  <1> QED
    BY ServicesInit, <1>1, <1>2, PTL
    DEF Spec, HandlersPutServicesBack

LEMMA TellingIsCareful ==
  ASSUME Disciplined, Telling, TypeOK, NEW w \in Under(NotLive)
  PROVE  /\ w \in Workers /\ plan[w] \in PlanIds /\ PutsBack(plan[w])
         /\ TellsAll(plan[w]) /\ TakesBack(plan[w])
  BY DEF Disciplined, Telling, TypeOK, Under, NotLive

(***************************************************************************)
(* With one handler at work at a time, a rollback no command of which      *)
(* failed leaves no running service with the rejected change: each works   *)
(* with what the restored packages hold.  This is so of the handlers of    *)
(* the catalogue that reload, after they restored, what they may have told *)
(* of the change before.                                                   *)
(***************************************************************************)
THEOREM HandlersUndoInForceAlways ==
  ASSUME NEW only, Workers = {only}, Disciplined, Telling
  PROVE  Spec => HandlersUndoInForce
  <1> DEFINE InForce == \A w \in Under(NotLive) : UndoTakesEffect(w)
  <1>1. ServicesInv /\ [Next]_vars => ServicesInv'
    BY ServicesStep
  <1>2. ServicesInv /\ [Next]_vars => [InForce]_vars
    <2> SUFFICES ASSUME ServicesInv, Next, NEW w \in Under(NotLive),
                        RollsBack(w)
                 PROVE  Live(w)
      BY DEF UndoTakesEffect
    <2> DEFINE id == plan[w]
    <2>1. TypeOK /\ RollbackInv
      BY DEF ServicesInv, RollbackInv
    <2> SUFFICES ASSUME NEW s \in Svcs PROVE Fits(s)
      BY <2>1 DEF Live, Fits, TypeOK
    <2>2. w \in Workers /\ PutsBack(id) /\ TakesBack(id)
      BY <2>1, TellingIsCareful
    <2>3. Blank(w) /\ Unheard(w) /\ Retold(w) /\ Follows(w) /\ Alone(w)
      BY <2>2, OnlyOneIsAlone DEF ServicesInv, Serves, RollbackInv
    <2>4. /\ pc[w] \in Undoing /\ clean[w] /\ id \in PlanIds
          /\ Todo(w) \in Undos(id)
          /\ \A i \in DOMAIN Todo(w) : i < at[w]
      BY <2>1, <2>2, RollbackLast
    <2>5. CASE Reads[s] \notin Edited(id)
      BY <2>2, <2>5, UneditedFits
    <2>6. CASE TellsAgain(id, Todo(w), s)
      BY <2>2, <2>3, <2>4, <2>6 DEF TellsAgain, Retold
    <2>7. CASE NeverTold(id, Todo(w), s) /\ Reads[s] \in Edited(id)
      <3>1. loaded[s] = {}
        BY <2>3, <2>4, <2>7 DEF Unheard
      <3>2. Reads[s] \in Pkgs
        BY ShapeAssumption
      <3>3. Reads[s] \in has[w]
        <4>1. pc[w] \in Busy \ {"snap"}
          BY <2>4 DEF Busy, Undoing
        <4>2. Exports(id, {Reads[s]})
          BY <2>7 DEF NeverTold
        <4> QED
          BY <2>1, <2>2, <4>1, <4>2, HoldsExports
      <3>4. Reads[s] \in Footprint(id)
        BY <2>7 DEF Footprint, Touched, Edited, Among
      <3>5. PICK i \in DOMAIN Todo(w) :
              Todo(w)[i].op = "restore" /\ Todo(w)[i].on = Reads[s]
        BY <2>2, <2>4, <3>4 DEF PutsBack
      <3>6. committed[Reads[s]] = before[w][Reads[s]]
        BY <2>2, <2>3, <2>4, <3>3, <3>5 DEF Follows, Restored, IsBack
      <3>7. snap[w][Reads[s]] = before[w][Reads[s]]
        BY <2>3, <2>4, <3>3 DEF Follows, Kept, Busy, Undoing
      <3> QED
        BY <2>3, <3>1, <3>2, <3>6, <3>7 DEF Blank, Fits
    <2> QED
      BY <2>2, <2>4, <2>5, <2>6, <2>7 DEF TakesBack
  <1> QED
    BY ServicesInit, <1>1, <1>2, PTL
    DEF Spec, HandlersUndoInForce

(***************************************************************************)
(* With one handler at work at a time, a handler that answers success has  *)
(* committed all its edits, whatever failed on the way, and if nothing did *)
(* every running service works with them: the handlers of the catalogue    *)
(* that reload each reader after the last commit of what it reads.         *)
(***************************************************************************)
THEOREM HandlersTakeEffectAlways ==
  ASSUME NEW only, Workers = {only}, Disciplined, Committing, Telling
  PROVE  Spec => HandlersTakeEffect
  <1> DEFINE Done == \A w \in Under(NotLive) : TakesEffect(w)
             Committed == \A w \in Under(Lenient) : CommitsAll(w)
  <1>1. ServicesInv /\ [Next]_vars => ServicesInv'
    BY ServicesStep
  <1>2. ServicesInv /\ Committed' /\ [Next]_vars => [Done]_vars
    <2> SUFFICES ASSUME ServicesInv, Committed', Next, NEW w \in Under(NotLive),
                        Ends(w, "done")
                 PROVE  CommitsAll(w)' /\ (faults = 0 => Live(w))
      BY DEF TakesEffect
    <2> DEFINE id == plan[w]
               steps == Plan[id].steps
    <2>1. TypeOK /\ PendingInv
      BY DEF ServicesInv, PendingInv
    <2>2. w \in Workers /\ id \in PlanIds /\ PutsBack(id) /\ TellsAll(id)
      BY <2>1, TellingIsCareful
    <2>3. Told(w) /\ Through(w)
      BY <2>2 DEF ServicesInv, Serves, PendingInv
    <2>4. /\ Applied(w) \/ Healthy(w)
          /\ plan' = plan
      <3>1. PICK v \in Workers : Begin(v) \/ Step(v) \/ Fault(v)
        BY DEF Next
      <3>2. v = w
        BY <2>1, <2>2, <3>1, OthersKeep DEF Ends
      <3> QED
        BY <2>1, <3>1, <3>2
        DEF Ends, TypeOK, Step, Fault, Begin, Snapshot, Prepare, OpOk,
            Applied, Healthy, Undone, SnapshotFails, OpFails, Unhealthy
    <2>5. w \in Under(Lenient)'
      BY <2>4 DEF Under, NotLive, Careless
    <2>6. /\ pc[w] \in {"run", "check"}
          /\ \A i \in DOMAIN steps : i < at[w]
      <3>1. pc[w] \in {"run", "check"} /\ at[w] \notin DOMAIN steps
        BY <2>3, <2>4 DEF Applied, Healthy, Through
      <3>2. /\ at[w] \in Nat \ {0} /\ DOMAIN steps = 1 .. Len(steps)
            /\ Len(steps) \in Nat
        BY <2>1, <2>2, PlanAssumption DEF TypeOK
      <3> QED
        BY <3>1, <3>2
    <2>7. ASSUME faults = 0, NEW s \in Svcs PROVE Fits(s)
      <3>1. CASE Reads[s] \in Edited(id)
        BY <2>2, <2>3, <2>6, <2>7, <3>1 DEF TellsAll, Told
      <3>2. CASE Reads[s] \notin Edited(id)
        BY <2>2, <3>2, UneditedFits
      <3> QED
        BY <3>1, <3>2
    <2> QED
      BY <2>1, <2>5, <2>7 DEF Live, Fits, TypeOK
  <1>3. Spec => []Committed
    BY HandlersCommitAll
  <1> QED
    BY ServicesInit, <1>1, <1>2, <1>3, PTL
    DEF Spec, HandlersTakeEffect

-----------------------------------------------------------------------------
(***************************************************************************)
(* A change is atomic: ConfigTx implements AtomicChange, where the         *)
(* handlers that meet on a package are tangled.  That a change which did   *)
(* not succeed is not there, and that nobody touches the edits of one that *)
(* met nobody, is in MarksInv; that one which succeeded is there as a      *)
(* whole needs in addition that each edit it has come past is still there  *)
(* (Made).                                                                 *)
(***************************************************************************)

(* A handler that exports what it writes and puts back all it touches; the *)
(* ones that are WellGuarded are among them.                               *)
Sound(id) == PutsBack(id) /\ Exports(id, Written(id))
LEMMA GuardedIsSound == ASSUME NEW id, WellGuarded(id) PROVE Sound(id)
  BY DEF WellGuarded, Sound, Exports, Written, Footprint

Made(w) ==
  OnlyWrites(plan[w]) /\ pc[w] \in {"run", "check"} /\ Alone(w) =>
    \A i \in Required(plan[w]) :
      i < at[w] => <<w, i>> \in Visible(Plan[plan[w]].steps[i].on)

AtomicInv == MarksInv /\ PendingInv /\ \A w \in Workers : Made(w)

LEMMA OthersMade ==
  ASSUME MarksInv, NEW v \in Workers, NEW w \in Workers, v # w,
         Begin(v) \/ Step(v) \/ Fault(v), Made(w)
  PROVE  Made(w)'
  <1> DEFINE id == plan[w]
  <1>1. TypeOK /\ Unmixed(v, w)
    BY DEF MarksInv, RollbackInv, Marks
  <1>2. /\ pc'[w] = pc[w] /\ plan' = plan /\ at'[w] = at[w] /\ id \in PlanIds
        /\ Alone(w)' => Alone(w)
    BY <1>1, OthersKeep, MetGrows DEF TypeOK, Alone
  <1>3. Alone(w) => \A p \in Pkgs :
          Visible(p)' \cap MarksOf(w) = Visible(p) \cap MarksOf(w)
    BY <1>1, OthersMarks, AloneIsSpared
  <1>4. \A i \in Required(id) : Plan[id].steps[i].on \in Pkgs /\ i \in Nat
    BY <1>2, TargetAssumption, PlanAssumption DEF Required
  <1>5. ASSUME Alone(w), NEW i \in Required(id), NEW p \in Pkgs,
               <<w, i>> \in Visible(p)
        PROVE  <<w, i>> \in Visible(p)'
    <2>1. <<w, i>> \in MarksOf(w)
      BY <1>4 DEF MarksOf
    <2> QED
      BY <1>3, <1>5, <2>1
  <1> QED
    BY <1>2, <1>4, <1>5 DEF Made, Visible

LEMMA OwnMade ==
  ASSUME TypeOK, NEW w \in Workers, Begin(w) \/ Step(w) \/ Fault(w), Made(w)
  PROVE  Made(w)'
  <1> DEFINE id == plan[w]
             steps == Plan[id].steps
  <1>1. plan' = plan /\ id \in PlanIds /\ (Alone(w)' => Alone(w))
    BY OwnStep, MetGrows DEF TypeOK, Alone
  <1>2. /\ DOMAIN steps \subseteq Nat \ {0} /\ at[w] \in Nat
        /\ \A i \in Required(id) : steps[i].on \in Pkgs /\ i \in DOMAIN steps
    BY <1>1, PlanAssumption, TargetAssumption DEF TypeOK, Required
  <1>3. CASE OpOk(w) \/ OpFails(w)
    <2> SUFFICES ASSUME OnlyWrites(id), pc'[w] \in {"run", "check"}, Alone(w),
                        NEW i \in Required(id), i < at'[w],
                        NEW p \in Pkgs, p = steps[i].on
                 PROVE  <<w, i>> \in Visible(p)'
      BY <1>1, <1>2 DEF Made, Visible
    <2>1. /\ pc[w] = "run" /\ at'[w] = at[w] + 1 /\ Running(w)
          /\ Effect(w) \/ (UNCHANGED sys /\ ~Cur(w).must)
          /\ Cur(w) = steps[at[w]] /\ at[w] \in DOMAIN steps
      BY <1>3 DEF OpOk, OpFails, Running, Cur, Todo, Undoing, TypeOK
    <2>2. Cur(w).op # "restore"
      BY <2>1 DEF OnlyWrites
    <2>3. CASE i = at[w]
      <3>1. Cur(w).op = "edit" /\ Cur(w).must
        BY <2>1, <2>3 DEF Required
      <3>2. Edit(w)
        BY <2>1, <3>1 DEF Effect, Commit, Restore, Service, Package
      <3> QED
        BY <1>2, <2>1, <2>3, <3>2 DEF Edit, Visible, TypeOK
    <2>4. CASE i < at[w]
      <3>1. <<w, i>> \in Visible(p)
        BY <2>1, <2>4 DEF Made
      <3>2. CASE UNCHANGED sys
        BY <3>1, <3>2 DEF sys, Visible
      <3>3. CASE Edit(w)
        BY <1>2, <3>1, <3>3 DEF Edit, Visible, TypeOK
      <3>4. CASE Commit(w)
        BY <1>2, <3>1, <3>4 DEF Commit, Visible, TypeOK
      <3>5. CASE Service(w) \/ Package(w)
        BY <3>1, <3>5 DEF Service, ActIf, Act, Package, sys, Visible
      <3> QED
        BY <2>1, <2>2, <3>2, <3>3, <3>4, <3>5 DEF Effect, Restore
    <2> QED
      BY <1>2, <2>1, <2>3, <2>4
  <1>4. CASE Prepare(w)
    BY <1>1, <1>2, <1>4 DEF Prepare, Made, TypeOK
  <1>5. CASE Applied(w)
    BY <1>1, <1>5 DEF Applied, Made, Visible, sys, TypeOK
  <1>6. CASE \/ Begin(w) \/ Snapshot(w) \/ Healthy(w) \/ Undone(w)
             \/ SnapshotFails(w) \/ Unhealthy(w)
    BY <1>6 DEF Begin, Snapshot, Healthy, Undone, SnapshotFails, Unhealthy,
                Made, TypeOK, Undoing
  <1> QED
    BY <1>3, <1>4, <1>5, <1>6 DEF Step, Fault

LEMMA AtomicInit == Init => AtomicInv
  BY MarksInit, PendingInit DEF AtomicInv, Made, Init

LEMMA AtomicStep == AtomicInv /\ [Next]_vars => AtomicInv'
  <1> SUFFICES ASSUME AtomicInv, [Next]_vars PROVE AtomicInv'
    OBVIOUS
  <1>1. MarksInv' /\ PendingInv'
    BY MarksStep, PendingStep DEF AtomicInv
  <1>2. CASE Next
    <2>1. PICK v \in Workers : Begin(v) \/ Step(v) \/ Fault(v)
      BY <1>2 DEF Next
    <2>2. \A w \in Workers : Made(w)'
      BY <2>1, OthersMade, OwnMade DEF AtomicInv, PendingInv
    <2> QED
      BY <1>1, <2>2 DEF AtomicInv
  <1>3. CASE UNCHANGED vars
    <2>1. \A w \in Workers : Made(w)'
      BY <1>3, SMTT(60) DEF vars, AtomicInv, Made, Visible, Alone
    <2> QED
      BY <1>1, <2>1 DEF AtomicInv
  <1> QED
    BY <1>2, <1>3

(* The phases a worker goes through by its own step.                       *)
Concludes(w) ==
  pc'[w] = "done" /\ pc[w] \in {"run", "check"} /\ UNCHANGED <<sys, at>>

LEMMA OwnPhase ==
  ASSUME TypeOK, NEW w \in Workers, Begin(w) \/ Step(w) \/ Fault(w)
  PROVE  \/ pc[w] = "idle" /\ pc'[w] = "snap" /\ UNCHANGED sys
         \/ /\ pc[w] \in Busy
            /\ pc'[w] \in Busy \cup {"undone", "refused"} \/ Concludes(w)
  <1>1. CASE Begin(w)
    BY <1>1 DEF Begin, TypeOK
  <1>2. CASE ~Begin(w)
    <2>1. pc[w] \in Busy
      BY <1>2 DEF Step, Fault, Busy, Undoing, Running, Snapshot, Prepare, OpOk,
                  Applied, Healthy, Undone, SnapshotFails, OpFails, Unhealthy
    <2>2. pc'[w] \in Busy \cup {"undone", "refused"} \/ Concludes(w)
      <3>1. CASE pc' = pc
        BY <2>1, <3>1
      <3>2. CASE pc' # pc
        BY <1>2, <3>2
        DEF TypeOK, Busy, Concludes, Step, Fault, Snapshot, Prepare, OpOk,
            Applied, Healthy, Undone, SnapshotFails, OpFails, Unhealthy
      <3> QED
        BY <3>1, <3>2
    <2> QED
      BY <2>1, <2>2
  <1> QED
    BY <1>1, <1>2

(* The edits of a worker whose change is neither under way nor tangled are *)
(* seen, and those of the others do not change by its step.                *)
LEMMA SeenKept ==
  ASSUME AtomicInv, NEW v \in Workers, Begin(v) \/ Step(v) \/ Fault(v),
         NEW p \in Pkgs, NEW m \in Mark, m[1] # v
  PROVE  m \in Seen'[p] <=> m \in Seen[p]
  <1> DEFINE w == m[1]
  <1>1. w \in Workers /\ m \in MarksOf(w)
    BY DEF Mark, MarksOf
  <1>2. TypeOK /\ Unmixed(v, w)
    BY <1>1 DEF AtomicInv, MarksInv, RollbackInv, Marks
  <1>3. pc'[w] = pc[w]
    BY <1>1, <1>2, OthersKeep
  <1>4. pc[w] \notin Busy => (Alone(w)' <=> Alone(w))
    <2>1. pc[w] \notin Busy => w \notin Near(v)
      BY DEF Near
    <2> QED
      BY <1>1, <1>2, <2>1, MetGrows DEF Alone
  <1>5. Alone(w) => (m \in Visible(p)' <=> m \in Visible(p))
    BY <1>1, <1>2, OthersMarks, AloneIsSpared
  <1>6. m \in Seen[p] <=> m \in Visible(p) /\ pc[w] \notin Busy /\ Alone(w)
    BY DEF Seen
  <1>7. m \in Seen'[p] <=> m \in Visible(p)' /\ pc'[w] \notin Busy /\ Alone(w)'
    BY DEF Seen, Alone
  <1> QED
    BY <1>3, <1>4, <1>5, <1>6, <1>7

LEMMA SeenType ==
  ASSUME TypeOK, NEW p \in Pkgs PROVE Seen[p] \subseteq Mark
  BY DEF TypeOK, Content, Seen, Visible

(***************************************************************************)
(* What a step of v does to what the others see: nothing while v is at     *)
(* work or tangled, nothing when its change came to nothing, and else only *)
(* edits of v arrive.                                                      *)
(***************************************************************************)
LEMMA SeenStep ==
  ASSUME AtomicInv, AtomicInv', NEW v \in Workers,
         Begin(v) \/ Step(v) \/ Fault(v), Sound(plan[v])
  PROVE  /\ pc'[v] \in Busy \/ Rejected(v)' \/ ~Alone(v)' => Seen' = Seen
         /\ Change!Arrives(v)
  <1>1. TypeOK /\ TypeOK' /\ plan' = plan
    BY OwnStep DEF AtomicInv, PendingInv
  <1>2. ASSUME NEW p \in Pkgs, NEW m \in Seen[p] PROVE m[1] # v
    <2> SUFFICES ASSUME m[1] = v PROVE FALSE
      OBVIOUS
    <2>1. pc[v] \notin Busy /\ m \in Visible(p)
      BY <1>2 DEF Seen
    <2>2. pc[v] = "idle"
      BY <1>1, <2>1, OwnPhase
    <2>3. ~Holds(p, v)
      BY <1>2, <2>2, HoldsBears DEF AtomicInv, MarksInv, Marks, Unwritten
    <2>4. m \in MarksOf(v)
      BY <1>1, <1>2, SeenType DEF Mark, MarksOf
    <2> QED
      BY <2>1, <2>3, <2>4 DEF Holds
  <1>3. ASSUME NEW p \in Pkgs
        PROVE  /\ Seen[p] \subseteq Seen'[p]
               /\ Seen'[p] \ Seen[p] \subseteq MarksOf(v)
    <2>1. Seen[p] \subseteq Mark /\ Seen'[p] \subseteq Mark
      <3>1. /\ committed[p] \subseteq Mark /\ staged[p] \subseteq Mark
            /\ committed'[p] \subseteq Mark /\ staged'[p] \subseteq Mark
        BY <1>1 DEF TypeOK, Content
      <3> QED
        BY <3>1 DEF Seen, Visible
    <2>2. \A m \in Seen[p] : m \in Seen'[p]
      BY <1>2, <2>1, SeenKept
    <2>3. \A m \in Seen'[p] : m \in Seen[p] \/ m[1] = v
      BY <2>1, SeenKept
    <2>4. \A m \in Mark : m[1] = v => m \in MarksOf(v)
      BY DEF Mark, MarksOf
    <2> QED
      BY <2>1, <2>2, <2>3, <2>4
  <1>4. ASSUME pc'[v] \in Busy \/ Rejected(v)' \/ ~Alone(v)', NEW p \in Pkgs
        PROVE  Seen'[p] = Seen[p]
    <2>1. \A m \in Seen'[p] : m \notin MarksOf(v)
      <3>1. CASE pc'[v] \in Busy \/ ~Alone(v)'
        <4>1. \A m \in MarksOf(v) : m[1] = v
          BY DEF MarksOf
        <4> QED
          BY <3>1, <4>1 DEF Seen, Alone
      <3>2. CASE Rejected(v)' /\ Alone(v)'
        <4>1. Careful(v)'
          <5>1. plan'[v] = plan[v]
            BY <1>1
          <5> QED
            BY <5>1 DEF Sound, Careful, PutsBack, Exports, Written, Undos, Footprint
        <4>2. ~Holds(p, v)'
          BY <3>2, <4>1 DEF AtomicInv, MarksInv, Marks, Spotless, LeavesNo
        <4> QED
          BY <4>2 DEF Holds, Seen
      <3> QED
        BY <1>4, <3>1, <3>2
    <2> QED
      BY <1>3, <2>1
  <1> QED
    BY <1>3, <1>4 DEF Seen, Change!Arrives, Change!Edits, MarksOf

(* A handler that has come to its end with success has made all of its     *)
(* change.                                                                 *)
LEMMA AllOfIt ==
  ASSUME AtomicInv, AtomicInv', NEW v \in Workers, plan' = plan,
         Concludes(v), OnlyWrites(plan[v]), Alone(v), Alone(v)',
         NEW c \in Request[v]
  PROVE  <<v, c[2]>> \in Seen'[c[1]]
  <1> DEFINE id == plan[v]
             steps == Plan[id].steps
  <1>1. id \in PlanIds /\ at[v] \in Nat \ {0}
    BY DEF AtomicInv, PendingInv, TypeOK
  <1>2. PICK i \in Required(id) : c = <<steps[i].on, i>>
    BY DEF Request
  <1>3. /\ DOMAIN steps = 1 .. Len(steps) /\ Len(steps) \in Nat
        /\ i \in DOMAIN steps /\ steps[i].on \in Pkgs
    BY <1>1, PlanAssumption, TargetAssumption DEF Required
  <1>4. at[v] \notin DOMAIN steps
    BY DEF AtomicInv, PendingInv, Through, Concludes
  <1>5. i < at[v]
    BY <1>1, <1>3, <1>4
  <1>6. <<v, i>> \in Visible(steps[i].on)
    BY <1>5 DEF AtomicInv, Made, Concludes
  <1>7. <<v, i>> \in Visible(steps[i].on)'
    BY <1>3, <1>6 DEF Concludes, sys, Visible
  <1>8. <<v, i>>[1] = v /\ pc'[v] \notin Busy /\ met'[v] = {}
    BY DEF Concludes, Busy, Alone
  <1> QED
    BY <1>2, <1>3, <1>7, <1>8 DEF Seen, Alone

LEMMA ChangeStep ==
  ASSUME AtomicInv, AtomicInv', NEW v \in Workers,
         Begin(v) \/ Step(v) \/ Fault(v),
         Sound(plan[v]), OnlyWrites(plan[v])
  PROVE  Change!Next \/ UNCHANGED Change!vars
  <1> DEFINE Becomes(o) == Outcome' = [Outcome EXCEPT ![v] = o]
  <1>1. TypeOK /\ TypeOK' /\ plan' = plan
    BY OwnStep DEF AtomicInv, PendingInv
  <1>2. Request' = Request
    BY <1>1 DEF Request
  <1>3. \A w \in Workers \ {v} : w \notin Near(v) => Outcome'[w] = Outcome[w]
    <2> SUFFICES ASSUME NEW w \in Workers \ {v}, w \notin Near(v)
                 PROVE  Outcome'[w] = Outcome[w]
      OBVIOUS
    <2>1. pc'[w] = pc[w] /\ clean'[w] = clean[w]
      BY <1>1, OthersKeep
    <2>2. met'[w] = met[w]
      BY <1>1, MetGrows
    <2> QED
      BY <2>1, <2>2 DEF Outcome, Alone
  <1>4. ASSUME ~Begin(v) PROVE met' = met /\ Becomes(Outcome'[v])
    <2>1. met' = met
      BY <1>1, <1>4, MetGrows
    <2>2. \A w \in Workers \ {v} : pc'[w] = pc[w] /\ clean'[w] = clean[w]
      BY <1>1, OthersKeep
    <2>3. \A w \in Workers \ {v} : Outcome'[w] = Outcome[w]
      BY <2>1, <2>2 DEF Outcome, Alone
    <2> QED
      BY <2>1, <2>3 DEF Outcome
  <1>5. CASE Begin(v)
    <2>1. /\ pc[v] = "idle" /\ pc'[v] = "snap" /\ Alone(v) /\ v \notin Near(v)
          /\ \A w \in Workers \ {v} : pc'[w] = pc[w] /\ clean'[w] = clean[w]
      BY <1>1, <1>5, OthersKeep
      DEF Begin, TypeOK, AtomicInv, MarksInv, RollbackInv, Follows, Fresh, Near,
          Busy
    <2>2. /\ met'[v] = met[v] \cup Near(v)
          /\ \A w \in Workers \ {v} :
               met'[w] = IF w \in Near(v) THEN met[w] \cup {v} ELSE met[w]
      BY <1>1, <1>5, MetGrows
    <2>3. Seen' = Seen
      BY <2>1, SeenStep DEF Busy
    <2>4. CASE Near(v) = {}
      <3>1. Outcome[v] = "idle" /\ Outcome'[v] = "working"
        BY <2>1, <2>2, <2>4 DEF Outcome, Busy, Alone
      <3>2. Becomes("working")
        BY <1>3, <2>4, <3>1 DEF Outcome
      <3>3. Change!Begin(v)
        BY <1>2, <2>3, <3>1, <3>2 DEF Change!Begin, Change!Moves
      <3> QED
        BY <3>3 DEF Change!Next
    <2>5. CASE Near(v) # {}
      <3> DEFINE meeting == {v} \cup {w \in Near(v) : Alone(w)}
      <3>1. Near(v) \subseteq Workers /\ \A w \in Near(v) : pc[w] \in Busy
        BY DEF Near
      <3>2. meeting \in SUBSET Workers
        BY <3>1
      <3>3. \A w \in meeting : Outcome[w] \in {"idle", "working"}
        <4>1. Outcome[v] = "idle"
          BY <2>1 DEF Outcome, Busy
        <4>2. \A w \in Near(v) : Alone(w) => Outcome[w] = "working"
          BY <3>1 DEF Outcome
        <4> QED
          BY <4>1, <4>2
      <3>4. ASSUME NEW w \in Workers
            PROVE  Outcome'[w] = IF w \in meeting THEN "tangled" ELSE Outcome[w]
        <4>1. CASE w = v
          BY <2>2, <2>5, <4>1 DEF Outcome, Alone
        <4>2. CASE w # v /\ w \in Near(v)
          <5>1. Outcome'[w] = "tangled"
            BY <2>2, <4>2 DEF Outcome, Alone
          <5>2. ~Alone(w) => Outcome[w] = "tangled"
            BY DEF Outcome
          <5> QED
            BY <4>2, <5>1, <5>2
        <4>3. CASE w # v /\ w \notin Near(v)
          BY <1>3, <4>3
        <4> QED
          BY <4>1, <4>2, <4>3
      <3>5. Outcome' = [w \in Workers |->
                          IF w \in meeting THEN "tangled" ELSE Outcome[w]]
        <4>1. Outcome' = [w \in Workers |-> Outcome'[w]]
          BY DEF Outcome
        <4> QED
          BY <3>4, <4>1
      <3>6. Change!Tangle(meeting)
        BY <1>2, <2>3, <3>3, <3>5 DEF Change!Tangle
      <3> QED
        BY <3>2, <3>6 DEF Change!Next
    <2> QED
      BY <2>4, <2>5
  <1>6. CASE ~Begin(v) /\ ~Alone(v)
    <2>1. ~Alone(v)'
      BY <1>4, <1>6 DEF Alone
    <2>2. Outcome'[v] = Outcome[v]
      BY <1>6, <2>1 DEF Outcome, Alone
    <2>3. Outcome' = Outcome
      BY <1>4, <1>6, <2>2 DEF Outcome
    <2>4. Seen' = Seen
      BY <2>1, SeenStep
    <2> QED
      BY <1>2, <2>3, <2>4 DEF Change!vars
  <1>7. CASE ~Begin(v) /\ Alone(v)
    <2>1. met'[v] = {} /\ Becomes(Outcome'[v]) /\ Alone(v)'
      BY <1>4, <1>7 DEF Alone
    <2>2. CASE pc[v] \in Busy /\ pc'[v] \in Busy
      <3>1. Outcome[v] = "working" /\ Outcome'[v] = "working" /\ Seen' = Seen
        BY <1>7, <2>1, <2>2, SeenStep DEF Outcome, Alone
      <3>2. Outcome = [w \in Workers |-> Outcome[w]]
        BY DEF Outcome
      <3>3. Outcome' = Outcome
        BY <2>1, <3>1, <3>2
      <3> QED
        BY <1>2, <3>1, <3>3 DEF Change!vars
    <2>3. CASE pc[v] \in Busy /\ pc'[v] \in {"undone", "refused"}
      <3>1. Outcome[v] = "working"
        BY <1>7, <2>3 DEF Outcome
      <3>2. CASE Rejected(v)'
        <4>1. Outcome'[v] = "failed" /\ Seen' = Seen
          BY <2>1, <2>3, <3>2, SeenStep DEF Outcome, Rejected, Busy, Alone
        <4>2. Change!Fail(v)
          BY <1>2, <2>1, <3>1, <4>1 DEF Change!Fail, Change!Moves
        <4> QED
          BY <4>2 DEF Change!Next
      <3>3. CASE ~Rejected(v)'
        <4>1. Outcome'[v] = "broken" /\ Change!Arrives(v)
          BY <2>1, <2>3, <3>3, SeenStep DEF Outcome, Rejected, Busy, Alone
        <4>2. Change!Break(v)
          BY <1>2, <2>1, <3>1, <4>1 DEF Change!Break, Change!Moves
        <4> QED
          BY <4>2 DEF Change!Next
      <3> QED
        BY <3>2, <3>3
    <2>4. CASE Concludes(v)
      <3>1. Outcome[v] = "working" /\ Outcome'[v] = "done"
        BY <1>7, <2>1, <2>4 DEF Outcome, Concludes, Busy, Alone
      <3>2. \A c \in Request[v] : <<v, c[2]>> \in Seen'[c[1]]
        BY <1>1, <1>7, <2>1, <2>4, AllOfIt
      <3>3. Change!Succeed(v)
        BY <1>2, <2>1, <3>1, <3>2, SeenStep DEF Change!Succeed, Change!Moves
      <3> QED
        BY <3>3 DEF Change!Next
    <2>5. pc[v] \in Busy
      BY <1>7 DEF Step, Fault, Busy, Undoing, Running, Snapshot, Prepare, OpOk,
                  Applied, Healthy, Undone, SnapshotFails, OpFails, Unhealthy
    <2> QED
      BY <1>1, <2>2, <2>3, <2>4, <2>5, OwnPhase DEF Busy
  <1> QED
    BY <1>5, <1>6, <1>7

(***************************************************************************)
(* README.md 52-54, of all the write handlers together: where each exports *)
(* what it writes and puts it back, every change of a handler that meets   *)
(* no other on its packages is made as a whole or not at all and stays,    *)
(* unless a command of its rollback failed, while the others overlap, fail *)
(* and roll back as they may.                                              *)
(***************************************************************************)
THEOREM ChangesAreAtomic ==
  ASSUME \A id \in PlanIds : Sound(id) /\ OnlyWrites(id)
  PROVE  Spec => IsAtomic
  <1>1. Init => Change!Init
    <2> SUFFICES ASSUME Init PROVE Change!Init
      OBVIOUS
    <2>1. Seen = [p \in Pkgs |-> {}]
      BY DEF Init, Seen, Visible
    <2>2. Outcome = [w \in Workers |-> "idle"]
      BY DEF Init, Outcome, Busy, Alone
    <2>3. Request \in [Workers -> SUBSET (Pkgs \X Nat)]
      <3>1. ASSUME NEW w \in Workers, NEW i \in Required(plan[w])
            PROVE  <<Plan[plan[w]].steps[i].on, i>> \in Pkgs \X Nat
        <4>1. plan[w] \in PlanIds
          BY DEF Init
        <4> QED
          BY <4>1, PlanAssumption, TargetAssumption DEF Required
      <3> QED
        BY <3>1 DEF Request
    <2> QED
      BY <2>1, <2>2, <2>3 DEF Change!Init
  <1>2. AtomicInv /\ AtomicInv' /\ [Next]_vars
          => [Change!Next]_(Change!vars)
    <2> SUFFICES ASSUME AtomicInv, AtomicInv', [Next]_vars
                 PROVE  Change!Next \/ UNCHANGED Change!vars
      OBVIOUS
    <2>1. CASE UNCHANGED vars
      <3>1. Seen' = Seen
        BY <2>1 DEF vars, Seen, Visible, Alone
      <3>2. Outcome' = Outcome /\ Request' = Request
        BY <2>1 DEF vars, Outcome, Request, Alone
      <3> QED
        BY <3>1, <3>2 DEF Change!vars
    <2>2. CASE Next
      <3>1. PICK v \in Workers : Begin(v) \/ Step(v) \/ Fault(v)
        BY <2>2 DEF Next
      <3>2. plan[v] \in PlanIds
        BY DEF AtomicInv, PendingInv, TypeOK
      <3> QED
        BY <3>1, <3>2, ChangeStep
    <2> QED
      BY <2>1, <2>2
  <1> QED
    BY AtomicInit, AtomicStep, <1>1, <1>2, PTL
    DEF Spec, IsAtomic, Change!Spec
=============================================================================
