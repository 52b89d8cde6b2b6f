-------------------------- MODULE ReadCacheProofs ---------------------------
(***************************************************************************)
(* What ReadCache promises for any number of pollers, entries and changes  *)
(* and any TTL: its type, that no read returns what the package held       *)
(* before the InvalidateKey that preceded it, and what a handler that      *)
(* invalidates again after its write can rely on.                          *)
(***************************************************************************)
EXTENDS ReadCache, TLAPS

USE DEF Procs

LEMMA ShownParts ==
  /\ Nothing \in Shown /\ ~Nothing.ok
  /\ TTL \in Nat /\ TTL \in 0..TTL /\ 0 \in 0..TTL
  /\ NewEntry \in [value : Shown, age : 0..TTL]
  /\ NewEntry.value = Nothing /\ NewEntry.age = TTL
  BY CacheAssumption DEF Nothing, NewEntry, Shown

(* A free address is an address that nobody holds.                         *)
LEMMA FreeEntry ==
  ASSUME Free # {}
  PROVE  /\ (CHOOSE e \in Free : TRUE) \in Entries \ {slot}
         /\ \A p \in Procs : mine[p] # CHOOSE e \in Free : TRUE
  <1>1. (CHOOSE e \in Free : TRUE) \in Free
    OBVIOUS
  <1> QED
    BY <1>1 DEF Free
-----------------------------------------------------------------------------
(* Who is in CachedRead has looked up an entry, and keeps it to the end.   *)
Holding == \A p \in Procs : pc[p] # "idle" => mine[p] \in Entries

Typed == TypeOK /\ Holding

LEMMA LookupType ==
  ASSUME Typed, NEW p \in Procs, Lookup(p)
  PROVE  /\ slot' \in Entries \cup {None} /\ mine'[p] = slot' /\ slot' \in Entries
         /\ entry' \in [Entries -> [value : Shown, age : 0..TTL]]
         /\ owner' = owner /\ got' = got /\ dropped' = dropped
         /\ pc' \in [Procs -> {"idle", "lock", "show", "store", "back"}]
         /\ mine' \in [Procs -> Entries \cup {None}]
         /\ floor' \in [Procs -> Nat]
         /\ Holding'
  <1>1. slot' \in Entries
    BY FreeEntry DEF Lookup, Typed, TypeOK
  <1>2. entry' \in [Entries -> [value : Shown, age : 0..TTL]]
    BY <1>1, ShownParts DEF Lookup, Typed, TypeOK
  <1> QED
    BY <1>1, <1>2 DEF Lookup, Typed, TypeOK, Holding

(* The steps of a reader after it looked up its entry.                     *)
LEMMA ReadType ==
  ASSUME Typed, NEW p \in Procs,
         Hit(p) \/ Miss(p) \/ Show(p) \/ Store(p) \/ Return(p)
  PROVE  /\ slot' = slot /\ dropped' = dropped
         /\ entry' \in [Entries -> [value : Shown, age : 0..TTL]]
         /\ owner' \in [Entries -> Procs \cup {None}]
         /\ pc' \in [Procs -> {"idle", "lock", "show", "store", "back"}]
         /\ mine' \in [Procs -> Entries \cup {None}]
         /\ got' \in [Procs -> Shown]
         /\ floor' \in [Procs -> Nat]
         /\ Holding'
  <1>1. CASE Hit(p)
    <2>1. mine[p] \in Entries
      BY <1>1 DEF Hit, Typed, Holding
    <2>2. entry[mine[p]].value \in Shown
      BY <2>1 DEF Typed, TypeOK
    <2> QED
      BY <1>1, <2>2 DEF Hit, Typed, TypeOK, Holding
  <1>2. CASE Miss(p)
    BY <1>2 DEF Miss, Typed, TypeOK, Holding
  <1>3. CASE Show(p)
    BY <1>3, ShownParts DEF Show, Typed, TypeOK, Holding
  <1>4. CASE Store(p)
    <2>1. [value |-> got[p], age |-> 0] \in [value : Shown, age : 0..TTL]
      BY ShownParts DEF Typed, TypeOK
    <2> QED
      BY <1>4, <2>1 DEF Store, Typed, TypeOK, Holding
  <1>5. CASE Return(p)
    BY <1>5, ShownParts DEF Return, Typed, TypeOK, Holding
  <1> QED
    BY <1>1, <1>2, <1>3, <1>4, <1>5

(* The handler writes a new version of the package.                        *)
NewVersion(f, n, b) == [f EXCEPT !.ver = n, !.rule = b]

LEMMA NewVersionType ==
  ASSUME NEW f \in Shown, NEW n \in Nat, NEW b \in BOOLEAN
  PROVE  /\ NewVersion(f, n, b) \in Shown
         /\ NewVersion(f, n, b).ver = n
         /\ NewVersion(f, n, b).rule = b
         /\ NewVersion(f, n, b).ok = f.ok
  <1>1. NewVersion(f, n, b) \in Shown
    BY DEF Shown, NewVersion
  <1>2. /\ NewVersion(f, n, b).ver = n
        /\ NewVersion(f, n, b).rule = b
        /\ NewVersion(f, n, b).ok = f.ok
    BY DEF Shown, NewVersion
  <1> QED
    BY <1>1, <1>2

(* What Apply, ApplyFails and Undo leave in the file.                      *)
LEMMA Writes ==
  ASSUME TypeOK
  PROVE  /\ Apply => file' = NewVersion(file, file.ver + 1, Script[kind].adds)
         /\ ApplyFails =>
              file' \in {file, NewVersion(file, file.ver + 1, Script[kind].adds)}
         /\ Undo => file' = NewVersion(saved, file.ver + 1, saved.rule)
  <1>1. [saved EXCEPT !.ver = file.ver + 1]
          = NewVersion(saved, file.ver + 1, saved.rule)
    BY DEF TypeOK, Shown, NewVersion
  <1> QED
    BY <1>1 DEF Apply, ApplyFails, Undo, NewVersion

LEMMA ScriptType ==
  ASSUME NEW k \in Kinds
  PROVE  /\ Script[k].adds \in BOOLEAN /\ Script[k].looks \in BOOLEAN
         /\ Script[k].again \in BOOLEAN /\ Script[k].after \in BOOLEAN
  <1>1. k \in {"AddFirewallRule", "DeleteFirewallRule", "AddFwdRule",
               "RemoveFwdRule"}
    BY KindsAssumption DEF Script, Handlers
  <1>2. CASE k = "AddFirewallRule"
    BY <1>2 DEF Script, Handlers
  <1>3. CASE k = "DeleteFirewallRule"
    BY <1>3 DEF Script, Handlers
  <1>4. CASE k = "AddFwdRule"
    BY <1>4 DEF Script, Handlers
  <1>5. CASE k = "RemoveFwdRule"
    BY <1>5 DEF Script, Handlers
  <1> QED
    BY <1>1, <1>2, <1>3, <1>4, <1>5

(* Every step of the system keeps the types.                               *)
LEMMA StepTyped == Typed /\ [Next]_vars => Typed'
  <1> SUFFICES ASSUME Typed, [Next]_vars PROVE Typed'
    OBVIOUS
  <1> USE DEF Typed
  <1>1. CASE UNCHANGED vars
    BY <1>1 DEF vars, TypeOK, Holding
  <1>2. CASE Tick
    <2>1. \A e \in Entries :
            entry[e].age + 1 < TTL
              => [entry[e] EXCEPT !.age = @ + 1] \in [value : Shown, age : 0..TTL]
      BY ShownParts DEF TypeOK
    <2> QED
      BY <1>2, <2>1, ShownParts DEF Tick, TypeOK, Holding, hand
  <1>3. ASSUME NEW p \in Pollers, Poll(p) PROVE Typed'
    <2>1. CASE Lookup(p)
      BY <1>3, <2>1, LookupType DEF Poll, hand, TypeOK
    <2>2. CASE Hit(p) \/ Miss(p) \/ Show(p) \/ Store(p) \/ Return(p)
      BY <1>3, <2>2, ReadType DEF Poll, hand, TypeOK
    <2> QED
      BY <1>3, <2>1, <2>2 DEF Poll, Read
  <1>4. ASSUME NEW k \in Kinds, Begin(k) PROVE Typed'
    <2>1. file.ver \in Nat /\ MaxChanges \in Nat
      BY CacheAssumption DEF TypeOK, Shown
    <2> QED
      BY <1>4, <2>1 DEF Begin, InvalidateKey, TypeOK, Holding
  <1>5. CASE HandlerReads
    <2>1. CASE Lookup(Handler)
      BY <1>5, <2>1, LookupType DEF HandlerReads, TypeOK, Reading
    <2>2. CASE Hit(Handler) \/ Miss(Handler) \/ Show(Handler) \/ Store(Handler)
      BY <1>5, <2>2, ReadType DEF HandlerReads, TypeOK, Reading
    <2> QED
      BY <1>5, <2>1, <2>2 DEF HandlerReads
  <1>6. CASE Looked \/ Verified \/ Disproved \/ Answer
    <2>1. Return(Handler) /\ UNCHANGED <<file, saved, kind, changes>>
          /\ step' \in {"apply", "answer", "undo", "idle"}
      BY <1>6 DEF Looked, Verified, Disproved, Answer, Goes
    <2> QED
      BY <2>1, ReadType DEF TypeOK
  <1>7. CASE Apply \/ ApplyFails
    <2>1. /\ file \in Shown /\ file.ver + 1 \in Nat
          /\ Script[kind].adds \in BOOLEAN
      BY ScriptType DEF TypeOK, Shown
    <2>2. file' \in Shown
      BY <1>7, <2>1, Writes, NewVersionType
    <2> QED
      BY <1>7, <2>2 DEF Apply, ApplyFails, Goes, cache, TypeOK, Holding
  <1>8. CASE InvalidateAgain
    BY <1>8 DEF InvalidateAgain, Goes, InvalidateKey, TypeOK, Holding, Shown
  <1>9. CASE Undo
    <2>1. /\ saved \in Shown /\ saved.rule \in BOOLEAN
          /\ file.ver + 1 \in Nat
      BY DEF TypeOK, Shown
    <2>2. file' \in Shown /\ file'.ver \in Nat
      BY <1>9, <2>1, Writes, NewVersionType
    <2> QED
      BY <1>9, <2>2 DEF Undo, Goes, TypeOK, Holding
  <1> QED
    BY <1>1, <1>2, <1>3, <1>4, <1>5, <1>6, <1>7, <1>8, <1>9 DEF Next, Change

LEMMA InitTyped == Init => Typed
  <1>1. \A r \in BOOLEAN : [ver |-> 0, rule |-> r, ok |-> TRUE] \in Shown
    BY DEF Shown
  <1>2. Init => file \in Shown
    BY <1>1 DEF Init
  <1> QED
    BY <1>2, ShownParts, CacheAssumption DEF Init, Typed, TypeOK, Holding

(* The variables of the read cache and of its handler keep their types.    *)
THEOREM CacheTyped == Spec => []TypeOK
  BY InitTyped, StepTyped, PTL DEF Spec, Typed
-----------------------------------------------------------------------------
(* What an entry would serve is no older than v.                           *)
Serves(e, v) == Fresh(e) /\ entry[e].value.ok => entry[e].value.ver >= v

(* Readers of one entry have one floor: the version at the InvalidateKey   *)
(* before the entry was created.  An entry that left the map may be stored *)
(* into by whoever still computes, and what comes out is young enough for  *)
(* those who hold it and is not served to anybody else.                    *)
Dropped == dropped <= file.ver
Floors == \A p \in Procs : pc[p] # "idle" => floor[p] <= file.ver
OneFloor ==
  \A p, q \in Procs :
    pc[p] # "idle" /\ pc[q] # "idle" /\ mine[p] = mine[q] => floor[p] = floor[q]
InMap == \A p \in Procs : pc[p] # "idle" /\ mine[p] = slot => floor[p] = dropped
MapServes == slot # None => Serves(slot, dropped)
HeldServes == \A p \in Procs : pc[p] # "idle" => Serves(mine[p], floor[p])
GotFresh ==
  \A p \in Procs : pc[p] \in {"store", "back"} /\ got[p].ok => got[p].ver >= floor[p]

FloorInv ==
  Dropped /\ Floors /\ OneFloor /\ InMap /\ MapServes /\ HeldServes /\ GotFresh

(* A value anybody has is of a version the file had, and a value of the    *)
(* version the file has now shows what it holds.                           *)
Honest(v) ==
  v.ok => v.ver <= file.ver /\ (v.ver = file.ver => v.rule = file.rule)
AllHonest ==
  /\ \A e \in Entries : Honest(entry[e].value)
  /\ \A p \in Procs : Honest(got[p])

(* The handlers that invalidate again after they wrote, and, of those that *)
(* add, after they rolled back.                                            *)
InvalidatesAgain == \A k \in Kinds : Script[k].again
InvalidatesAfter == \A k \in Kinds : Script[k].adds => Script[k].after

(* When the handler looks whether its change is there, it is, and the last *)
(* InvalidateKey is younger than it; when it reads for its answer as well. *)
VerifiesNow ==
  /\ step \in {"again", "verify", "verifying"} => file.rule = Script[kind].adds
  /\ step \in {"verify", "verifying"} => dropped = file.ver
  /\ step = "verifying" => floor[Handler] = dropped
AnswersNow ==
  /\ InvalidatesAfter /\ step \in {"answer", "answering"} /\ Script[kind].adds
       => dropped = file.ver
  /\ step = "answering" => floor[Handler] = dropped
-----------------------------------------------------------------------------
ReadStep(p) ==
  Lookup(p) \/ Hit(p) \/ Miss(p) \/ Show(p) \/ Store(p) \/ Return(p)

(* What the handler does outside CachedRead: it may drop the entry, and it *)
(* may write a new version of the file.                                    *)
HandStep ==
  /\ UNCHANGED <<entry, owner, pc, mine, got, floor>>
  /\ \/ UNCHANGED <<slot, dropped>>
     \/ slot' = None /\ dropped' = file'.ver
  /\ file' = file \/ file'.ver = file.ver + 1

(* Every step is time passing, a step of one reader, or the handler's.     *)
LEMMA StepShape ==
  ASSUME Typed, [Next]_vars
  PROVE  Tick \/ HandStep \/ \E p \in Procs : ReadStep(p) /\ file' = file
  <1>1. CASE UNCHANGED vars
    BY <1>1 DEF vars, HandStep
  <1>2. ASSUME NEW p \in Pollers, Poll(p) PROVE ReadStep(p) /\ file' = file
    BY <1>2 DEF Poll, Read, ReadStep
  <1>3. CASE \E k \in Kinds : Begin(k)
    BY <1>3 DEF Begin, InvalidateKey, HandStep
  <1>4. CASE HandlerReads
    BY <1>4 DEF HandlerReads, ReadStep
  <1>5. CASE Looked \/ Verified \/ Disproved \/ Answer
    BY <1>5 DEF Looked, Verified, Disproved, Answer, ReadStep
  <1>6. CASE Apply \/ ApplyFails \/ Undo
    <2>1. /\ file \in Shown /\ saved \in Shown /\ file.ver + 1 \in Nat
          /\ Script[kind].adds \in BOOLEAN /\ saved.rule \in BOOLEAN
      BY ScriptType DEF Typed, TypeOK, Shown
    <2>2. file' = file \/ file'.ver = file.ver + 1
      BY <1>6, <2>1, Writes, NewVersionType DEF Typed
    <2> QED
      BY <1>6, <2>2 DEF Apply, ApplyFails, Undo, cache, HandStep
  <1>7. CASE InvalidateAgain
    BY <1>7 DEF InvalidateAgain, InvalidateKey, HandStep
  <1> QED
    BY <1>1, <1>2, <1>3, <1>4, <1>5, <1>6, <1>7 DEF Next, Change

(* Time only takes values away.                                            *)
LEMMA TickKeeps ==
  ASSUME Typed, Tick
  PROVE  /\ \A e \in Entries : entry'[e].value \in {entry[e].value, Nothing}
         /\ \A e \in Entries : Fresh(e)' => Fresh(e) /\ entry'[e].value = entry[e].value
  <1> SUFFICES ASSUME NEW e \in Entries
               PROVE  /\ entry'[e].value \in {entry[e].value, Nothing}
                      /\ Fresh(e)' => Fresh(e) /\ entry'[e].value = entry[e].value
    OBVIOUS
  <1>1. entry[e] \in [value : Shown, age : 0..TTL] /\ TTL \in Nat
    BY CacheAssumption DEF Typed, TypeOK
  <1>2. CASE entry[e].age + 1 < TTL
    <2>1. entry'[e] = [entry[e] EXCEPT !.age = @ + 1]
      BY <1>2 DEF Tick
    <2>2. entry'[e].value = entry[e].value
      BY <1>1, <2>1
    <2> QED
      BY <1>1, <1>2, <2>2 DEF Fresh
  <1>3. CASE ~(entry[e].age + 1 < TTL)
    <2>1. entry'[e] = NewEntry
      BY <1>3 DEF Tick
    <2> QED
      BY <1>1, <2>1, ShownParts DEF Fresh
  <1> QED
    BY <1>2, <1>3

LEMMA FloorTick == ASSUME Typed, FloorInv, Tick PROVE FloorInv'
  <1>1. UNCHANGED <<file, slot, pc, mine, got, floor, dropped>>
    BY DEF Tick
  <1>2. Dropped' /\ Floors' /\ OneFloor' /\ InMap' /\ GotFresh'
    BY <1>1 DEF FloorInv, Dropped, Floors, OneFloor, InMap, GotFresh
  <1>3. \A e \in Entries, v \in Nat : Serves(e, v) => Serves(e, v)'
    BY TickKeeps DEF Serves
  <1>4. MapServes'
    BY <1>1, <1>3 DEF FloorInv, MapServes, Serves, Typed, TypeOK
  <1>5. HeldServes'
    BY <1>1, <1>3 DEF FloorInv, HeldServes, Serves, Typed, TypeOK, Holding
  <1> QED
    BY <1>2, <1>4, <1>5 DEF FloorInv

LEMMA FloorHand == ASSUME Typed, Typed', FloorInv, HandStep PROVE FloorInv'
  <1>1. /\ file.ver \in Nat /\ file'.ver \in Nat /\ file.ver <= file'.ver
        /\ dropped \in Nat /\ floor \in [Procs -> Nat]
    BY DEF HandStep, Typed, TypeOK, Shown
  <1>2. UNCHANGED <<entry, pc, mine, got, floor>>
    BY DEF HandStep
  <1>3. Dropped'
    BY <1>1 DEF HandStep, FloorInv, Dropped
  <1>4. Floors'
    BY <1>1, <1>2 DEF FloorInv, Floors
  <1>5. OneFloor' /\ HeldServes' /\ GotFresh'
    BY <1>2 DEF FloorInv, OneFloor, HeldServes, GotFresh, Serves, Fresh
  <1>6. InMap'
    BY <1>2, CacheAssumption DEF HandStep, FloorInv, InMap, Typed, Holding
  <1>7. MapServes'
    BY <1>2 DEF HandStep, FloorInv, MapServes, Serves, Fresh
  <1> QED
    BY <1>3, <1>4, <1>5, <1>6, <1>7 DEF FloorInv

(* A reader finds the entry of the map, or puts a new one there.           *)
LEMMA FloorLookup ==
  ASSUME Typed, Typed', FloorInv, NEW p \in Procs, Lookup(p), file' = file
  PROVE  FloorInv'
  <1> USE DEF Typed
  <1>1. /\ slot' \in Entries /\ mine'[p] = slot' /\ floor'[p] = dropped
        /\ pc[p] = "idle" /\ pc'[p] = "lock" /\ dropped' = dropped /\ got' = got
        /\ \A q \in Procs \ {p} :
             mine'[q] = mine[q] /\ pc'[q] = pc[q] /\ floor'[q] = floor[q]
    BY LookupType DEF Lookup, TypeOK
  <1>2. \/ slot' = slot /\ entry' = entry
        \/ /\ slot = None
           /\ \A q \in Procs : mine[q] # slot'
           /\ entry' = [entry EXCEPT ![slot'] = NewEntry]
    <2>1. CASE slot # None /\ UNCHANGED <<slot, entry>>
      BY <2>1
    <2>2. CASE /\ slot = None /\ Free # {} /\ slot' = CHOOSE e \in Free : TRUE
               /\ entry' = [entry EXCEPT ![slot'] = NewEntry]
      BY <2>2, FreeEntry
    <2> QED
      BY <2>1, <2>2 DEF Lookup
  <1>3. \A e \in Entries : entry'[e] \in {entry[e], NewEntry}
    BY <1>1, <1>2 DEF TypeOK
  <1>4. \A e \in Entries, v \in Nat : Serves(e, v) => Serves(e, v)'
    BY <1>3, ShownParts DEF Serves, Fresh
  <1>5. slot' # slot => \A v \in Nat : Serves(slot, v)'
    BY <1>1, <1>2, ShownParts DEF Serves, Fresh, TypeOK
  <1>6. dropped \in Nat /\ floor \in [Procs -> Nat]
    BY DEF TypeOK
  <1>7. Dropped'
    BY <1>1 DEF FloorInv, Dropped
  <1>8. Floors'
    BY <1>1, <1>6 DEF FloorInv, Floors, Dropped
  <1>9. InMap'
    BY <1>1, <1>2 DEF FloorInv, InMap
  <1>10. OneFloor'
    BY <1>1, <1>2 DEF FloorInv, InMap, OneFloor
  <1>11. Serves(slot, dropped)'
    <2>1. CASE slot' = slot
      <3>1. Serves(slot, dropped)
        BY <1>1, <2>1, CacheAssumption DEF FloorInv, MapServes
      <3> QED
        BY <1>1, <1>2, <2>1, <3>1, CacheAssumption DEF Serves, Fresh
    <2>2. CASE slot' # slot
      BY <1>1, <1>5, <1>6, <2>2 DEF Serves
    <2> QED
      BY <2>1, <2>2
  <1>12. MapServes'
    BY <1>1, <1>11 DEF MapServes, Serves
  <1>13. HeldServes'
    <2> SUFFICES ASSUME NEW q \in Procs, pc'[q] # "idle"
                 PROVE  Serves(mine[q], floor[q])'
      BY DEF HeldServes
    <2>1. CASE q = p
      BY <1>1, <1>11, <2>1 DEF Serves, Fresh
    <2>2. CASE q # p
      <3>1. mine[q] \in Entries /\ Serves(mine[q], floor[q])
        BY <1>1, <2>2 DEF FloorInv, HeldServes, Holding
      <3> QED
        BY <1>1, <1>4, <1>6, <2>2, <3>1 DEF Serves, Fresh
    <2> QED
      BY <2>1, <2>2
  <1>14. GotFresh'
    BY <1>1 DEF FloorInv, GotFresh
  <1> QED
    BY <1>7, <1>8, <1>9, <1>10, <1>12, <1>13, <1>14 DEF FloorInv

(* A reader that has its entry: what it reads or computes is as young as   *)
(* its floor asks, and so is what it stores for the others.                *)
LEMMA FloorRead ==
  ASSUME Typed, Typed', FloorInv, NEW p \in Procs, file' = file,
         Hit(p) \/ Miss(p) \/ Show(p) \/ Return(p)
  PROVE  FloorInv'
  <1> USE DEF Typed
  <1>1. /\ UNCHANGED <<slot, entry, dropped>>
        /\ \A q \in Procs \ {p} : /\ mine'[q] = mine[q] /\ pc'[q] = pc[q]
                                 /\ floor'[q] = floor[q] /\ got'[q] = got[q]
        /\ pc[p] # "idle"
        /\ pc'[p] # "idle" => mine'[p] = mine[p] /\ floor'[p] = floor[p]
    BY DEF Hit, Miss, Show, Return, TypeOK
  <1>2. Dropped' /\ Floors' /\ OneFloor' /\ InMap'
    BY <1>1 DEF FloorInv, Dropped, Floors, OneFloor, InMap
  <1>3. MapServes' /\ HeldServes'
    BY <1>1 DEF FloorInv, MapServes, HeldServes, Serves, Fresh
  <1>4. GotFresh'
    <2> SUFFICES ASSUME pc'[p] \in {"store", "back"}, got'[p].ok
                 PROVE  got'[p].ver >= floor'[p]
      BY <1>1 DEF FloorInv, GotFresh
    <2>1. CASE Hit(p)
      <3>1. got'[p] = entry[mine[p]].value
        BY <2>1 DEF Hit, TypeOK
      <3>2. Fresh(mine[p]) /\ Serves(mine[p], floor[p])
        BY <1>1, <2>1 DEF Hit, FloorInv, HeldServes
      <3> QED
        BY <1>1, <3>1, <3>2 DEF Serves
    <2>2. CASE Show(p)
      <3>1. got'[p] \in {file, Nothing}
        BY <2>2 DEF Show, TypeOK
      <3>2. floor[p] <= file.ver /\ floor[p] \in Nat /\ file.ver \in Nat
        BY <1>1 DEF FloorInv, Floors, TypeOK, Shown
      <3> QED
        BY <1>1, <3>1, <3>2, ShownParts
    <2>3. CASE Miss(p) \/ Return(p)
      BY <2>3 DEF Miss, Return, TypeOK
    <2> QED
      BY <2>1, <2>2, <2>3
  <1> QED
    BY <1>2, <1>3, <1>4 DEF FloorInv

LEMMA FloorStore ==
  ASSUME Typed, Typed', FloorInv, NEW p \in Procs, file' = file, Store(p)
  PROVE  FloorInv'
  <1> USE DEF Typed
  <1>1. /\ UNCHANGED <<slot, dropped, mine, floor, got>>
        /\ pc[p] = "store" /\ pc'[p] = "back"
        /\ \A q \in Procs \ {p} : pc'[q] = pc[q]
        /\ mine[p] \in Entries
    BY DEF Store, TypeOK, Holding
  <1>2. entry'[mine[p]].value = got[p]
    BY <1>1 DEF Store, TypeOK
  <1>3. \A e \in Entries \ {mine[p]} : entry'[e] = entry[e]
    BY DEF Store, TypeOK
  <1>4. \A e \in Entries \ {mine[p]}, v \in Nat : Serves(e, v) => Serves(e, v)'
    BY <1>3 DEF Serves, Fresh
  <1>5. Serves(mine[p], floor[p])'
    BY <1>1, <1>2 DEF FloorInv, GotFresh, Serves
  <1>6. dropped \in Nat /\ floor \in [Procs -> Nat]
    BY DEF TypeOK
  <1>7. Dropped' /\ Floors' /\ OneFloor' /\ InMap' /\ GotFresh'
    BY <1>1 DEF FloorInv, Dropped, Floors, OneFloor, InMap, GotFresh
  <1>8. MapServes'
    <2>1. CASE slot = mine[p]
      <3>1. floor[p] = dropped
        BY <1>1, <2>1 DEF FloorInv, InMap
      <3> QED
        BY <1>1, <1>5, <2>1, <3>1 DEF MapServes, Serves, Fresh
    <2>2. CASE slot # mine[p] /\ slot # None
      <3>1. slot \in Entries /\ Serves(slot, dropped)
        BY <2>2 DEF FloorInv, MapServes, TypeOK
      <3> QED
        BY <1>1, <1>4, <1>6, <2>2, <3>1 DEF MapServes, Serves, Fresh
    <2> QED
      BY <1>1, <2>1, <2>2 DEF MapServes
  <1>9. HeldServes'
    <2> SUFFICES ASSUME NEW q \in Procs, pc'[q] # "idle"
                 PROVE  Serves(mine[q], floor[q])'
      BY DEF HeldServes
    <2>1. pc[q] # "idle" /\ mine[q] \in Entries
      BY <1>1 DEF Holding
    <2>2. CASE mine[q] = mine[p]
      <3>1. floor[q] = floor[p]
        BY <1>1, <2>1, <2>2 DEF FloorInv, OneFloor
      <3> QED
        BY <1>1, <1>5, <2>2, <3>1 DEF Serves, Fresh
    <2>3. CASE mine[q] # mine[p]
      <3>1. Serves(mine[q], floor[q])
        BY <2>1 DEF FloorInv, HeldServes
      <3> QED
        BY <1>1, <1>4, <1>6, <2>1, <2>3, <3>1 DEF Serves, Fresh
    <2> QED
      BY <2>2, <2>3
  <1> QED
    BY <1>7, <1>8, <1>9 DEF FloorInv

LEMMA FloorStep == Typed /\ Typed' /\ FloorInv /\ [Next]_vars => FloorInv'
  BY StepShape, FloorTick, FloorHand, FloorLookup, FloorRead, FloorStore
  DEF ReadStep

LEMMA FloorInit == Init => FloorInv
  <1> SUFFICES ASSUME Init PROVE FloorInv
    OBVIOUS
  <1>1. file.ver = 0 /\ file.ver \in Nat
    BY DEF Init
  <1>2. \A p \in Procs : pc[p] = "idle" /\ floor[p] = 0
    BY DEF Init
  <1> QED
    BY <1>1, <1>2 DEF Init, FloorInv, Dropped, Floors, OneFloor, InMap, MapServes,
                      HeldServes, GotFresh

(* readcache.go 15-18, for any number of readers, entries and changes: a   *)
(* read that begins after an InvalidateKey never returns what the package  *)
(* held before it.                                                         *)
THEOREM FreshAlways == Spec => []FreshAfterInvalidate
  <1>1. Init => Typed /\ FloorInv
    BY InitTyped, FloorInit
  <1>2. Typed /\ FloorInv /\ [Next]_vars => (Typed /\ FloorInv)'
    BY StepTyped, FloorStep
  <1>3. FloorInv => FreshAfterInvalidate
    BY DEF FloorInv, GotFresh, FreshAfterInvalidate
  <1> QED
    BY <1>1, <1>2, <1>3, PTL DEF Spec
-----------------------------------------------------------------------------
(* Where values come from: a step of a reader moves the file, or what an   *)
(* entry or a reader has, and invents nothing.                             *)
LEMMA Moves ==
  ASSUME Typed, NEW p \in Procs, ReadStep(p)
  PROVE  /\ \A e \in Entries :
              entry'[e].value \in {entry[e].value, Nothing, got[p]}
         /\ \A q \in Procs :
              \/ got'[q] \in {got[q], Nothing, file}
              \/ \E e \in Entries : got'[q] = entry[e].value
  <1> USE DEF Typed
  <1>1. CASE Lookup(p)
    <2>1. \A e \in Entries : entry'[e] \in {entry[e], NewEntry}
      BY <1>1, LookupType DEF Lookup, TypeOK
    <2> QED
      BY <1>1, <2>1, ShownParts DEF Lookup
  <1>2. CASE Hit(p)
    <2>1. mine[p] \in Entries
      BY <1>2 DEF Hit, Holding
    <2> QED
      BY <1>2, <2>1 DEF Hit, TypeOK
  <1>3. CASE Miss(p)
    BY <1>3 DEF Miss
  <1>4. CASE Show(p)
    BY <1>4 DEF Show, TypeOK
  <1>5. CASE Store(p)
    BY <1>5 DEF Store, TypeOK
  <1>6. CASE Return(p)
    BY <1>6 DEF Return, TypeOK
  <1> QED
    BY <1>1, <1>2, <1>3, <1>4, <1>5, <1>6 DEF ReadStep

LEMMA HonestStep ==
  ASSUME Typed, Typed', AllHonest, [Next]_vars
  PROVE  AllHonest'
  <1> USE DEF Typed
  <1>1. Honest(Nothing)'
    BY ShownParts DEF Honest
  <1>2. CASE HandStep
    <2>1. \A v \in Shown : Honest(v) => Honest(v)'
      BY <1>2 DEF HandStep, Honest, TypeOK, Shown
    <2>2. entry' = entry /\ got' = got
      BY <1>2 DEF HandStep
    <2>3. /\ \A e \in Entries : entry[e].value \in Shown
          /\ \A p \in Procs : got[p] \in Shown
      BY DEF TypeOK
    <2> QED
      BY <2>1, <2>2, <2>3 DEF AllHonest, Honest
  <1>3. CASE Tick
    <2>1. got' = got /\ file' = file
      BY <1>3 DEF Tick
    <2>2. \A e \in Entries : entry'[e].value \in {entry[e].value, Nothing}
      BY <1>3, TickKeeps
    <2> QED
      BY <2>1, <2>2, ShownParts DEF AllHonest, Honest
  <1>4. ASSUME NEW p \in Procs, ReadStep(p), file' = file PROVE AllHonest'
    <2>1. Honest(file) /\ Honest(Nothing)
      BY ShownParts DEF Honest, TypeOK, Shown
    <2>2. \A e \in Entries : Honest(entry'[e].value)
      BY <1>4, <2>1, Moves DEF AllHonest
    <2>3. \A q \in Procs : Honest(got'[q])
      BY <1>4, <2>1, Moves DEF AllHonest
    <2> QED
      BY <1>4, <2>2, <2>3 DEF AllHonest, Honest
  <1> QED
    BY <1>2, <1>3, <1>4, StepShape

(* A read that is as young as the file shows what the file holds.          *)
LEMMA ReadsTheFile ==
  ASSUME Typed, FloorInv, AllHonest, NEW p \in Procs, pc[p] = "back",
         got[p].ok, floor[p] = file.ver
  PROVE  got[p].rule = file.rule
  <1>1. got[p].ver >= floor[p]
    BY DEF FloorInv, GotFresh
  <1>2. got[p].ver <= file.ver /\ (got[p].ver = file.ver => got[p].rule = file.rule)
    BY DEF AllHonest, Honest
  <1>3. got[p].ver \in Nat /\ file.ver \in Nat
    BY DEF Typed, TypeOK, Shown
  <1> QED
    BY <1>1, <1>2, <1>3

(* A step of a poller leaves the handler's read alone.                     *)
LEMMA PollApart ==
  ASSUME Typed, NEW p \in Pollers, Poll(p)
  PROVE  UNCHANGED <<file, dropped, step, kind, floor[Handler]>>
  <1>1. p # Handler
    BY CacheAssumption
  <1>2. UNCHANGED <<file, step, kind>>
    BY DEF Poll, hand
  <1>3. dropped' = dropped /\ floor'[Handler] = floor[Handler]
    BY <1>1 DEF Poll, Read, Lookup, Hit, Miss, Show, Store, Return, Typed, TypeOK
  <1> QED
    BY <1>2, <1>3

LEMMA HandlerNow ==
  ASSUME Typed, Typed', InvalidatesAgain, VerifiesNow, AnswersNow, [Next]_vars
  PROVE  VerifiesNow' /\ AnswersNow'
  <1> USE DEF Typed
  <1> DEFINE now == <<file, dropped, step, kind, floor[Handler]>>
  <1>1. CASE UNCHANGED now
    BY <1>1 DEF VerifiesNow, AnswersNow
  <1>2. CASE Tick
    BY <1>1, <1>2 DEF Tick, hand
  <1>3. ASSUME NEW p \in Pollers, Poll(p) PROVE UNCHANGED now
    BY <1>3, PollApart
  <1>4. CASE \E k \in Kinds : Begin(k)
    BY <1>4 DEF Begin, VerifiesNow, AnswersNow
  <1>5. CASE HandlerReads
    <2>1. UNCHANGED <<file, kind, dropped>>
      BY <1>5 DEF HandlerReads, Lookup, Hit, Miss, Show, Store
    <2>2. CASE Lookup(Handler)
      <3>1. floor'[Handler] = dropped
        BY <2>2 DEF Lookup, TypeOK
      <3>2. \/ step = "look" /\ step' = "looking"
            \/ step = "verify" /\ step' = "verifying"
            \/ step = "answer" /\ step' = "answering"
        BY <1>5, <2>2 DEF HandlerReads, Lookup, Hit, Miss, Show, Store
      <3> QED
        BY <2>1, <3>1, <3>2 DEF VerifiesNow, AnswersNow
    <2>3. CASE Hit(Handler) \/ Miss(Handler) \/ Show(Handler) \/ Store(Handler)
      <3>1. step' = step /\ floor' = floor
        BY <1>5, <2>3 DEF HandlerReads, Lookup, Hit, Miss, Show, Store
      <3> QED
        BY <1>1, <2>1, <3>1
    <2> QED
      BY <1>5, <2>2, <2>3 DEF HandlerReads
  <1>6. CASE Looked
    BY <1>6 DEF Looked, Goes, VerifiesNow, AnswersNow
  <1>7. CASE Apply
    <2>1. file'.rule = Script[kind].adds
      BY <1>7, Writes, ScriptType, NewVersionType DEF TypeOK, Shown
    <2>2. kind' = kind /\ step' = "again"
      BY <1>7 DEF Apply, Goes, InvalidatesAgain, TypeOK
    <2> QED
      BY <2>1, <2>2 DEF VerifiesNow, AnswersNow
  <1>8. CASE ApplyFails
    BY <1>8 DEF ApplyFails, Goes, VerifiesNow, AnswersNow
  <1>9. CASE InvalidateAgain
    BY <1>9 DEF InvalidateAgain, Goes, InvalidateKey, VerifiesNow, AnswersNow
  <1>10. CASE Verified \/ Disproved \/ Answer
    <2>1. UNCHANGED <<file, kind, dropped>>
      BY <1>10 DEF Verified, Disproved, Answer, Goes, Return
    <2>2. \/ step = "verifying" /\ step' \in {"answer", "undo"}
          \/ step = "answering" /\ step' = "idle"
      BY <1>10 DEF Verified, Disproved, Answer, Goes
    <2> QED
      BY <2>1, <2>2 DEF VerifiesNow, AnswersNow
  <1>11. CASE Undo
    BY <1>11 DEF Undo, Goes, InvalidatesAfter, VerifiesNow, AnswersNow, TypeOK
  <1> QED
    BY <1>1, <1>2, <1>3, <1>4, <1>5, <1>6, <1>7, <1>8, <1>9, <1>10, <1>11
    DEF Next, Change, vars

(* What the two theorems below rest on, in one invariant.                  *)
VerifyInv == Typed /\ FloorInv /\ AllHonest /\ VerifiesNow /\ AnswersNow

LEMMA VerifyInvAlways ==
  ASSUME InvalidatesAgain
  PROVE  Spec => []VerifyInv
  <1>1. Init => VerifyInv
    <2>1. Init => AllHonest
      BY ShownParts DEF Init, AllHonest, Honest
    <2>2. Init => VerifiesNow /\ AnswersNow
      BY DEF Init, VerifiesNow, AnswersNow
    <2> QED
      BY <2>1, <2>2, InitTyped, FloorInit DEF VerifyInv
  <1>2. VerifyInv /\ [Next]_vars => VerifyInv'
    BY StepTyped, FloorStep, HonestStep, HandlerNow DEF VerifyInv
  <1> QED
    BY <1>1, <1>2, PTL DEF Spec

(* A handler that invalidates again after its write rolls its change back  *)
(* only because a uci show failed, never because of what the cache         *)
(* remembers.  AddFwdRule does not invalidate again, and its run shows it  *)
(* rolled back for nothing.                                                *)
THEOREM RollsBackForCause ==
  ASSUME InvalidatesAgain
  PROVE  Spec => UndoneForCause
  <1>1. VerifyInv /\ [Next]_vars
          => (step = "verifying" /\ step' = "undo" => ~got[Handler].ok)
    <2> SUFFICES ASSUME VerifyInv, [Next]_vars, step = "verifying", step' = "undo"
                 PROVE  ~got[Handler].ok
      OBVIOUS
    <2>1. Disproved
      BY DEF Next, vars, Change, Tick, Poll, hand, Begin, HandlerReads, Looked, Apply,
             ApplyFails, InvalidateAgain, Verified, Undo, Answer, Goes, Reading
    <2>2. pc[Handler] = "back" /\ got[Handler].rule # file.rule
      BY <2>1 DEF Disproved, Return, VerifyInv, VerifiesNow
    <2>3. floor[Handler] = file.ver
      BY DEF VerifyInv, VerifiesNow
    <2> QED
      BY <2>2, <2>3, ReadsTheFile DEF VerifyInv
  <1> QED
    BY <1>1, VerifyInvAlways, PTL DEF Spec, UndoneForCause

(* What the handler of an add answers with is what the file holds, after a *)
(* rollback as well, if it invalidates after both.                         *)
THEOREM AnswersTheFile ==
  ASSUME InvalidatesAgain, InvalidatesAfter
  PROVE  Spec => AnswersTruthfully
  <1>1. VerifyInv /\ [Next]_vars
          => (step = "answering" /\ step' = "idle" /\ got[Handler].ok
              /\ Script[kind].adds => got[Handler].rule = file.rule)
    <2> SUFFICES ASSUME VerifyInv, [Next]_vars, step = "answering", step' = "idle",
                        got[Handler].ok, Script[kind].adds
                 PROVE  got[Handler].rule = file.rule
      OBVIOUS
    <2>1. Answer
      BY DEF Next, vars, Change, Tick, Poll, hand, Begin, HandlerReads, Looked, Apply,
             ApplyFails, InvalidateAgain, Verified, Disproved, Undo, Goes, Reading
    <2>2. pc[Handler] = "back"
      BY <2>1 DEF Answer, Return
    <2>3. floor[Handler] = file.ver
      BY DEF VerifyInv, AnswersNow
    <2> QED
      BY <2>2, <2>3, ReadsTheFile DEF VerifyInv
  <1> QED
    BY <1>1, VerifyInvAlways, PTL DEF Spec, AnswersTruthfully
=============================================================================
