----------------------------- MODULE ReadCache ------------------------------
(***************************************************************************)
(* readcache.go, and the handlers of firewall rules that verify their own  *)
(* change through it.  One key is modelled, "ucishow|firewall": pollers    *)
(* and the handler read it with CachedRead; the handler drops it with      *)
(* InvalidateKey around its write and looks whether the rule is there.     *)
(*                                                                         *)
(* The firewall package is its version and whether it holds the rule.  The *)
(* handler runs one change after the other; what two handlers do to each   *)
(* other's files is the subject of ConfigTx.                               *)
(***************************************************************************)
EXTENDS Naturals

CONSTANTS
  Pollers,     \* goroutines of GET handlers that poll the key
  Handler,     \* the goroutine that changes rules
  Kinds,       \* the changes it makes: a subset of DOMAIN Script
  Entries,     \* addresses for cache entries, reused once nobody has them
  None,        \* no entry, and the owner of a free mutex
  TTL,         \* uciShowTTL, in ticks
  MaxChanges   \* bound: changes the handler makes

Procs == Pollers \cup {Handler}

ASSUME CacheAssumption ==
  /\ TTL \in Nat \ {0} /\ MaxChanges \in Nat
  /\ Handler \notin Pollers
  /\ None \notin Procs /\ None \notin Entries

(* What one uci show answers: the package, or an error.  An entry is as    *)
(* old as TTL when it has no value, or one too old to serve.               *)
Shown == [ver : Nat, rule : BOOLEAN, ok : BOOLEAN]
Nothing == [ver |-> 0, rule |-> FALSE, ok |-> FALSE]
NewEntry == [value |-> Nothing, age |-> TTL]

(* The four handlers: does it add a rule, does it read the rules before it *)
(* writes, does it invalidate again once it wrote, and after a rollback.   *)
(* The last two are parameters for the sake of AddFirewallRule's slips.    *)
Handlers(again, after) ==
  [AddFirewallRule |->
     [adds |-> TRUE, looks |-> TRUE, again |-> again, after |-> after],
   DeleteFirewallRule |->
     [adds |-> FALSE, looks |-> FALSE, again |-> TRUE, after |-> FALSE],
   AddFwdRule |->
     [adds |-> TRUE, looks |-> TRUE, again |-> FALSE, after |-> FALSE],
   RemoveFwdRule |->
     [adds |-> FALSE, looks |-> FALSE, again |-> FALSE, after |-> FALSE]]

ScriptForgets == Handlers(FALSE, TRUE)
ScriptSilent == Handlers(TRUE, FALSE)
Script == Handlers(TRUE, TRUE)

ASSUME KindsAssumption == Kinds \subseteq DOMAIN Script

VARIABLES
  file,     \* the firewall package: its version, and whether it has the rule
  slot,     \* readCacheEntries[key]: an entry, or None
  entry,    \* entry[e]: the value of a readCacheEntry and time.Since(at)
  owner,    \* owner[e]: who holds e.mu
  pc,       \* pc[p]: where p is in CachedRead
  mine,     \* mine[p]: the entry p looked up, None outside CachedRead
  got,      \* got[p]: what CachedRead returned to p, or what p computed
  floor,    \* history: the version p's read must not fall behind
  dropped,  \* history: the version of the file at the last InvalidateKey
  step,     \* where the handler is in its change
  kind,     \* the change the handler is making
  saved,    \* its export of the package
  changes   \* changes begun

cache == <<slot, entry, owner, pc, mine, got, floor, dropped>>
hand == <<step, kind, saved, changes>>
vars == <<file, slot, entry, owner, pc, mine, got, floor, dropped, step, kind,
          saved, changes>>

TypeOK ==
  /\ file \in Shown
  /\ slot \in Entries \cup {None}
  /\ entry \in [Entries -> [value : Shown, age : 0..TTL]]
  /\ owner \in [Entries -> Procs \cup {None}]
  /\ pc \in [Procs -> {"idle", "lock", "show", "store", "back"}]
  /\ mine \in [Procs -> Entries \cup {None}]
  /\ got \in [Procs -> Shown]
  /\ floor \in [Procs -> Nat] /\ dropped \in Nat
  /\ step \in {"idle", "look", "looking", "apply", "again", "verify",
               "verifying", "undo", "answer", "answering"}
  /\ kind \in Kinds
  /\ saved \in Shown
  /\ changes \in 0..MaxChanges
-----------------------------------------------------------------------------
Init ==
  /\ file \in {[ver |-> 0, rule |-> r, ok |-> TRUE] : r \in BOOLEAN}
  /\ slot = None
  /\ entry = [e \in Entries |-> NewEntry]
  /\ owner = [e \in Entries |-> None]
  /\ pc = [p \in Procs |-> "idle"]
  /\ mine = [p \in Procs |-> None]
  /\ got = [p \in Procs |-> Nothing]
  /\ floor = [p \in Procs |-> 0] /\ dropped = 0
  /\ step = "idle" /\ kind \in Kinds /\ saved = file /\ changes = 0

(* Time passes; a value that is too old is as good as none.                *)
Tick ==
  /\ entry' = [e \in Entries |->
                 IF entry[e].age + 1 < TTL
                   THEN [entry[e] EXCEPT !.age = @ + 1] ELSE NewEntry]
  /\ UNCHANGED <<file, slot, owner, pc, mine, got, floor, dropped, hand>>

Free == Entries \ ({slot} \cup {mine[p] : p \in Procs})

(* The first critical section of CachedRead: find the entry or create it.  *)
Lookup(p) ==
  /\ pc[p] = "idle"
  /\ \/ slot # None /\ UNCHANGED <<slot, entry>>
     \/ /\ slot = None /\ Free # {}
        /\ slot' = CHOOSE e \in Free : TRUE
        /\ entry' = [entry EXCEPT ![slot'] = NewEntry]
  /\ mine' = [mine EXCEPT ![p] = slot']
  /\ floor' = [floor EXCEPT ![p] = dropped]
  /\ pc' = [pc EXCEPT ![p] = "lock"]
  /\ UNCHANGED <<owner, got, dropped>>

Fresh(e) == entry[e].age < TTL

(* e.mu is free and the value is young enough.                             *)
Hit(p) ==
  /\ pc[p] = "lock" /\ owner[mine[p]] = None
  /\ Fresh(mine[p])
  /\ got' = [got EXCEPT ![p] = entry[mine[p]].value]
  /\ pc' = [pc EXCEPT ![p] = "back"]
  /\ UNCHANGED <<slot, entry, owner, mine, floor, dropped>>

(* e.mu is free and there is nothing to serve: compute with it held.       *)
Miss(p) ==
  /\ pc[p] = "lock" /\ owner[mine[p]] = None
  /\ ~Fresh(mine[p])
  /\ owner' = [owner EXCEPT ![mine[p]] = p]
  /\ pc' = [pc EXCEPT ![p] = "show"]
  /\ UNCHANGED <<slot, entry, mine, got, floor, dropped>>

(* compute: the fork of uci show sees the package, or fails.               *)
Show(p) ==
  /\ pc[p] = "show"
  /\ got' \in {[got EXCEPT ![p] = file], [got EXCEPT ![p] = Nothing]}
  /\ pc' = [pc EXCEPT ![p] = "store"]
  /\ UNCHANGED <<slot, entry, owner, mine, floor, dropped>>

(* A return on the error before the value is stored, past the unlock.      *)
StoreKeepsLock(p) ==
  /\ pc[p] = "store"
  /\ entry' = [entry EXCEPT ![mine[p]] = [value |-> got[p], age |-> 0]]
  /\ owner' = [owner EXCEPT ![mine[p]] = IF got[p].ok THEN None ELSE @]
  /\ pc' = [pc EXCEPT ![p] = "back"]
  /\ UNCHANGED <<slot, mine, got, floor, dropped>>

(* The value, or the error, goes into the entry p looked up, which the map *)
(* may not hold any more.                                                  *)
Store(p) ==
  /\ pc[p] = "store"
  /\ entry' = [entry EXCEPT ![mine[p]] = [value |-> got[p], age |-> 0]]
  /\ owner' = [owner EXCEPT ![mine[p]] = None]
  /\ pc' = [pc EXCEPT ![p] = "back"]
  /\ UNCHANGED <<slot, mine, got, floor, dropped>>

Read(p) == Lookup(p) \/ Hit(p) \/ Miss(p) \/ Show(p) \/ Store(p)

(* The caller goes on with what it read, and lets the entry go.            *)
Return(p) ==
  /\ pc[p] = "back"
  /\ pc' = [pc EXCEPT ![p] = "idle"]
  /\ mine' = [mine EXCEPT ![p] = None]
  /\ got' = [got EXCEPT ![p] = Nothing]
  /\ floor' = [floor EXCEPT ![p] = 0]
  /\ UNCHANGED <<slot, entry, owner, dropped>>

(* A GET handler reads and answers; the client polls again some day.       *)
Poll(p) == (Read(p) \/ Return(p)) /\ UNCHANGED <<file, hand>>
-----------------------------------------------------------------------------
(* The entry stays in the map and loses its value.                         *)
InvalidateInPlace ==
  /\ entry' = IF slot = None THEN entry ELSE [entry EXCEPT ![slot] = NewEntry]
  /\ dropped' = file.ver
  /\ UNCHANGED <<slot, owner, pc, mine, got, floor>>

(* InvalidateKey deletes the entry from the map.  Who looked it up before  *)
(* still holds it, and may still be computing its value.                   *)
InvalidateKey ==
  /\ slot' = None
  /\ dropped' = file.ver
  /\ UNCHANGED <<entry, owner, pc, mine, got, floor>>

(* A handler starts: it invalidates before it does anything else.          *)
Begin(k) ==
  /\ step = "idle" /\ changes < MaxChanges
  /\ k \in Kinds /\ Script[k].adds # file.rule
  /\ kind' = k
  /\ changes' = changes + 1
  /\ step' = IF Script[k].looks THEN "look" ELSE "apply"
  /\ InvalidateKey
  /\ UNCHANGED <<file, saved>>

(* The handler reads the rules through the cache: before it writes, to     *)
(* find a free section or a duplicate; to verify; and for its answer.      *)
Reading == {"looking", "verifying", "answering"}
HandlerReads ==
  /\ \/ step = "look" /\ step' = "looking" /\ Lookup(Handler)
     \/ step = "verify" /\ step' = "verifying" /\ Lookup(Handler)
     \/ step = "answer" /\ step' = "answering" /\ Lookup(Handler)
     \/ /\ step \in Reading /\ step' = step
        /\ Hit(Handler) \/ Miss(Handler) \/ Show(Handler) \/ Store(Handler)
  /\ UNCHANGED <<file, kind, saved, changes>>

Goes(from, to) ==
  /\ step = from /\ step' = to
  /\ UNCHANGED <<kind, changes>>

Looked == Goes("looking", "apply") /\ Return(Handler) /\ UNCHANGED <<file, saved>>

(* executor.Snapshot and executor.Apply.                                   *)
Apply ==
  /\ Goes("apply", IF Script[kind].again THEN "again" ELSE "verify")
  /\ saved' = file
  /\ file' = [file EXCEPT !.ver = @ + 1, !.rule = Script[kind].adds]
  /\ UNCHANGED cache

(* A command fails, with the section written or not: to the rollback,      *)
(* without a look at the rules.                                            *)
ApplyFails ==
  /\ Goes("apply", "undo")
  /\ saved' = file
  /\ \/ file' = [file EXCEPT !.ver = @ + 1, !.rule = Script[kind].adds]
     \/ file' = file
  /\ UNCHANGED cache

InvalidateAgain ==
  Goes("again", "verify") /\ InvalidateKey /\ UNCHANGED <<file, saved>>

(* The rule is there after an add, or gone after a delete; uci show may    *)
(* have failed, which reads as no rule at all.                             *)
Verified ==
  /\ Goes("verifying", "answer")
  /\ got[Handler].rule = Script[kind].adds
  /\ Return(Handler)
  /\ UNCHANGED <<file, saved>>

(* "rule not present after reload, rolled back" and its like.              *)
Disproved ==
  /\ Goes("verifying", "undo")
  /\ got[Handler].rule # Script[kind].adds
  /\ Return(Handler)
  /\ UNCHANGED <<file, saved>>

(* executor.Restore; one of the four invalidates after it.                 *)
Undo ==
  /\ Goes("undo", "answer")
  /\ file' = [saved EXCEPT !.ver = file.ver + 1]
  /\ IF Script[kind].after
       THEN slot' = None /\ dropped' = file'.ver
       ELSE UNCHANGED <<slot, dropped>>
  /\ UNCHANGED <<entry, owner, pc, mine, got, floor, saved>>

(* The answer carries the rules as the handler last read them.             *)
Answer ==
  Goes("answering", "idle") /\ Return(Handler) /\ UNCHANGED <<file, saved>>

Change ==
  \/ \E k \in Kinds : Begin(k)
  \/ HandlerReads \/ Looked \/ Apply \/ ApplyFails \/ InvalidateAgain
  \/ Verified \/ Disproved \/ Undo \/ Answer

Next == Tick \/ (\E p \in Pollers : Poll(p)) \/ Change

Spec == Init /\ [][Next]_vars

(* A reader that waits for e.mu gets it in the end: Go's mutexes hand over *)
(* to a goroutine that starves.  uci show ends.                            *)
FairSpec ==
  Spec /\ \A p \in Pollers :
            /\ SF_vars(Poll(p) /\ pc[p] = "lock")
            /\ WF_vars(Poll(p) /\ pc[p] \in {"show", "store"})
       /\ WF_vars(HandlerReads /\ pc[Handler] \in {"show", "store"})
-----------------------------------------------------------------------------
(* readcache.go 15-18: a write invalidates, so that nobody sees the old    *)
(* data.  A read that begins after an InvalidateKey never returns what the *)
(* package held before it, whoever was computing at the time.              *)
FreshAfterInvalidate ==
  \A p \in Procs :
    pc[p] = "back" /\ got[p].ok => got[p].ver >= floor[p]

(* A change whose commands all worked is not rolled back because of what   *)
(* the cache remembers from before it: only a uci show that failed can     *)
(* make the verification fail.                                             *)
UndoneForCause ==
  [][step = "verifying" /\ step' = "undo" => ~got[Handler].ok]_vars

(* firewall.go 493-495: what the handler of an add answers with shows the  *)
(* rules as they are, after a rollback as well.  (A failed delete answers  *)
(* with what it read before its rollback.)                                 *)
AnswersTruthfully ==
  [][step = "answering" /\ step' = "idle" /\ got[Handler].ok
     /\ Script[kind].adds
       => got[Handler].rule = file.rule]_vars

(* Every poll that waits for the mutex of an entry gets its answer.        *)
ReadsEnd == \A p \in Pollers : pc[p] = "lock" ~> pc[p] = "back"
=============================================================================
