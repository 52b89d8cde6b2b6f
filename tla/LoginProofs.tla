----------------------------- MODULE LoginProofs -----------------------------
(***************************************************************************)
(* What Login promises for any addresses, any policy of the throttle and   *)
(* any number of attempts, tokens, changes of the password and restarts:   *)
(* its type, that the throttle keeps an account per address in bounded     *)
(* memory, that sessions survive what they should, and that none survives  *)
(* a change of the password.                                               *)
(***************************************************************************)
EXTENDS Login, FiniteSetTheorems, TLAPS

(* The least of two numbers.                                               *)
LEMMA MinOfTwo ==
  ASSUME NEW m \in Nat, NEW n \in Nat
  PROVE  Min({m, n}) \in {m, n} /\ Min({m, n}) <= m /\ Min({m, n}) <= n
  BY DEF Min

(* The powers of the doubling wait are numbers.                            *)
LEMMA PowerType ==
  ASSUME NEW n \in 1 .. 8
  PROVE  2 ^ (n - 1) \in Nat
  <1>1. CASE n = 1
    <2>1. n - 1 = 0
      BY <1>1
    <2> QED
      BY <2>1
  <1>2. CASE n = 2
    <2>1. n - 1 = 1
      BY <1>2
    <2> QED
      BY <2>1
  <1>3. CASE n = 3
    <2>1. n - 1 = 2
      BY <1>3
    <2> QED
      BY <2>1
  <1>4. CASE n = 4
    <2>1. n - 1 = 3
      BY <1>4
    <2> QED
      BY <2>1
  <1>5. CASE n = 5
    <2>1. n - 1 = 4
      BY <1>5
    <2> QED
      BY <2>1
  <1>6. CASE n = 6
    <2>1. n - 1 = 5
      BY <1>6
    <2> QED
      BY <2>1
  <1>7. CASE n = 7
    <2>1. n - 1 = 6
      BY <1>7
    <2> QED
      BY <2>1
  <1>8. CASE n = 8
    <2>1. n - 1 = 7
      BY <1>8
    <2> QED
      BY <2>1
  <1> QED
    BY <1>1, <1>2, <1>3, <1>4, <1>5, <1>6, <1>7, <1>8

(* The wait never exceeds the cap.                                         *)
LEMMA DelayType ==
  ASSUME NEW failures \in Nat
  PROVE  loginDelay(failures) \in 0 .. loginMaxDelay
  <1>1. loginFreeAttempts \in Nat /\ loginMaxDelay \in Nat
    BY LimitsArePositive
  <1>2. CASE failures <= loginFreeAttempts
    BY <1>1, <1>2 DEF loginDelay, delayAfter
  <1>3. CASE ~(failures <= loginFreeAttempts)
    <2> DEFINE n == Min({failures - loginFreeAttempts, 8})
    <2>1. failures - loginFreeAttempts \in Nat
      BY <1>1, <1>3
    <2>2. failures - loginFreeAttempts # 0
      BY <1>1, <1>3
    <2>3. n \in {failures - loginFreeAttempts, 8} /\ n <= 8
      BY <2>1, MinOfTwo
    <2>4. n \in 1 .. 8
      BY <2>1, <2>2, <2>3
    <2>5. 2 ^ (n - 1) \in Nat
      BY <2>4, PowerType
    <2>6. Min({2 ^ (n - 1), loginMaxDelay}) \in {2 ^ (n - 1), loginMaxDelay}
          /\ Min({2 ^ (n - 1), loginMaxDelay}) <= loginMaxDelay
      BY <1>1, <2>5, MinOfTwo
    <2>7. loginDelay(failures) = Min({2 ^ (n - 1), loginMaxDelay})
      BY <1>3 DEF loginDelay, delayAfter
    <2> QED
      BY <1>1, <2>5, <2>6, <2>7
  <1> QED
    BY <1>2, <1>3

-----------------------------------------------------------------------------
(* The throttle: as many records as there may be, each well formed.        *)
ThrottleType ==
  /\ DOMAIN seen \subseteq Addrs /\ seen \in [DOMAIN seen -> Record]
  /\ IsFiniteSet(DOMAIN seen) /\ Cardinality(DOMAIN seen) <= loginMaxTracked

(* What is left of the map always has room for one more.                   *)
LEMMA PruneLeavesRoom ==
  ASSUME ThrottleType, NEW records \in prune
  PROVE  /\ records \subseteq DOMAIN seen /\ IsFiniteSet(records)
         /\ Cardinality(records) + 1 <= loginMaxTracked
  <1> DEFINE live == {a \in DOMAIN seen : seen[a].age <= loginForget}
             oldest == {a \in live : \A b \in live : seen[a].age >= seen[b].age}
  <1>1. /\ live \subseteq DOMAIN seen /\ IsFiniteSet(live)
        /\ Cardinality(live) <= loginMaxTracked
        /\ Cardinality(live) \in Nat /\ loginMaxTracked \in Nat
    <2>1. live \subseteq DOMAIN seen
      OBVIOUS
    <2>2. IsFiniteSet(live) /\ Cardinality(live) <= Cardinality(DOMAIN seen)
      BY <2>1, FS_Subset DEF ThrottleType
    <2>3. Cardinality(live) \in Nat /\ Cardinality(DOMAIN seen) \in Nat
      BY <2>2, FS_CardinalityType DEF ThrottleType
    <2> QED
      BY <2>1, <2>2, <2>3, LimitsArePositive DEF ThrottleType
  <1>2. CASE records = live /\ Cardinality(live) < loginMaxTracked
    BY <1>1, <1>2
  <1>3. ASSUME NEW a \in live, records = live \ {a}
        PROVE  /\ records \subseteq DOMAIN seen /\ IsFiniteSet(records)
               /\ Cardinality(records) + 1 <= loginMaxTracked
    <2>1. IsFiniteSet(live \ {a}) /\ Cardinality(live \ {a}) = Cardinality(live) - 1
      BY <1>1, FS_RemoveElement
    <2> QED
      BY <1>1, <1>3, <2>1
  <1>4. \/ records = live /\ Cardinality(live) < loginMaxTracked
        \/ \E a \in oldest : records = live \ {a}
    BY DEF prune
  <1> QED
    BY <1>2, <1>3, <1>4

LEMMA CountType ==
  ASSUME ThrottleType, NEW addr \in Addrs, NEW records,
         records \subseteq DOMAIN seen, Count(records, addr),
         IsFiniteSet(records \union {addr}),
         Cardinality(records \union {addr}) <= loginMaxTracked
  PROVE  /\ ThrottleType'
         /\ DOMAIN seen' = records \union {addr}
         /\ \A a \in records \ {addr} : seen'[a] = seen[a]
  <1> DEFINE failures == IF addr \in records
                           THEN Min({seen[addr].failures + 1, MaxFailures}) ELSE 1
             new == [failures |-> failures, age |-> 0, wait |-> loginDelay(failures)]
  <1>1. seen' = [a \in records \union {addr} |-> IF a = addr THEN new ELSE seen[a]]
    BY DEF Count
  <1>2. failures \in 1 .. MaxFailures
    <2>1. CASE addr \in records
      <3>1. seen[addr] \in Record
        BY <2>1 DEF ThrottleType
      <3>2. seen[addr].failures + 1 \in Nat \ {0} /\ MaxFailures \in Nat \ {0}
        BY <3>1, BoundsAreNumbers DEF Record
      <3> QED
        BY <2>1, <3>2, MinOfTwo
    <2>2. CASE addr \notin records
      BY <2>2, BoundsAreNumbers
    <2> QED
      BY <2>1, <2>2
  <1>3. new \in Record
    <2>1. loginDelay(failures) \in 0 .. loginMaxDelay
      BY <1>2, DelayType, BoundsAreNumbers
    <2>2. 0 \in 0 .. loginForget + 1
      BY LimitsArePositive
    <2> QED
      BY <1>2, <2>1, <2>2 DEF Record
  <1> HIDE DEF new
  <1>4. DOMAIN seen' = records \union {addr}
    BY <1>1
  <1>5. \A a \in records \union {addr} : seen'[a] = IF a = addr THEN new ELSE seen[a]
    BY <1>1
  <1>6. \A a \in records \union {addr} : seen'[a] \in Record
    BY <1>3, <1>5 DEF ThrottleType
  <1>7. seen' \in [DOMAIN seen' -> Record]
    BY <1>1, <1>4, <1>6
  <1> QED
    BY <1>4, <1>5, <1>7 DEF ThrottleType

-----------------------------------------------------------------------------
(* The type, in parts.                                                     *)
AttemptsTyped ==
  /\ attempt \in [Attempts -> [at : {"none", "asking", "make", "open", "sign"},
                               addr : Addrs, key : 0 .. made, cookie : BOOLEAN]]
  /\ made \in Nat /\ secret \in 0 .. made
TokensTyped ==
  /\ token \in [Tokens -> [secret : 0 .. made, epoch : 0 .. MaxBumps]]
  /\ revoked \subseteq Tokens /\ expired \subseteq Tokens
  /\ epochFile \in {{}} \union {{n} : n \in 0 .. MaxBumps}
BumpsTyped ==
  /\ bump \in [Bumps -> [at : {"none", "read", "open", "done", "gone"},
                         read : 0 .. MaxBumps, before : SUBSET Tokens]]
  /\ clobbered \in BOOLEAN

Writing(b) == bump[b].at \in {"read", "open"}
(* The changes start in order, and each raises the epoch by one at most: it*)
(* stays within the number of those that started.                          *)
Counted ==
  /\ \A b \in Bumps :
       bump[b].at # "none" => \A o \in 1 .. b - 1 : bump[o].at # "none"
  /\ \A n \in epochFile :
       n = 0 \/ \E b \in Bumps : bump[b].at # "none" /\ n <= b
  /\ \A b \in Bumps : Writing(b) => bump[b].read < b
Typed == ThrottleType /\ AttemptsTyped /\ TokensTyped /\ BumpsTyped /\ Counted

(* Unless something went wrong with the file of the epoch, one change at a *)
(* time is at it; what it has read is the epoch, and what it will write is *)
(* more than the epoch of any token.  A token from before a change that is *)
(* done is below the epoch, also below the one that is being replaced.     *)
OneWriter ==
  \A b, o \in Bumps : Writing(b) /\ Writing(o) => b = o
Emptied == \A b \in Bumps : bump[b].at = "open" => epochFile = {}
ReadIsEpoch == \A b \in Bumps : bump[b].at = "read" => bump[b].read = epoch
NoneAbove ==
  /\ (\A b \in Bumps : bump[b].at # "open")
       => \A t \in Tokens : token[t].epoch <= epoch
  /\ \A b \in Bumps, t \in Tokens :
       bump[b].at = "open" => token[t].epoch <= bump[b].read
EarlierBelow ==
  \A c \in Bumps : bump[c].at = "done" =>
    \A t \in bump[c].before :
      /\ (\A b \in Bumps : bump[b].at # "open") => token[t].epoch < epoch
      /\ \A b \in Bumps : bump[b].at = "open" => token[t].epoch < bump[b].read
OutWell ==
  OneWriter /\ Emptied /\ ReadIsEpoch /\ NoneAbove /\ EarlierBelow
OutInv ==
  /\ \A b \in Bumps : bump[b].before \subseteq Issued
  /\ ~clobbered => OutWell

-----------------------------------------------------------------------------
(* What the operators of the epoch and of the throttle return.             *)

LEMMA EpochOf ==
  ASSUME NEW n \in Nat, epochFile = {n}
  PROVE  epoch = n
  <1>1. Max({n}) = n
    BY DEF Max
  <1> QED
    BY <1>1 DEF epoch

LEMMA EpochType ==
  ASSUME TokensTyped
  PROVE  epoch \in 0 .. MaxBumps
  <1>1. CASE epochFile = {}
    BY <1>1, BoundsAreNumbers DEF epoch
  <1>2. ASSUME NEW n \in 0 .. MaxBumps, epochFile = {n}
        PROVE  epoch \in 0 .. MaxBumps
    BY <1>2, EpochOf, BoundsAreNumbers
  <1> QED
    BY <1>1, <1>2 DEF TokensTyped

(* The next of the changes finds an epoch below its own number.            *)
LEMMA EpochBelow ==
  ASSUME TokensTyped, BumpsTyped, Counted, NEW b \in Bumps,
         bump[b].at = "none"
  PROVE  epoch < b
  <1>1. CASE epochFile = {}
    BY <1>1, BoundsAreNumbers DEF epoch, Bumps
  <1>2. ASSUME NEW n \in 0 .. MaxBumps, epochFile = {n}
        PROVE  epoch < b
    <2>1. epoch = n
      BY <1>2, EpochOf, BoundsAreNumbers
    <2>2. n = 0 \/ \E o \in Bumps : bump[o].at # "none" /\ n <= o
      BY <1>2 DEF Counted
    <2>3. CASE n = 0
      BY <2>1, <2>3, BoundsAreNumbers DEF Bumps
    <2>4. ASSUME NEW o \in Bumps, bump[o].at # "none", n <= o
          PROVE  epoch < b
      <3>1. ~(b \in 1 .. o - 1) /\ o # b
        BY <2>4 DEF Counted
      <3>2. o < b
        BY <3>1, BoundsAreNumbers DEF Bumps
      <3> QED
        BY <2>1, <2>4, <3>2, BoundsAreNumbers DEF Bumps
    <2> QED
      BY <2>2, <2>3, <2>4
  <1> QED
    BY <1>1, <1>2 DEF TokensTyped

(* Counting a failure touches the record of its own address only, or drops *)
(* others from a map that is full.                                         *)
LEMMA FailedType ==
  ASSUME ThrottleType, NEW addr \in Addrs, failed(addr)
  PROVE  /\ ThrottleType'
         /\ \A a \in DOMAIN seen' \ {addr} : a \in DOMAIN seen /\ seen'[a] = seen[a]
  <1>1. CASE addr \in DOMAIN seen
    <2>1. Count(DOMAIN seen, addr) /\ DOMAIN seen \union {addr} = DOMAIN seen
      BY <1>1 DEF failed
    <2>2. /\ IsFiniteSet(DOMAIN seen \union {addr})
          /\ Cardinality(DOMAIN seen \union {addr}) <= loginMaxTracked
      BY <2>1 DEF ThrottleType
    <2> QED
      BY <2>1, <2>2, CountType
  <1>2. ASSUME addr \notin DOMAIN seen, NEW records \in prune,
               Count(records, addr)
        PROVE  /\ ThrottleType'
               /\ \A a \in DOMAIN seen' \ {addr} :
                    a \in DOMAIN seen /\ seen'[a] = seen[a]
    <2>1. /\ records \subseteq DOMAIN seen /\ IsFiniteSet(records)
          /\ Cardinality(records) + 1 <= loginMaxTracked
      BY PruneLeavesRoom
    <2>2. /\ IsFiniteSet(records \union {addr})
          /\ Cardinality(records \union {addr}) = Cardinality(records) + 1
      BY <1>2, <2>1, FS_AddElement
    <2> QED
      BY <1>2, <2>1, <2>2, CountType
  <1> QED
    BY <1>1, <1>2 DEF failed

(* Forgetting the failures of an address keeps the records of the others.  *)
LEMMA SucceededType ==
  ASSUME ThrottleType, NEW addr, succeeded(addr)
  PROVE  /\ ThrottleType'
         /\ \A a \in DOMAIN seen' : a \in DOMAIN seen /\ seen'[a] = seen[a]
  <1>1. /\ DOMAIN seen' = DOMAIN seen \ {addr}
        /\ \A a \in DOMAIN seen \ {addr} : seen'[a] = seen[a]
        /\ seen' \in [DOMAIN seen \ {addr} -> Record]
    BY DEF succeeded, Keep, ThrottleType
  <1>2. /\ IsFiniteSet(DOMAIN seen \ {addr})
        /\ Cardinality(DOMAIN seen \ {addr}) <= Cardinality(DOMAIN seen)
    BY FS_Subset DEF ThrottleType
  <1>3. /\ Cardinality(DOMAIN seen \ {addr}) \in Nat
        /\ Cardinality(DOMAIN seen) \in Nat /\ loginMaxTracked \in Nat
    BY <1>2, FS_CardinalityType, LimitsArePositive DEF ThrottleType
  <1>4. IsFiniteSet(DOMAIN seen') /\ Cardinality(DOMAIN seen') <= loginMaxTracked
    BY <1>1, <1>2, <1>3 DEF ThrottleType
  <1> QED
    BY <1>1, <1>4 DEF ThrottleType

(* A second takes one from what is left to wait, and never below nothing.  *)
LEMMA SecondPasses ==
  ASSUME ThrottleType, Second
  PROVE  /\ ThrottleType'
         /\ DOMAIN seen' = DOMAIN seen
         /\ \A a \in DOMAIN seen : seen'[a].wait <= seen[a].wait
  <1>1. /\ DOMAIN seen' = DOMAIN seen
        /\ \A a \in DOMAIN seen :
             seen'[a] = [seen[a] EXCEPT !.wait = IF @ = 0 THEN 0 ELSE @ - 1,
                                       !.age = IF @ > loginForget THEN @ ELSE @ + 1]
    BY DEF Second
  <1>2. ASSUME NEW a \in DOMAIN seen
        PROVE  seen'[a] \in Record /\ seen'[a].wait <= seen[a].wait
    <2>1. seen[a] \in Record
      BY DEF ThrottleType
    <2>2. /\ seen'[a].failures = seen[a].failures
          /\ seen'[a].wait = IF seen[a].wait = 0 THEN 0 ELSE seen[a].wait - 1
          /\ seen'[a].age = IF seen[a].age > loginForget THEN seen[a].age
                            ELSE seen[a].age + 1
          /\ seen'[a] = [failures |-> seen'[a].failures, wait |-> seen'[a].wait,
                         age |-> seen'[a].age]
      BY <1>1, <2>1 DEF Record
    <2>3. seen'[a].wait \in 0 .. loginMaxDelay /\ seen'[a].wait <= seen[a].wait
      BY <2>1, <2>2, LimitsArePositive DEF Record
    <2>4. seen'[a].age \in 0 .. loginForget + 1
      BY <2>1, <2>2, LimitsArePositive DEF Record
    <2>5. seen'[a].failures \in 1 .. MaxFailures
      BY <2>1, <2>2 DEF Record
    <2>6. seen'[a] \in Record
      BY <2>2, <2>3, <2>4, <2>5 DEF Record
    <2> QED
      BY <2>3, <2>6
  <1>3. seen' \in [DOMAIN seen -> Record]
    BY <1>2 DEF Second
  <1> QED
    BY <1>1, <1>2, <1>3 DEF ThrottleType

-----------------------------------------------------------------------------
(* A step keeps the throttle well formed.                                  *)
LEMMA ThrottleStep ==
  ASSUME Typed, [Next]_vars
  PROVE  ThrottleType'
  <1>1. CASE UNCHANGED seen
    BY <1>1 DEF Typed, ThrottleType
  <1>2. CASE Second
    BY <1>2, SecondPasses DEF Typed
  <1>3. CASE Restart
    <2>1. seen' = <<>>
      BY <1>3 DEF Restart
    <2>2. DOMAIN seen' = {}
      BY <2>1
    <2>3. IsFiniteSet(DOMAIN seen') /\ Cardinality(DOMAIN seen') = 0
      BY <2>2, FS_EmptySet
    <2>4. seen' \in [DOMAIN seen' -> Record]
      BY <2>1, <2>2
    <2> QED
      BY <2>2, <2>3, <2>4, LimitsArePositive DEF ThrottleType
  <1>4. ASSUME NEW a \in Attempts, Refused(a)
        PROVE  ThrottleType'
    <2>1. attempt[a].addr \in Addrs
      BY DEF Typed, AttemptsTyped
    <2> QED
      BY <1>4, <2>1, FailedType DEF Refused, Typed
  <1>5. ASSUME NEW a \in Attempts, NewSessionToken(a)
        PROVE  ThrottleType'
    BY <1>5, SucceededType DEF NewSessionToken, Typed
  <1> QED
    BY <1>1, <1>2, <1>3, <1>4, <1>5 DEF Next, Submit, Unserved, Login,
       ReadSecret, Visit, Secret, OpenSecret, NoSecret, MakeSecret, Clock,
       Logout, handlePasswordSet, Bump, BumpOpen, BumpEpoch, BumpFails, throttle,
       vars

Steps == {"none", "asking", "make", "open", "sign"}
Request(n) == [at : Steps, addr : Addrs, key : 0 .. n, cookie : BOOLEAN]

(* One attempt at a time is replaced by another of its kind.               *)
LEMMA OneAttempt ==
  ASSUME AttemptsTyped, NEW a \in Attempts,
         made' \in Nat, made <= made', secret' \in 0 .. made',
         DOMAIN attempt' = Attempts, attempt' = [o \in Attempts |-> attempt'[o]],
         \A o \in Attempts \ {a} : attempt'[o] = attempt[o],
         attempt'[a] \in Request(made')
  PROVE  AttemptsTyped'
  <1>1. \A o \in Attempts : attempt[o] \in Request(made')
    BY DEF AttemptsTyped, Request, Steps
  <1>2. \A o \in Attempts : attempt'[o] \in Request(made')
    BY <1>1
  <1>3. attempt' \in [Attempts -> Request(made')]
    BY <1>2
  <1> QED
    BY <1>3 DEF AttemptsTyped, Request, Steps

(* The attempts in flight, whatever the number of secrets.                 *)
LEMMA AttemptsStep ==
  ASSUME Typed, [Next]_vars
  PROVE  AttemptsTyped' /\ made <= made'
  <1>1. /\ made \in Nat /\ secret \in 0 .. made /\ AttemptsTyped
        /\ attempt \in [Attempts -> Request(made)]
    BY DEF Typed, AttemptsTyped, Request, Steps
  <1>2. NoAttempt \in Request(made)
    BY <1>1, AdminIsAnAddress DEF NoAttempt, Request, Steps
  <1>3. \A a \in Attempts : attempt[a] \in Request(made)
    BY <1>1
  <1>4. CASE UNCHANGED <<attempt, made, secret>>
    BY <1>1, <1>4 DEF AttemptsTyped
  <1>5. CASE Restart
    <2>1. attempt' \in [Attempts -> Request(made)] /\ made' = made /\ secret' = secret
      BY <1>2, <1>5 DEF Restart
    <2> QED
      BY <1>1, <2>1 DEF AttemptsTyped, Request, Steps
  <1>11. ASSUME NEW a \in Attempts, Visit(a)
         PROVE  AttemptsTyped' /\ made <= made'
    <2>1. [NoAttempt EXCEPT !.at = "make", !.cookie = TRUE] \in Request(made)
      BY <1>2 DEF Request, Steps
    <2>2. /\ DOMAIN attempt' = Attempts /\ attempt' = [o \in Attempts |-> attempt'[o]]
          /\ \A o \in Attempts \ {a} : attempt'[o] = attempt[o]
          /\ attempt'[a] = [NoAttempt EXCEPT !.at = "make", !.cookie = TRUE]
      BY <1>1, <1>11 DEF Visit
    <2>3. made' = made /\ secret' = secret
      BY <1>11 DEF Visit, sessions
    <2> QED
      BY <1>1, <2>1, <2>2, <2>3, OneAttempt
  <1>12. ASSUME NEW a \in Attempts, OpenSecret(a)
         PROVE  AttemptsTyped' /\ made <= made'
    <2>1. [attempt[a] EXCEPT !.at = "open"] \in Request(made)
      BY <1>3 DEF Request, Steps
    <2>2. /\ DOMAIN attempt' = Attempts /\ attempt' = [o \in Attempts |-> attempt'[o]]
          /\ \A o \in Attempts \ {a} : attempt'[o] = attempt[o]
          /\ attempt'[a] = [attempt[a] EXCEPT !.at = "open"]
      BY <1>1, <1>12 DEF OpenSecret
    <2>3. made' = made /\ secret' = 0
      BY <1>12 DEF OpenSecret
    <2> QED
      BY <1>1, <2>1, <2>2, <2>3, OneAttempt
  <1>6. ASSUME NEW a \in Attempts, NEW addr \in Addrs, Submit(a, addr)
        PROVE  AttemptsTyped' /\ made <= made'
    <2>1. [NoAttempt EXCEPT !.at = "asking", !.addr = addr] \in Request(made)
      BY <1>2 DEF Request, Steps
    <2>2. /\ DOMAIN attempt' = Attempts /\ attempt' = [o \in Attempts |-> attempt'[o]]
          /\ \A o \in Attempts \ {a} : attempt'[o] = attempt[o]
          /\ attempt'[a] = [NoAttempt EXCEPT !.at = "asking", !.addr = addr]
      BY <1>1, <1>6 DEF Submit
    <2>3. made' = made /\ secret' = secret
      BY <1>6 DEF Submit, sessions
    <2> QED
      BY <1>1, <2>1, <2>2, <2>3, OneAttempt
  <1>7. ASSUME NEW a \in Attempts, Refused(a) \/ Unserved(a) \/ NoSecret(a)
        PROVE  AttemptsTyped' /\ made <= made'
    <2>1. /\ DOMAIN attempt' = Attempts /\ attempt' = [o \in Attempts |-> attempt'[o]]
          /\ \A o \in Attempts \ {a} : attempt'[o] = attempt[o]
          /\ attempt'[a] = NoAttempt
      BY <1>1, <1>7 DEF Refused, Unserved, NoSecret
    <2>2. made' = made /\ secret' = secret
      BY <1>7 DEF Refused, Unserved, NoSecret, sessions
    <2> QED
      BY <1>1, <1>2, <2>1, <2>2, OneAttempt
  <1>8. ASSUME NEW a \in Attempts, ReadSecret(a)
        PROVE  AttemptsTyped' /\ made <= made'
    <2> DEFINE step == IF secret = 0 THEN "make" ELSE "sign"
    <2>1. [attempt[a] EXCEPT !.at = step, !.key = secret] \in Request(made)
      <3>1. step \in Steps
        BY DEF Steps
      <3> QED
        BY <1>1, <1>3, <3>1 DEF Request
    <2>2. /\ DOMAIN attempt' = Attempts /\ attempt' = [o \in Attempts |-> attempt'[o]]
          /\ \A o \in Attempts \ {a} : attempt'[o] = attempt[o]
      BY <1>1, <1>8 DEF ReadSecret
    <2>3. attempt'[a] = [attempt[a] EXCEPT !.at = step, !.key = secret]
      BY <1>1, <1>8 DEF ReadSecret, Request
    <2>4. made' = made /\ secret' = secret
      BY <1>8 DEF ReadSecret, sessions
    <2> QED
      BY <1>1, <2>1, <2>2, <2>3, <2>4, OneAttempt
  <1>9. ASSUME NEW a \in Attempts, MakeSecret(a)
        PROVE  AttemptsTyped' /\ made <= made'
    <2>1. made' = made + 1 /\ secret' = made + 1
      BY <1>9 DEF MakeSecret
    <2>2. attempt[a] \in Request(made + 1)
      BY <1>1, <1>3 DEF Request
    <2> DEFINE next == IF attempt[a].cookie THEN NoAttempt
                       ELSE [attempt[a] EXCEPT !.at = "sign", !.key = made + 1]
    <2>3. next \in Request(made + 1)
      <3>1. "sign" \in Steps /\ made + 1 \in 0 .. made + 1
        BY <1>1 DEF Steps
      <3>2. [attempt[a] EXCEPT !.at = "sign", !.key = made + 1] \in Request(made + 1)
        BY <2>2, <3>1 DEF Request
      <3>3. NoAttempt \in Request(made + 1)
        BY <1>1, <1>2 DEF Request
      <3> QED
        BY <3>2, <3>3
    <2>4. /\ DOMAIN attempt' = Attempts /\ attempt' = [o \in Attempts |-> attempt'[o]]
          /\ \A o \in Attempts \ {a} : attempt'[o] = attempt[o]
          /\ attempt'[a] = next
      BY <1>1, <1>9 DEF MakeSecret
    <2> QED
      BY <1>1, <2>1, <2>3, <2>4, OneAttempt
  <1>10. ASSUME NEW a \in Attempts, NewSessionToken(a)
         PROVE  AttemptsTyped' /\ made <= made'
    <2>1. /\ DOMAIN attempt' = Attempts /\ attempt' = [o \in Attempts |-> attempt'[o]]
          /\ \A o \in Attempts \ {a} : attempt'[o] = attempt[o]
          /\ attempt'[a] = NoAttempt
      BY <1>1, <1>10 DEF NewSessionToken
    <2>2. made' = made /\ secret' = secret
      BY <1>10 DEF NewSessionToken
    <2> QED
      BY <1>1, <1>2, <2>1, <2>2, OneAttempt
  <1> QED
    BY <1>4, <1>5, <1>6, <1>7, <1>8, <1>9, <1>10, <1>11, <1>12 DEF Next, Second,
       Clock, Login, Secret, Logout, handlePasswordSet, Bump, BumpOpen, BumpEpoch,
       BumpFails, sessions, vars

(* The tokens issued, the revocations and the file of the epoch.           *)
LEMMA TokensStep ==
  ASSUME Typed, [Next]_vars
  PROVE  TokensTyped'
  <1>1. made \in Nat /\ made' \in Nat /\ made <= made'
    BY AttemptsStep DEF Typed, AttemptsTyped
  <1>2. token' = token => token' \in [Tokens -> [secret : 0 .. made', epoch : 0 .. MaxBumps]]
    BY <1>1 DEF Typed, TokensTyped
  <1>3. CASE UNCHANGED <<token, revoked, expired, epochFile>>
    BY <1>2, <1>3 DEF Typed, TokensTyped
  <1>4. CASE Restart
    BY <1>2, <1>4 DEF Restart, Typed, TokensTyped
  <1>9. CASE Clock
    BY <1>2, <1>9 DEF Clock, Issued, Typed, TokensTyped
  <1>5. ASSUME NEW t \in Issued, Logout(t)
        PROVE  TokensTyped'
    BY <1>2, <1>5 DEF Logout, Issued, Typed, TokensTyped
  <1>6. ASSUME NEW a \in Attempts, NewSessionToken(a)
        PROVE  TokensTyped'
    <2>1. attempt[a].key \in 0 .. made
      BY DEF Typed, AttemptsTyped
    <2>2. epoch \in 0 .. MaxBumps
      BY EpochType DEF Typed
    <2>3. token' \in [Tokens -> [secret : 0 .. made, epoch : 0 .. MaxBumps]]
      BY <1>6, <2>1, <2>2 DEF NewSessionToken, Typed, TokensTyped
    <2> QED
      BY <1>6, <2>3 DEF NewSessionToken, Typed, TokensTyped
  <1>7. ASSUME NEW b \in Bumps, BumpOpen(b)
        PROVE  TokensTyped'
    BY <1>2, <1>7 DEF BumpOpen, Typed, TokensTyped
  <1>8. ASSUME NEW b \in Bumps, BumpEpoch(b)
        PROVE  TokensTyped'
    <2>1. bump[b].read \in 0 .. MaxBumps /\ bump[b].read < b
      BY <1>8 DEF BumpEpoch, Typed, BumpsTyped, Counted, Writing
    <2>2. bump[b].read + 1 \in 0 .. MaxBumps
      BY <2>1, BoundsAreNumbers DEF Bumps
    <2> QED
      BY <1>2, <1>8, <2>2 DEF BumpEpoch, Typed, TokensTyped
  <1> QED
    BY <1>3, <1>4, <1>5, <1>6, <1>7, <1>8, <1>9 DEF Next, Second, Submit,
       Refused, Unserved, Login, ReadSecret, Visit, Secret, OpenSecret, NoSecret,
       MakeSecret, Clock, handlePasswordSet, Bump, BumpFails, sessions, vars

Stages == {"none", "read", "open", "done", "gone"}
Change == [at : Stages, read : 0 .. MaxBumps, before : SUBSET Tokens]

(* What each step makes of a change.                                       *)
LEMMA ChangeStep ==
  ASSUME Typed, [Next]_vars, NEW b \in Bumps
  PROVE  /\ bump'[b] \in Change
         /\ \/ bump'[b] = bump[b]
            \/ bump'[b] = Gone /\ Writing(b)
            \/ /\ handlePasswordSet(b)
               /\ bump'[b] = [at |-> "read", read |-> epoch, before |-> Issued]
            \/ /\ BumpOpen(b) /\ bump'[b].at = "open"
               /\ bump'[b].read = bump[b].read /\ bump'[b].before = bump[b].before
            \/ /\ BumpEpoch(b) /\ bump'[b].at = "done" /\ bump'[b].read = 0
               /\ bump'[b].before = bump[b].before
  <1>1. bump[b] \in Change /\ DOMAIN bump = Bumps
    BY DEF Typed, BumpsTyped, Change, Stages
  <1>2. Gone \in Change
    <2>1. Gone = [at |-> "gone", read |-> 0, before |-> {}]
      BY DEF Gone, NoBump
    <2> QED
      BY <2>1, BoundsAreNumbers DEF Change, Stages
  <1>3. [at |-> "read", read |-> epoch, before |-> Issued] \in Change
    BY EpochType DEF Typed, Change, Issued, Stages
  <1>4. CASE UNCHANGED bump
    BY <1>1, <1>4
  <1>5. CASE Restart
    BY <1>1, <1>2, <1>5 DEF Restart, Writing
  <1>6. ASSUME NEW o \in Bumps, o # b,
               handlePasswordSet(o) \/ BumpOpen(o) \/ BumpEpoch(o) \/ BumpFails(o)
        PROVE  bump'[b] = bump[b]
    BY <1>1, <1>6 DEF handlePasswordSet, BumpOpen, BumpEpoch, BumpFails
  <1>7. CASE handlePasswordSet(b)
    BY <1>1, <1>3, <1>7 DEF handlePasswordSet
  <1>8. CASE BumpOpen(b)
    <2>1. bump'[b] = [bump[b] EXCEPT !.at = "open"]
      BY <1>1, <1>8 DEF BumpOpen
    <2>2. bump'[b] \in Change
      BY <1>1, <2>1 DEF Change, Stages
    <2>3. /\ bump'[b].at = "open" /\ bump'[b].read = bump[b].read
          /\ bump'[b].before = bump[b].before
      BY <1>1, <2>1 DEF Change
    <2> QED
      BY <1>8, <2>2, <2>3
  <1>9. CASE BumpEpoch(b)
    <2>1. bump'[b] = [[bump[b] EXCEPT !.at = "done"] EXCEPT !.read = 0]
      BY <1>1, <1>9 DEF BumpEpoch, Change
    <2>2. bump'[b] \in Change
      <3>1. "done" \in Stages /\ 0 \in 0 .. MaxBumps
        BY BoundsAreNumbers DEF Stages
      <3> QED
        BY <1>1, <2>1, <3>1 DEF Change
    <2>3. /\ bump'[b].at = "done" /\ bump'[b].read = 0
          /\ bump'[b].before = bump[b].before
      BY <1>1, <2>1 DEF Change
    <2> QED
      BY <1>9, <2>2, <2>3
  <1>10. CASE BumpFails(b)
    BY <1>1, <1>2, <1>10 DEF BumpFails, Writing
  <1> QED
    BY <1>1, <1>4, <1>5, <1>6, <1>7, <1>8, <1>9, <1>10 DEF Next, Second, Submit,
       Refused, Unserved, Login, ReadSecret, Visit, Secret, OpenSecret, NoSecret,
       MakeSecret, Clock, NewSessionToken, Logout, Bump, vars

LEMMA BumpsStep ==
  ASSUME Typed, [Next]_vars
  PROVE  BumpsTyped'
  <1>1. bump' = [b \in Bumps |-> bump'[b]]
    <2>1. bump \in [Bumps -> Change]
      BY DEF Typed, BumpsTyped, Change, Stages
    <2> QED
      BY <2>1 DEF Next, Second, Restart, Submit, Refused, Unserved, Login,
         ReadSecret, Visit, Secret, OpenSecret, NoSecret, MakeSecret, Clock,
         NewSessionToken, Logout, Bump, handlePasswordSet, BumpOpen, BumpEpoch,
         BumpFails, vars
  <1>2. bump' \in [Bumps -> Change]
    BY <1>1, ChangeStep
  <1>3. clobbered' \in BOOLEAN
    BY DEF Typed, BumpsTyped, Next, Second, Restart, Submit, Refused, Unserved,
       Login, ReadSecret, Visit, Secret, OpenSecret, NoSecret, MakeSecret, Clock,
       NewSessionToken, Logout, Bump, handlePasswordSet, BumpOpen, BumpEpoch,
       BumpFails, vars
  <1> QED
    BY <1>2, <1>3 DEF BumpsTyped, Change, Stages

(* Who writes the file of the epoch: nobody else does.                     *)
LEMMA EpochStep ==
  ASSUME [Next]_vars
  PROVE  \/ epochFile' = epochFile
         \/ \E b \in Bumps : BumpOpen(b) /\ epochFile' = {}
         \/ \E b \in Bumps : BumpEpoch(b) /\ epochFile' = {bump[b].read + 1}
  BY DEF Next, Second, Restart, Submit, Refused, Unserved, Login, ReadSecret,
     Visit, Secret, OpenSecret, NoSecret, MakeSecret, Clock, NewSessionToken,
     Logout, Bump, handlePasswordSet, BumpOpen, BumpEpoch, BumpFails, sessions,
     vars

LEMMA CountedStep ==
  ASSUME Typed, [Next]_vars
  PROVE  Counted'
  <1>1. \A b \in Bumps : bump'[b].at = "none" => bump[b].at = "none"
    BY ChangeStep DEF Gone, NoBump
  <1>2. ASSUME NEW b \in Bumps, bump'[b].at # "none", NEW o \in 1 .. b - 1
        PROVE  bump'[o].at # "none"
    <2>1. o \in Bumps
      BY BoundsAreNumbers DEF Bumps
    <2>2. CASE bump[b].at # "none"
      BY <1>1, <2>1, <2>2 DEF Typed, Counted
    <2>3. CASE bump[b].at = "none"
      <3>1. handlePasswordSet(b)
        BY <1>2, <2>3, ChangeStep DEF Writing, BumpOpen, BumpEpoch
      <3> QED
        BY <1>1, <2>1, <3>1 DEF handlePasswordSet
    <2> QED
      BY <2>2, <2>3
  <1>3. ASSUME NEW n \in epochFile'
        PROVE  n = 0 \/ \E b \in Bumps : bump'[b].at # "none" /\ n <= b
    <2>1. CASE epochFile' = epochFile
      BY <1>1, <2>1 DEF Typed, Counted
    <2>2. ASSUME NEW b \in Bumps, BumpEpoch(b), epochFile' = {bump[b].read + 1}
          PROVE  \E c \in Bumps : bump'[c].at # "none" /\ n <= c
      <3>1. bump[b].read < b /\ bump[b].read \in 0 .. MaxBumps
        BY <2>2 DEF BumpEpoch, Writing, Typed, Counted, BumpsTyped
      <3>2. n <= b
        BY <2>2, <3>1, BoundsAreNumbers DEF Bumps
      <3>3. bump[b].at # "none"
        BY <2>2 DEF BumpEpoch
      <3> QED
        BY <1>1, <3>2, <3>3
    <2> QED
      BY <2>1, <2>2, EpochStep
  <1>4. ASSUME NEW b \in Bumps, Writing(b)'
        PROVE  bump'[b].read < b
    <2>1. bump[b].at \in {"read", "open"} => bump[b].read < b
      BY DEF Typed, Counted, Writing
    <2>2. bump[b].at = "none" => epoch < b
      BY EpochBelow DEF Typed
    <2>3. bump'[b].at \in {"read", "open"}
      BY <1>4 DEF Writing
    <2> QED
      BY <2>1, <2>2, <2>3, ChangeStep
      DEF Gone, NoBump, handlePasswordSet, BumpOpen
  <1> QED
    BY <1>2, <1>3, <1>4 DEF Counted

LEMMA TypedInit ==
  ASSUME Init
  PROVE  Typed
  <1>1. ThrottleType
    <2>1. seen = <<>> /\ DOMAIN seen = {}
      BY DEF Init
    <2>2. IsFiniteSet({}) /\ Cardinality({}) = 0
      BY FS_EmptySet
    <2>3. seen \in [{} -> Record]
      BY <2>1
    <2> QED
      BY <2>1, <2>2, <2>3, LimitsArePositive DEF ThrottleType
  <1>2. AttemptsTyped
    BY AdminIsAnAddress DEF Init, AttemptsTyped, NoAttempt
  <1>3. TokensTyped
    BY BoundsAreNumbers DEF Init, TokensTyped, NoToken
  <1>4. bump = [b \in Bumps |-> [at |-> "none", read |-> 0, before |-> {}]]
        /\ clobbered = FALSE /\ epochFile = {}
    BY DEF Init, NoBump
  <1>5. BumpsTyped
    <2>1. [at |-> "none", read |-> 0, before |-> {}] \in Change
      BY BoundsAreNumbers DEF Change, Stages
    <2>2. bump \in [Bumps -> Change]
      BY <1>4, <2>1
    <2> QED
      BY <1>4, <2>2 DEF BumpsTyped, Change, Stages
  <1>6. Counted
    BY <1>4 DEF Counted, Writing
  <1> QED
    BY <1>1, <1>2, <1>3, <1>5, <1>6 DEF Typed

LEMMA TypedAlways == Spec => []Typed
  <1>1. ASSUME Typed, [Next]_vars PROVE Typed'
    BY <1>1, ThrottleStep, AttemptsStep, TokensStep, BumpsStep, CountedStep DEF Typed
  <1> QED
    BY <1>1, TypedInit, PTL DEF Spec

(* Every variable has its type, and the throttle never keeps more records  *)
(* than loginMaxTracked: prune makes room before failed adds one.          *)
THEOREM LoginTyped == Spec => []TypeOK
  <1>1. Typed => TypeOK
    BY DEF Typed, TypeOK, ThrottleType, AttemptsTyped, TokensTyped, BumpsTyped
  <1> QED
    BY <1>1, TypedAlways, PTL

-----------------------------------------------------------------------------
(* retryAfter answers more than before for an address only when an attempt *)
(* of that address was refused: what others fail at, a record that is      *)
(* dropped to make room, and a login that succeeds never add to it.        *)
THEOREM OwnBudgetAlways == Spec => OwnBudget
  <1>1. ASSUME Typed, [Next]_vars, NEW addr \in Addrs,
               (retryAfter(addr))' > retryAfter(addr)
        PROVE  \E a \in Attempts : /\ attempt[a].at = "asking"
                                  /\ attempt[a].addr = addr
                                  /\ attempt'[a].at = "none"
    <2>1. retryAfter(addr) \in Nat
      <3>1. addr \in DOMAIN seen => seen[addr] \in Record
        BY <1>1 DEF Typed, ThrottleType
      <3>2. addr \in DOMAIN seen => seen[addr].wait \in Nat
        BY <3>1, LimitsArePositive DEF Record
      <3> QED
        BY <3>2 DEF retryAfter
    <2>2. addr \in DOMAIN seen'
      BY <1>1, <2>1 DEF retryAfter
    <2>3. ~(addr \in DOMAIN seen /\ seen'[addr].wait <= seen[addr].wait)
      <3>1. SUFFICES ASSUME addr \in DOMAIN seen, seen'[addr].wait <= seen[addr].wait
                     PROVE  FALSE
        OBVIOUS
      <3>2. (retryAfter(addr))' = seen'[addr].wait /\ retryAfter(addr) = seen[addr].wait
        BY <2>2, <3>1 DEF retryAfter
      <3>3. seen'[addr] \in Record /\ seen[addr] \in Record
        BY <1>1, <2>2, <3>1, ThrottleStep DEF Typed, ThrottleType
      <3>4. seen'[addr].wait \in Nat /\ seen[addr].wait \in Nat
        BY <3>3, LimitsArePositive DEF Record
      <3> QED
        BY <1>1, <3>1, <3>2, <3>4
    <2>4. ~(addr \in DOMAIN seen /\ seen'[addr] = seen[addr])
      <3>1. SUFFICES ASSUME addr \in DOMAIN seen, seen'[addr] = seen[addr]
                     PROVE  FALSE
        OBVIOUS
      <3>2. (retryAfter(addr))' = seen[addr].wait /\ retryAfter(addr) = seen[addr].wait
        BY <2>2, <3>1 DEF retryAfter
      <3> QED
        BY <1>1, <2>1, <3>2
    <2>5. ~(seen' = seen)
      BY <2>2, <2>4
    <2>6. ~Second
      BY <1>1, <2>2, <2>3, SecondPasses DEF Typed
    <2>7. ~Restart
      BY <2>2 DEF Restart
    <2>8. ASSUME NEW a \in Attempts, NewSessionToken(a)
          PROVE  FALSE
      BY <1>1, <2>2, <2>4, <2>8, SucceededType DEF NewSessionToken, Typed
    <2>9. ASSUME NEW a \in Attempts, Refused(a)
          PROVE  /\ attempt[a].at = "asking" /\ attempt[a].addr = addr
                 /\ attempt'[a].at = "none"
      <3>1. attempt[a].addr \in Addrs
        BY <1>1 DEF Typed, AttemptsTyped
      <3>2. attempt[a].addr = addr
        BY <1>1, <2>2, <2>4, <2>9, <3>1, FailedType DEF Refused, Typed
      <3>3. attempt[a].at = "asking" /\ attempt'[a] = NoAttempt
        BY <1>1, <2>9 DEF Refused, Typed, AttemptsTyped
      <3> QED
        BY <3>2, <3>3 DEF NoAttempt
    <2> QED
      BY <1>1, <2>5, <2>6, <2>7, <2>8, <2>9 DEF Next, Submit, Unserved, Login,
         ReadSecret, Visit, Secret, OpenSecret, NoSecret, MakeSecret, Clock,
         Logout, handlePasswordSet, Bump, BumpOpen, BumpEpoch, BumpFails,
         throttle, vars
  <1> DEFINE Own ==
    \A addr \in Addrs :
      (retryAfter(addr))' > retryAfter(addr)
        => \E a \in Attempts : /\ attempt[a].at = "asking"
                               /\ attempt[a].addr = addr
                               /\ attempt'[a].at = "none"
  <1>2. Typed /\ [Next]_vars => Own
    BY <1>1
  <1>3. Typed /\ [Next]_vars => [Own]_vars
    BY <1>2
  <1> QED
    BY <1>3, TypedAlways, PTL DEF Spec, OwnBudget

(* A session that is good stays so until it is logged out, its expiry      *)
(* passes or a change of the password writes the epoch; a restart and the  *)
(* logins of others leave it.  Only a call of secret(), in a login or in a *)
(* request with a cookie, that found no secret takes the place of the one  *)
(* made since.                                                             *)
THEOREM SessionsSurviveAlways == Spec => SessionsSurvive
  <1>1. ASSUME Typed, [Next]_vars, NEW t \in Tokens, ValidSessionToken(t),
               ~(ValidSessionToken(t))', t \notin revoked',
               t \notin expired', epochFile' = epochFile
        PROVE  \E a \in Attempts :
                 attempt[a].at \in {"make", "open"} /\ attempt'[a] # attempt[a]
    <2>1. epoch' = epoch
      BY <1>1 DEF epoch
    <2>2. t \in Issued /\ token[t].secret # 0
      BY <1>1 DEF ValidSessionToken, Issued
    <2>3. token'[t] = token[t]
      <3>1. ASSUME NEW a \in Attempts, NewSessionToken(a)
            PROVE  token'[t] = token[t]
        BY <1>1, <2>2, <3>1 DEF NewSessionToken, Typed, TokensTyped
      <3> QED
        BY <1>1, <3>1 DEF Next, Second, Restart, Submit, Refused, Unserved,
           Login, ReadSecret, Visit, Secret, OpenSecret, NoSecret, MakeSecret,
           Clock, Logout, Bump, handlePasswordSet, BumpOpen, BumpEpoch,
           BumpFails, sessions, vars
    <2>4. (Issued)' = {o \in Tokens : token'[o].secret # 0}
      BY DEF Issued
    <2>5. secret' # secret
      BY <1>1, <2>1, <2>2, <2>3, <2>4 DEF ValidSessionToken
    <2>6. PICK a \in Attempts : OpenSecret(a) \/ MakeSecret(a)
      BY <1>1, <2>5 DEF Next, Second, Clock, Restart, Submit, Refused, Unserved,
         Login, ReadSecret, NewSessionToken, Visit, Secret, NoSecret, Logout, Bump,
         handlePasswordSet, BumpOpen, BumpEpoch, BumpFails, sessions, vars
    <2>7. attempt[a].at \in {"make", "open"} /\ attempt'[a].at # attempt[a].at
      <3>1. /\ attempt \in [Attempts -> Request(made)]
            /\ attempt[a] \in Request(made)
        BY <1>1 DEF Typed, AttemptsTyped, Request, Steps
      <3>2. CASE OpenSecret(a)
        <4>1. attempt'[a] = [attempt[a] EXCEPT !.at = "open"]
          BY <3>1, <3>2 DEF OpenSecret
        <4> QED
          BY <3>1, <3>2, <4>1 DEF OpenSecret, Request
      <3>3. CASE MakeSecret(a)
        <4>1. attempt'[a] = IF attempt[a].cookie THEN NoAttempt
                            ELSE [attempt[a] EXCEPT !.at = "sign", !.key = made + 1]
          BY <3>1, <3>3 DEF MakeSecret
        <4>2. attempt'[a].at \in {"none", "sign"}
          BY <3>1, <4>1 DEF NoAttempt, Request
        <4> QED
          BY <3>3, <4>2 DEF MakeSecret
      <3> QED
        BY <2>6, <3>2, <3>3
    <2> QED
      BY <2>7
  <1> DEFINE Survive ==
    \A t \in Tokens :
      ValidSessionToken(t) /\ ~(ValidSessionToken(t))'
        => \/ t \in revoked' \/ t \in expired' \/ epochFile' # epochFile
           \/ \E a \in Attempts :
                attempt[a].at \in {"make", "open"} /\ attempt'[a] # attempt[a]
  <1>2. Typed /\ [Next]_vars => Survive
    BY <1>1
  <1>3. Typed /\ [Next]_vars => [Survive]_vars
    BY <1>2
  <1> QED
    BY <1>3, TypedAlways, PTL DEF Spec, SessionsSurvive

-----------------------------------------------------------------------------
(* The tokens from before a change are tokens that were issued.            *)
LEMMA BeforeStep ==
  ASSUME Typed, [Next]_vars, \A b \in Bumps : bump[b].before \subseteq Issued
  PROVE  \A b \in Bumps : bump'[b].before \subseteq (Issued)'
  <1>1. Issued \subseteq (Issued)'
    <2>1. ASSUME NEW t \in Tokens, token[t].secret # 0
          PROVE  token'[t].secret # 0
      <3>1. ASSUME NEW a \in Attempts, NewSessionToken(a)
            PROVE  token'[t] = token[t]
        BY <2>1, <3>1 DEF NewSessionToken, Issued, Typed, TokensTyped
      <3> QED
        BY <2>1, <3>1 DEF Next, Second, Restart, Submit, Refused, Unserved,
           Login, ReadSecret, Visit, Secret, OpenSecret, NoSecret, MakeSecret,
           Clock, Logout, Bump, handlePasswordSet, BumpOpen, BumpEpoch,
           BumpFails, sessions, vars
    <2> QED
      BY <2>1 DEF Issued
  <1> QED
    BY <1>1, ChangeStep DEF Gone, NoBump

(* A new token has the epoch that is in the file, or zero while the file is*)
(* empty.                                                                  *)
LEMMA OutToken ==
  ASSUME Typed, OutWell, NEW a \in Attempts, NewSessionToken(a),
         \A b \in Bumps : bump[b].before \subseteq Issued
  PROVE  OutWell'
  <1>1. /\ bump' = bump /\ epochFile' = epochFile /\ epoch' = epoch
    BY DEF NewSessionToken, epoch
  <1>2. PICK n \in Tokens : /\ n \notin Issued
                           /\ token' = [token EXCEPT ![n] =
                                 [secret |-> attempt[a].key, epoch |-> epoch]]
    BY DEF NewSessionToken
  <1>3. /\ token'[n].epoch = epoch
        /\ \A t \in Tokens \ {n} : token'[t] = token[t]
    BY <1>2 DEF Typed, TokensTyped
  <1>4. epoch \in Nat
    BY EpochType, BoundsAreNumbers DEF Typed
  <1>5. ASSUME NEW b \in Bumps, bump[b].at = "open", NEW t \in Tokens
        PROVE  token'[t].epoch <= bump[b].read
    <2>1. epoch = 0 /\ bump[b].read \in Nat
      BY <1>5, BoundsAreNumbers
      DEF OutWell, Emptied, epoch, Typed, BumpsTyped
    <2>2. token[t].epoch <= bump[b].read
      BY <1>5 DEF OutWell, NoneAbove
    <2> QED
      BY <1>3, <2>1, <2>2
  <1>6. NoneAbove'
    BY <1>1, <1>3, <1>4, <1>5 DEF OutWell, NoneAbove
  <1>7. EarlierBelow'
    <2>1. \A c \in Bumps : \A t \in bump[c].before : token'[t] = token[t]
      BY <1>2, <1>3 DEF Issued
    <2> QED
      BY <1>1, <2>1 DEF OutWell, EarlierBelow
  <1>8. OneWriter' /\ Emptied' /\ ReadIsEpoch'
    BY <1>1 DEF OutWell, OneWriter, Writing, Emptied, ReadIsEpoch
  <1> QED
    BY <1>6, <1>7, <1>8 DEF OutWell

(* A restart that meets no empty file of the epoch.                        *)
LEMMA OutRestart ==
  ASSUME Typed, OutWell, Restart, ~clobbered'
  PROVE  OutWell'
  <1>1. token' = token /\ epochFile' = epochFile /\ epoch' = epoch
    BY DEF Restart, epoch
  <1>2. \A b \in Bumps : bump[b].at # "open"
    BY DEF Restart
  <1>3. \A b \in Bumps : \/ bump'[b] = bump[b] /\ ~Writing(b)
                         \/ bump'[b].at = "gone"
    BY DEF Restart, Writing, Gone, NoBump
  <1>4. \A b \in Bumps : bump'[b].at \notin {"read", "open"}
    BY <1>3 DEF Writing
  <1>5. OneWriter' /\ Emptied' /\ ReadIsEpoch'
    BY <1>4 DEF OneWriter, Writing, Emptied, ReadIsEpoch
  <1>6. NoneAbove'
    BY <1>1, <1>2, <1>4 DEF OutWell, NoneAbove
  <1>7. EarlierBelow'
    BY <1>1, <1>2, <1>3, <1>4 DEF OutWell, EarlierBelow
  <1> QED
    BY <1>5, <1>6, <1>7 DEF OutWell

(* A change that starts while no other is at the epoch.                    *)
LEMMA OutStarts ==
  ASSUME Typed, OutWell, NEW b \in Bumps, handlePasswordSet(b), ~clobbered'
  PROVE  OutWell'
  <1>1. token' = token /\ epochFile' = epochFile /\ epoch' = epoch
    BY DEF handlePasswordSet, sessions, epoch
  <1>2. \A o \in Bumps : bump[o].at \notin {"read", "open"}
    BY DEF handlePasswordSet, Others
  <1>3. /\ bump'[b].at = "read" /\ bump'[b].read = epoch
        /\ \A o \in Bumps \ {b} : bump'[o] = bump[o]
    BY DEF handlePasswordSet, Typed, BumpsTyped
  <1>4. OneWriter' /\ Emptied' /\ ReadIsEpoch'
    BY <1>1, <1>2, <1>3 DEF OneWriter, Writing, Emptied, ReadIsEpoch
  <1>5. NoneAbove'
    BY <1>1, <1>2, <1>3 DEF OutWell, NoneAbove
  <1>6. EarlierBelow'
    BY <1>1, <1>2, <1>3 DEF OutWell, EarlierBelow
  <1> QED
    BY <1>4, <1>5, <1>6 DEF OutWell

(* The file is emptied by the one change that is at it.                    *)
LEMMA OutOpens ==
  ASSUME Typed, OutWell, NEW b \in Bumps, BumpOpen(b)
  PROVE  OutWell'
  <1>1. /\ token' = token /\ epochFile' = {}
        /\ bump[b].at = "read" /\ bump[b].read = epoch
    BY DEF BumpOpen, OutWell, ReadIsEpoch
  <1>2. \A o \in Bumps \ {b} : bump[o].at \notin {"read", "open"}
    BY <1>1 DEF OutWell, OneWriter, Writing
  <1>3. /\ bump'[b].at = "open" /\ bump'[b].read = bump[b].read
        /\ \A o \in Bumps \ {b} : bump'[o] = bump[o]
    BY DEF BumpOpen, Typed, BumpsTyped
  <1>4. \A o \in Bumps : bump[o].at # "open"
    BY <1>1, <1>2
  <1>5. OneWriter' /\ Emptied' /\ ReadIsEpoch'
    BY <1>1, <1>2, <1>3 DEF OneWriter, Writing, Emptied, ReadIsEpoch
  <1>6. NoneAbove'
    BY <1>1, <1>2, <1>3, <1>4 DEF OutWell, NoneAbove
  <1>7. EarlierBelow'
    BY <1>1, <1>2, <1>3, <1>4 DEF OutWell, EarlierBelow
  <1> QED
    BY <1>5, <1>6, <1>7 DEF OutWell

(* It writes more than any token has.                                      *)
LEMMA OutWrites ==
  ASSUME Typed, OutWell, NEW b \in Bumps, BumpEpoch(b)
  PROVE  OutWell'
  <1>1. /\ token' = token /\ epochFile' = {bump[b].read + 1}
        /\ bump[b].at = "open" /\ bump[b].read \in Nat
    BY BoundsAreNumbers DEF BumpEpoch, Typed, BumpsTyped
  <1>2. epoch' = bump[b].read + 1
    <2>1. Max({bump[b].read + 1}) = bump[b].read + 1
      BY <1>1 DEF Max
    <2> QED
      BY <1>1, <2>1 DEF epoch
  <1>3. \A o \in Bumps \ {b} : bump[o].at \notin {"read", "open"}
    BY <1>1 DEF OutWell, OneWriter, Writing
  <1>4. /\ bump'[b].at = "done" /\ bump'[b].before = bump[b].before
        /\ \A o \in Bumps \ {b} : bump'[o] = bump[o]
    BY DEF BumpEpoch, Typed, BumpsTyped
  <1>5. OneWriter' /\ Emptied' /\ ReadIsEpoch'
    BY <1>3, <1>4 DEF OneWriter, Writing, Emptied, ReadIsEpoch
  <1>6. \A t \in Tokens : token[t].epoch \in Nat /\ token[t].epoch <= bump[b].read
    BY <1>1, BoundsAreNumbers DEF OutWell, NoneAbove, Typed, TokensTyped
  <1>7. NoneAbove'
    BY <1>1, <1>2, <1>3, <1>4, <1>6 DEF NoneAbove
  <1>8. \A c \in Bumps : \A t \in bump'[c].before : token[t].epoch < epoch'
    <2>1. \A c \in Bumps : bump'[c].before \subseteq Tokens
      BY <1>4 DEF Typed, BumpsTyped
    <2> QED
      BY <1>1, <1>2, <1>6, <2>1
  <1>9. EarlierBelow'
    BY <1>1, <1>3, <1>4, <1>8 DEF EarlierBelow
  <1> QED
    BY <1>5, <1>7, <1>9 DEF OutWell

LEMMA OutStep ==
  ASSUME Typed, OutInv, [Next]_vars
  PROVE  OutInv'
  <1>1. clobbered \in BOOLEAN /\ clobbered' \in BOOLEAN
    BY BumpsStep DEF Typed, BumpsTyped
  <1>2. clobbered => clobbered'
    BY DEF Next, Second, Restart, Submit, Refused, Unserved, Login, ReadSecret,
       Visit, Secret, OpenSecret, NoSecret, MakeSecret, Clock, NewSessionToken,
       Logout, Bump, handlePasswordSet, BumpOpen, BumpEpoch, BumpFails, sessions,
       vars
  <1>3. ASSUME ~clobbered'
        PROVE  OutWell'
    <2>1. OutWell
      BY <1>2, <1>3 DEF OutInv
    <2>2. CASE UNCHANGED <<token, epochFile, bump>>
      <3>1. epoch' = epoch
        BY <2>2 DEF epoch
      <3> QED
        BY <2>1, <2>2, <3>1 DEF OutWell, OneWriter, Writing, Emptied, ReadIsEpoch,
           NoneAbove, EarlierBelow
    <2>3. CASE Restart
      BY <1>3, <2>1, <2>3, OutRestart
    <2>4. ASSUME NEW a \in Attempts, NewSessionToken(a)
          PROVE  OutWell'
      BY <2>1, <2>4, OutToken DEF OutInv
    <2>5. ASSUME NEW b \in Bumps, handlePasswordSet(b) \/ Bump(b)
          PROVE  OutWell'
      BY <1>3, <2>1, <2>5, OutStarts, OutOpens, OutWrites DEF Bump, BumpFails
    <2> QED
      BY <2>2, <2>3, <2>4, <2>5 DEF Next, Second, Submit, Refused, Unserved,
         Login, ReadSecret, Visit, Secret, OpenSecret, NoSecret, MakeSecret,
         Clock, Logout, sessions, vars
  <1>4. \A b \in Bumps : bump'[b].before \subseteq (Issued)'
    BY BeforeStep DEF OutInv
  <1> QED
    BY <1>3, <1>4 DEF OutInv

LEMMA OutInit ==
  ASSUME Init
  PROVE  OutInv
  <1>1. \A b \in Bumps : bump[b].at = "none" /\ bump[b].before = {}
    BY DEF Init, NoBump
  <1>2. epoch = 0 /\ \A t \in Tokens : token[t].epoch = 0
    BY DEF Init, epoch, NoToken
  <1> QED
    BY <1>1, <1>2 DEF OutInv, OutWell, OneWriter, Writing, Emptied, ReadIsEpoch,
       NoneAbove, EarlierBelow

(* Once the handler that changed the password or the transport has         *)
(* answered, and the changes of the epoch neither met nor failed, no token *)
(* from before it is good, however many changes, logins and restarts come  *)
(* after.                                                                  *)
THEOREM AllOutAlways == Spec => []AllOut
  <1>1. Typed /\ OutInv /\ [Next]_vars => OutInv'
    BY OutStep
  <1>2. Typed /\ OutInv => AllOut
    <2>1. SUFFICES ASSUME Typed, OutInv, NEW b \in Bumps, bump[b].at = "done",
                          epochFile # {}, ~clobbered, NEW t \in bump[b].before
                   PROVE  ~ValidSessionToken(t)
      BY DEF AllOut
    <2>2. \A o \in Bumps : bump[o].at # "open"
      BY <2>1 DEF OutInv, OutWell, Emptied
    <2>3. t \in Tokens /\ token[t].epoch < epoch
      BY <2>1, <2>2 DEF OutInv, OutWell, EarlierBelow, Issued
    <2>4. token[t].epoch \in Nat /\ epoch \in Nat
      BY <2>1, <2>3, EpochType, BoundsAreNumbers DEF Typed, TokensTyped
    <2> QED
      BY <2>3, <2>4 DEF ValidSessionToken
  <1> QED
    BY <1>1, <1>2, OutInit, TypedAlways, PTL DEF Spec
=============================================================================
