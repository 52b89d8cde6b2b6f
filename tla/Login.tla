-------------------------------- MODULE Login --------------------------------
(***************************************************************************)
(* Logging in to the panel: handleLogin and the other handlers of          *)
(* server.go that make and end sessions, the throttle of loginthrottle.go  *)
(* that slows guesses down per address, and the signed tokens of           *)
(* auth/session.go, whose secret and epoch are two files.                  *)
(*                                                                         *)
(* Time is in seconds that pass one by one: a record holds how long its    *)
(* address still has to wait and how long ago it was touched.              *)
(***************************************************************************)
EXTENDS Naturals, Sequences, FiniteSets, FiniteSetsExt

CONSTANTS
  Addrs,                 \* the addresses that log in
  Admin,                 \* the one that knows the password
  loginFreeAttempts, loginMaxDelay, loginForget, loginMaxTracked,
  Attempts,              \* requests in flight
  MaxFailures,           \* failures are counted up to here
  MaxTokens, MaxBumps, MaxCuts,
  MaxSecrets             \* secrets made, overwritten ones included

ASSUME AdminIsAnAddress == Admin \in Addrs
ASSUME LimitsArePositive ==
  /\ loginMaxTracked \in Nat \ {0} /\ loginForget \in Nat \ {0}
  /\ loginFreeAttempts \in Nat /\ loginMaxDelay \in Nat
ASSUME BoundsAreNumbers ==
  MaxFailures \in Nat \ {0} /\ MaxTokens \in Nat /\ MaxBumps \in Nat

VARIABLES
  seen,      \* loginThrottle.seen
  attempt,   \* the requests in flight
  secret,    \* the file of the secret: which one, 0 if none or cut short
  epochFile, \* what is in the file of the epoch: a number, or nothing
  token,     \* the tokens issued
  revoked,   \* s.revoked
  expired,   \* the tokens whose expiry the clock has passed
  bump,      \* the handlers that change the password or the transport
  made,      \* secrets made so far
  cuts,      \* restarts
  clobbered  \* two bumps overlapped, or one failed or was cut short (history)

throttle == <<seen>>
sessions == <<secret, epochFile, token, revoked, expired, made>>
vars == <<throttle, attempt, sessions, bump, cuts, clobbered>>

Tokens == 1 .. MaxTokens
Bumps == 1 .. MaxBumps
NoAttempt == [at |-> "none", addr |-> Admin, key |-> 0, cookie |-> FALSE]
NoToken == [secret |-> 0, epoch |-> 0]
NoBump == [at |-> "none", read |-> 0, before |-> {}]
Gone == [NoBump EXCEPT !.at = "gone"]  \* failed or cut short
Record == [failures : 1 .. MaxFailures, wait : 0 .. loginMaxDelay,
           age : 0 .. loginForget + 1]

(* Throughout, the map is no larger than it may be.                        *)
TypeOK ==
  /\ DOMAIN seen \subseteq Addrs /\ seen \in [DOMAIN seen -> Record]
  /\ Cardinality(DOMAIN seen) <= loginMaxTracked
  /\ attempt \in [Attempts -> [at : {"none", "asking", "make", "open", "sign"},
                               addr : Addrs, key : 0 .. made, cookie : BOOLEAN]]
  /\ made \in Nat /\ secret \in 0 .. made
  /\ epochFile \in {{}} \union {{n} : n \in 0 .. MaxBumps}
  /\ token \in [Tokens -> [secret : 0 .. made, epoch : 0 .. MaxBumps]]
  /\ revoked \subseteq Tokens /\ expired \subseteq Tokens
  /\ bump \in [Bumps -> [at : {"none", "read", "open", "done", "gone"},
                         read : 0 .. MaxBumps, before : SUBSET Tokens]]
  /\ clobbered \in BOOLEAN

Init ==
  /\ seen = <<>> /\ attempt = [a \in Attempts |-> NoAttempt]
  /\ secret = 0 /\ epochFile = {} /\ token = [t \in Tokens |-> NoToken]
  /\ revoked = {} /\ expired = {} /\ made = 0 /\ cuts = 0 /\ clobbered = FALSE
  /\ bump = [b \in Bumps |-> NoBump]

-----------------------------------------------------------------------------
(* The throttle.                                                           *)

(* Nothing for the free attempts, then doubling up to the cap; the shift   *)
(* stops where it could overflow.                                          *)
delayAfter(failures, free, cap) ==
  IF failures <= free THEN 0
  ELSE LET n == Min({failures - free, 8}) IN Min({2 ^ (n - 1), cap})
loginDelay(failures) == delayAfter(failures, loginFreeAttempts, loginMaxDelay)
\* "nothing, nothing, nothing, then 1s, 2s, 4s, 8s, 16s, and 30s from then on"
ASSUME DelayPolicy ==
  \A n \in 0 .. 100 :
    delayAfter(n, 3, 30) = IF n < 4 THEN 0
                           ELSE IF n > 8 THEN 30 ELSE <<1, 2, 4, 8, 16>>[n - 3]
\* where the count stops here, the wait does not grow any more
ASSUME CountedFarEnough == loginDelay(MaxFailures) = loginMaxDelay

retryAfter(addr) == IF addr \in DOMAIN seen THEN seen[addr].wait ELSE 0

Keep(records) == [a \in records |-> seen[a]]

(* What prune leaves: no record that is forgotten and, if the map is full  *)
(* then, not the least recently touched.                                   *)
prune ==
  LET live == {a \in DOMAIN seen : seen[a].age <= loginForget}
      oldest == {a \in live : \A b \in live : seen[a].age >= seen[b].age}
  IN  IF Cardinality(live) < loginMaxTracked THEN {live}
      ELSE {live \ {a} : a \in oldest}

(* Wrong on purpose: one count for all addresses.                          *)
failedGlobally(addr) ==
  \E n \in 1 .. MaxFailures :
    seen' = [a \in DOMAIN seen \union {Admin} |->
               [failures |-> n, age |-> 0, wait |-> loginDelay(n)]]

Count(records, addr) ==
  LET failures == IF addr \in records
                    THEN Min({seen[addr].failures + 1, MaxFailures}) ELSE 1
  IN  seen' = [a \in records \union {addr} |->
                 IF a = addr THEN [failures |-> failures, age |-> 0,
                                   wait |-> loginDelay(failures)]
                 ELSE seen[a]]
failed(addr) ==
  IF addr \in DOMAIN seen THEN Count(DOMAIN seen, addr)
  ELSE \E records \in prune : Count(records, addr)
succeeded(addr) == seen' = Keep(DOMAIN seen \ {addr})

Second ==
  /\ \E a \in DOMAIN seen : seen[a].wait > 0 \/ seen[a].age <= loginForget
  /\ seen' = [a \in DOMAIN seen |->
                [seen[a] EXCEPT !.wait = IF @ = 0 THEN 0 ELSE @ - 1,
                                !.age = IF @ > loginForget THEN @ ELSE @ + 1]]
  /\ UNCHANGED <<attempt, sessions, bump, cuts, clobbered>>

-----------------------------------------------------------------------------
(* The tokens.                                                             *)

epoch == IF epochFile = {} THEN 0 ELSE Max(epochFile)

Issued == {t \in Tokens : token[t].secret # 0}
ValidSessionToken(t) ==
  /\ t \in Issued /\ token[t].secret = secret /\ token[t].epoch = epoch
  /\ t \notin expired /\ t \notin revoked

(* The clock passes the expiry of tokens, or is set back before it: a      *)
(* router without a battery starts with a wrong one.                       *)
Clock ==
  /\ \E late \in SUBSET Issued : late # expired /\ expired' = late
  /\ UNCHANGED <<throttle, attempt, secret, epochFile, token, revoked, made, bump,
                 cuts, clobbered>>

-----------------------------------------------------------------------------
(* secret(), which finds no file of 32 bytes and makes one: the file is    *)
(* emptied and then written, whatever another call has put there meanwhile.*)
(* A log-in calls it to sign its token, and a request with a cookie, be it *)
(* good or not, to validate it.                                            *)
OpenSecret(a) ==
  /\ attempt[a].at = "make" /\ secret' = 0
  /\ attempt' = [attempt EXCEPT ![a].at = "open"]
  /\ UNCHANGED <<throttle, epochFile, token, revoked, expired, made, bump, cuts,
                 clobbered>>
MakeSecret(a) ==
  /\ attempt[a].at = "open" /\ made < MaxSecrets
  /\ made' = made + 1 /\ secret' = made + 1
  /\ attempt' = [attempt EXCEPT ![a] = IF @.cookie THEN NoAttempt
                                       ELSE [@ EXCEPT !.at = "sign", !.key = made + 1]]
  /\ UNCHANGED <<throttle, epochFile, token, revoked, expired, bump, cuts, clobbered>>
(* It fails, and the request with it; the file is as it is by then.        *)
NoSecret(a) ==
  /\ attempt[a].at \in {"make", "open"}
  /\ attempt' = [attempt EXCEPT ![a] = NoAttempt]
  /\ UNCHANGED <<throttle, sessions, bump, cuts, clobbered>>
(* requireAuth and handleAgentRestart: nothing is written if there is one. *)
Visit(a) ==
  /\ attempt[a].at = "none" /\ secret = 0
  /\ attempt' = [attempt EXCEPT ![a] = [NoAttempt EXCEPT !.at = "make",
                                                        !.cookie = TRUE]]
  /\ UNCHANGED <<throttle, sessions, bump, cuts, clobbered>>

-----------------------------------------------------------------------------
(* handleLogin: the wait is read, the router is asked, then the failure is *)
(* counted or the token issued.  Only the administrator is accepted, who   *)
(* may mistype as well.  The secret is read, or made, and the epoch read   *)
(* after it.                                                               *)
(* Wrong on purpose: an attempt made during the wait counts as well.       *)
SubmitAlways(a, addr) ==
  /\ attempt[a].at = "none"
  /\ attempt' = [attempt EXCEPT ![a] = [NoAttempt EXCEPT !.at = "asking",
                                                        !.addr = addr]]
  /\ UNCHANGED <<throttle, sessions, bump, cuts, clobbered>>
Submit(a, addr) ==
  /\ attempt[a].at = "none" /\ retryAfter(addr) = 0
  /\ attempt' = [attempt EXCEPT ![a] = [NoAttempt EXCEPT !.at = "asking",
                                                        !.addr = addr]]
  /\ UNCHANGED <<throttle, sessions, bump, cuts, clobbered>>
Refused(a) ==
  /\ attempt[a].at = "asking" /\ failed(attempt[a].addr)
  /\ attempt' = [attempt EXCEPT ![a] = NoAttempt]
  /\ UNCHANGED <<sessions, bump, cuts, clobbered>>
(* rpcd does not answer: 502, and nothing is counted.                      *)
Unserved(a) ==
  /\ attempt[a].at = "asking"
  /\ attempt' = [attempt EXCEPT ![a] = NoAttempt]
  /\ UNCHANGED <<throttle, sessions, bump, cuts, clobbered>>
ReadSecret(a) ==
  /\ attempt[a].at = "asking" /\ attempt[a].addr = Admin
  /\ attempt' = [attempt EXCEPT ![a].at = IF secret = 0 THEN "make" ELSE "sign",
                                ![a].key = secret]
  /\ UNCHANGED <<throttle, sessions, bump, cuts, clobbered>>
NewSessionToken(a) ==
  /\ attempt[a].at = "sign"
  /\ \E t \in Tokens \ Issued :
       /\ \A o \in Tokens \ Issued : t <= o
       /\ token' = [token EXCEPT ![t] = [secret |-> attempt[a].key, epoch |-> epoch]]
  /\ succeeded(attempt[a].addr)
  /\ attempt' = [attempt EXCEPT ![a] = NoAttempt]
  /\ UNCHANGED <<secret, epochFile, revoked, expired, made, bump, cuts, clobbered>>
Logout(t) ==
  /\ t \notin revoked /\ revoked' = revoked \union {t}
  /\ UNCHANGED <<throttle, attempt, secret, epochFile, token, expired, made, bump,
                 cuts, clobbered>>

(* handlePasswordSet and respondHTTPSChange: the change is made and the    *)
(* epoch read, then its file emptied, then written.                        *)
Others(b) == {o \in Bumps \ {b} : bump[o].at \in {"read", "open"}}
handlePasswordSet(b) ==
  /\ bump[b].at = "none" /\ \A o \in 1 .. b - 1 : bump[o].at # "none"
  /\ bump' = [bump EXCEPT ![b] = [at |-> "read", read |-> epoch, before |-> Issued]]
  /\ clobbered' = (clobbered \/ Others(b) # {})
  /\ UNCHANGED <<throttle, attempt, sessions, cuts>>
BumpOpen(b) ==
  /\ bump[b].at = "read"
  /\ bump' = [bump EXCEPT ![b].at = "open"] /\ epochFile' = {}
  /\ UNCHANGED <<throttle, attempt, secret, token, revoked, expired, made, cuts,
                 clobbered>>
(* Wrong on purpose: the epoch that was read is written back.              *)
BumpSameEpoch(b) ==
  /\ bump[b].at = "open"
  /\ bump' = [bump EXCEPT ![b].at = "done", ![b].read = 0]
  /\ epochFile' = {bump[b].read}
  /\ UNCHANGED <<throttle, attempt, secret, token, revoked, expired, made, cuts,
                 clobbered>>
BumpEpoch(b) ==
  /\ bump[b].at = "open"
  /\ bump' = [bump EXCEPT ![b].at = "done", ![b].read = 0]
  /\ epochFile' = {bump[b].read + 1}
  /\ UNCHANGED <<throttle, attempt, secret, token, revoked, expired, made, cuts,
                 clobbered>>
(* The write fails, and nobody is told; what is in the file by then stays. *)
BumpFails(b) ==
  /\ bump[b].at \in {"read", "open"}
  /\ bump' = [bump EXCEPT ![b] = Gone] /\ clobbered' = TRUE
  /\ UNCHANGED <<throttle, attempt, sessions, cuts>>

(* Wrong on purpose: the secret is kept in memory only.                    *)
RestartForgetful ==
  /\ cuts < MaxCuts /\ cuts' = cuts + 1
  /\ seen' = <<>> /\ revoked' = {} /\ secret' = 0
  /\ attempt' = [a \in Attempts |-> NoAttempt]
  /\ UNCHANGED <<epochFile, token, expired, made, bump, clobbered>>
(* The panel starts again: the throttle and the revocations are forgotten. *)
Restart ==
  /\ cuts < MaxCuts /\ cuts' = cuts + 1
  /\ seen' = <<>> /\ revoked' = {}
  /\ attempt' = [a \in Attempts |-> NoAttempt]
  /\ bump' = [b \in Bumps |-> IF bump[b].at \in {"read", "open"}
                              THEN Gone ELSE bump[b]]
  /\ clobbered' = (clobbered \/ \E b \in Bumps : bump[b].at = "open")
  /\ UNCHANGED <<secret, epochFile, token, expired, made>>

Secret(a) == OpenSecret(a) \/ MakeSecret(a) \/ NoSecret(a)
Login(a) == ReadSecret(a) \/ NewSessionToken(a)
Bump(b) == BumpOpen(b) \/ BumpEpoch(b) \/ BumpFails(b)

Next ==
  \/ Second \/ Clock \/ Restart
  \/ \E a \in Attempts :
       \/ \E addr \in Addrs : Submit(a, addr)
       \/ Refused(a) \/ Unserved(a) \/ Login(a) \/ Visit(a) \/ Secret(a)
  \/ \E t \in Issued : Logout(t)
  \/ \E b \in Bumps : handlePasswordSet(b) \/ Bump(b)

Spec == Init /\ [][Next]_vars

(* Time passes.                                                            *)
FairSpec == Spec /\ WF_vars(Second)

-----------------------------------------------------------------------------
(* An address comes to wait only by failures of its own: nobody can lock   *)
(* the administrator out by failing elsewhere.                             *)
OwnBudget ==
  [][\A addr \in Addrs :
       (retryAfter(addr))' > retryAfter(addr)
         => \E a \in Attempts : /\ attempt[a].at = "asking"
                                /\ attempt[a].addr = addr
                                /\ attempt'[a].at = "none"]_vars

(* A wait comes to its end, also when other attempts of the address were in*)
(* flight as it began, or are made throughout.                             *)
WaitEnds == \A addr \in Addrs : retryAfter(addr) > 0 ~> retryAfter(addr) = 0

(* "They survive service restarts": a session that is good is so until it  *)
(* is logged out, the clock passes its expiry or a bump writes the epoch,  *)
(* whatever else happens.  The exception is the call of secret() that found*)
(* no file, in a log-in or in a request with a cookie, and now replaces the*)
(* secret that another has made since.                                     *)
SessionsSurvive ==
  [][\A t \in Tokens :
       ValidSessionToken(t) /\ ~(ValidSessionToken(t))'
         => \/ t \in revoked' \/ t \in expired' \/ epochFile' # epochFile
            \/ \E a \in Attempts :
                 attempt[a].at \in {"make", "open"} /\ attempt'[a] # attempt[a]]_vars

(* "Every existing panel session must die": once the handler that changed  *)
(* the password or the transport has answered, no token from before it is  *)
(* good again.  While the epoch is being written it reads as zero, and two *)
(* bumps at once, or one that fails, may set it back or leave it there.    *)
AllOut ==
  \A b \in Bumps :
    bump[b].at = "done" /\ epochFile # {} /\ ~clobbered
      => \A t \in bump[b].before : ~ValidSessionToken(t)
=============================================================================
