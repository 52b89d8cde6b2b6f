# A TLA+ model of NetGrip

NetGrip is a web panel that runs on an OpenWrt router: one Go binary that
answers HTTP, MQTT, MCP and NetPulse requests and turns them into `uci`
commands and init scripts.  Its promise is in its README: it "snapshots the
config, applies the change, waits, checks the service came up, and undoes
itself if it did not" (README.md:52-54).  This directory models the parts of
the program on which that promise rests, and the part of the browser's code
that has to tell the user what became of it, checks them with TLC, and proves
the central results with TLAPS.

Contents: [the system](#the-system), [modules](#modules),
[the model of a change](#the-model-of-a-change), [the read cache](#the-read-cache),
[the Wi-Fi schedule](#the-wi-fi-schedule), [the cards](#the-cards-of-the-frontend),
[installing packages](#installing-packages), [self-update](#self-update),
[logging in](#logging-in), [the panel and its wizard](#the-panel-and-its-wizard), [runs](#runs),
[bounds](#bounds-and-why-they-are-enough), [fairness](#fairness),
[proofs](#proofs), [what disagrees](#where-the-code-and-its-words-disagree),
[not modelled](#not-modelled), [plan](#plan).

## The system

| Component | State | Operations | What is hard, and what makes it correct |
|---|---|---|---|
| Executor (`internal/executor`) | none of its own; `/etc/config/*`, `/tmp/.uci/*`, `/etc/rc.d`, the daemons | `Snapshot`, `Run`, `Apply`, `Restore`, `ServiceEnabled`, `ServiceRunning` | a list that fails in the middle; exact rollback |
| Write handlers (`internal/modules`) | local: exports, probes | about 70 `Set*`, `Add*`, `Delete*`, `Apply*` functions | handlers run on goroutines of their own with no lock between them; each writes its rollback by hand; a failed one must leave nothing behind, a successful one must be in force |
| Executor delegate | the token | `ExecuteOps` | operations from NetPulse, with no rollback |
| Read cache (`readcache.go`) | a map of entries, a mutex each | `CachedRead`, `InvalidateKey`, `InvalidatePrefix` | an invalidation during a compute; handlers that verify through it |
| Wi-Fi schedule | the ledger file, a mutex, the `netgrip` package | `SetWifiSchedule`, the tick | who owns a disabled interface; crashes between two files |
| Parental control, LAN alias, PoE watchdog | rules in `netgrip`, runtime maps | their handlers and loops | stale copies over a ping or a sleep |
| Install job | one progress record | `StartInstallPackages` | two jobs at once |
| Self-update | phase, check, outcome hook, the binary | `StartSelfUpdate`, the scheduler | two starts, a crash during the swap |
| banIP | cache with generation, dismissed file | handlers, background refresh | a late result after an invalidation |
| Sessions and login | secret and epoch files, attempts per address | login, logout, password change | read-modify-write of files, counting in flight |
| MCP, MQTT, NetPulse agent, fleet discovery | connections, configuration, retry timers | loops that reconnect | late answers, configuration pushed and rolled back |
| netifyd socket, ubus client | one connection | readers, callers | one connection shared by many |
| Certificates | the certificate in use | reload | replaced under connections |
| Cards of the frontend (`app/src/components`, `pages`) | what a card shows, its draft, its flags | acts of one or more requests, readings, polls | answers that overtake each other, requests lost or refused half way: what is shown must be what is in force |
| App, wizard and shell (`App.tsx`, `pages/Wizard.tsx`, `Shell.tsx`) | session, step, record of what was done | log-in, steps, relaunch | timers and saves that outlive a screen; a session that dies in between |
| Packaging, diagnostics | none that lasts | installing, reading | - |

The handlers call the executor; the executor forks `uci` and the init scripts.
The probes read through the read cache, and so do the handlers that verify
their own change.  The schedulers call the same handlers, from their own
goroutines.  NetPulse, MQTT and MCP are three more ways in to the handlers.
The shared state is the router's: the files, the staged deltas, the daemons.
The browser knows the router only by the answers of the requests in `api.ts`,
which the service handles each on a goroutine of its own.

## Modules

| Module | Models |
|---|---|
| `ConfigTx` | the executor and the shape of every write handler: one machine that runs plans, any number of them at once |
| `WritePaths` | the vocabulary of the plans; packages, services, boot states |
| `NetworkPaths`, `WirelessPaths`, `ServicePaths`, `AccessPaths` | the write handlers, one definition each, as plans |
| `AtomicChange` | what all the handlers together promise: each change is made as a whole or not at all (abstract) |
| `WriteDiscipline` | what each handler promises by name, the handlers that do not, and the form of a plan that keeps it |
| `MCWritePaths` | `ConfigTx` over catalogues of the plans, for TLC |
| `ConfigTxProofs` | theorems about `ConfigTx`, for any plans; it is shown to implement `AtomicChange` |
| `ReadCache`, `MCReadCache`, `ReadCacheProofs` | one key of the read cache, pollers, and the firewall handlers that verify through it; theorems |
| `WifiSchedule`, `WifiScheduleProofs` | the Wi-Fi scheduler, its handler, its ledger and crashes; theorems |
| `Api` | the calls of `api.ts`: which read, which change, which only start a job |
| `CardScripts` | the vocabulary in which a card is described: acts, calls, effects, flags |
| `ServiceCards`, `LanCards`, `PortCards`, `WifiCards`, `SystemCards`, `ClientCards`, `PageCards`, `ToolCards` | the cards, one definition each, as descriptions |
| `Cards`, `CardProperties`, `MCCards` | one card in a browser against the router; what it promises; the catalogue |
| `CardDiscipline`, `CardsProofs` | what the descriptions of the cards have in common; theorems for any cards that keep to it |
| `Installer` | what an installation of packages promises (abstract) |
| `InstallJob`, `MCInstall`, `InstallProofs` | the job, its record and its tabs; shown to implement `Installer`; theorems |
| `SelfUpdate`, `MCUpdate`, `SelfUpdateProofs` | the update of the binary, the ways to start it, its hook and its dialog; theorems |
| `Login`, `LoginProofs` | throttle, tokens, epoch and secret; theorems |
| `Panel`, `PanelProofs` | App, wizard and shell in one tab; a theorem |

## The model of a change

`ConfigTx` has the router's state and the handlers' control:

| Variable | Code |
|---|---|
| `committed[p]`, `staged[p]` | `/etc/config/p`, and the delta in `/tmp/.uci/p` that every process shares |
| `en`, `up`, `loaded[s]` | boot links, running services, and the content of its package a service last read |
| `pc`, `plan`, `at` | where in which handler a goroutine is |
| `snap`, `has` | the exports held in the handler's variables |
| `was` | `ServiceEnabled`, `ServiceRunning` as probed before the write |
| `before`, `met`, `clean`, `faults` | history: what the packages held at the start, which handlers were at work at the same time on a package of this one, whether a rollback's commands all worked, how many failures there were |

The content of a package is the set of edits in it; an edit is the worker that
made it and the position in its plan.  That is all the properties tell apart:
whose change is where, and how much of it.  Consecutive `uci set`, `add_list`
and `delete` commands on one package are one edit.

A handler is data: a record with the exports it takes, its operations, its
rollback after a failed operation (`undo`) and after a failed probe
(`unprobe`), whether it probes at all, and the services it requires.  The
steps of a plan are those of the handler in the code, in order, with the ones
whose error it drops marked by `Try`; the order of `uci commit` and `initd`
operations, conditions on services and missing steps are kept.  The values
written are not.

Each action is one command: `Snapshot`, `OpOk`, the steps of a rollback.  A
command may fail with or without having taken effect (`OpFails`), an export
may fail (`SnapshotFails`), a probe may fail (`Unhealthy`).  Between any two
commands another handler may run one of its own.

What is taken from OpenWrt, and marked external in `PROJECT.json`:

- `uci export` and `uci show` print the file with the staged delta applied;
  `uci commit` writes the delta whoever staged it; `uci import` without `-m`
  replaces the package (executor.go:335-339 says so too).
- An init script's `start` and `restart` make the service read its package,
  `reload` does so only if the service runs.  Restarting the network brings
  up the radios.
- odhcpd reads a few options of `dhcp`; they are not told apart from those of
  dnsmasq, so odhcpd reads nothing here.
- A package that is missing is an empty one: deleting a section that a handler
  made in it stands for putting it back.

The properties, each stated for one worker and then for all (`RollbackExact`
is `UndoesItself(w)` for every worker, and so on):

| Promise | For one worker | For all workers | For the catalogue |
|---|---|---|---|
| When a rollback ends whose commands all worked, every package of the handler holds what it held when the handler began, with nothing staged | `UndoesItself` | `RollbackExact` | `HandlersUndo` |
| A refused or cleanly rolled-back change has no edit in any file or delta, from then on | `LeavesNo` | `LeavesNothing` | `HandlersLeaveNothing` |
| What a handler failed to change is not committed for it by an unrelated commit (the failure ADR-003 names) | | `RejectedStaysOut` | |
| A successful handler has committed every edit it made, and, if nothing failed, the running services work with what their packages hold | `TakesEffect` | | `HandlersTakeEffect` |
| After a rollback the running services work with what the packages hold | `UndoTakesEffect` | `RollbackIsLive` | `HandlersUndoInForce` |
| After a rollback services are enabled and running as before | `ServicesAsBefore` | `ServicesBack` | `HandlersPutServicesBack` |
| A change reported as done is taken out of the files only after a handler that was at work next to it began to roll back | `Undisturbed`, `Stays` | `AckSurvives` | |

The last column is the promise for every handler of `MCWritePaths` but those
`WriteDiscipline` names as exceptions; the third is the promise without
exceptions.

All of it together is `IsAtomic`: `ConfigTx` implements `AtomicChange`.  There a
change is one step, `Succeed`, in which all its edits arrive, or `Fail`, in
which nothing does; only `Break`, a rollback of which a command failed, may
leave some of them.  No step touches the edits of another.  The refinement
mapping (`Seen`, `Outcome`, `Request`) reads the files without the edits of
those that are at work, whose packages nobody else looks at meanwhile; what has
to arrive are the edits whose error the handler does not drop.

The code has no lock, and importing a whole package undoes whatever happened
since the export; the schedulers write from goroutines of their own.  So
handlers overlap as they like in every run and theorem of more than one, and the
promises say whom they are made to.  `met[w]` holds the handlers that were at work on a
package of `w` at some time while `w` was, and `Alone(w)` is that there were
none.  `RollbackExact`, `LeavesNothing` and `IsAtomic` speak of the handlers
that were alone, among others that overlap, fail and roll back, on the same
packages before and after them and on other packages beside them; in `AtomicChange` those that were not
become `tangled`, and are held to touching no change of a third.
`AckSurvives` is about all handlers: an acknowledged change is lost in one way
only, the rollback of a handler that was at work next to it.  That this way
exists is the code's: `AckStays`, the same without the condition, is violated by
`MCLostAck`.

## The read cache

`ReadCache` follows `CachedRead` step by step: the lookup under
`readCacheMu`, the wait for the mutex of the entry, the hit or the compute,
the store into the entry that was looked up, which the map may not hold any
more.  Entries are addresses and are reused once nobody has them.  One key is
modelled, `ucishow|firewall`, with pollers that read it and a handler that
runs one of four scripts: `AddFirewallRule`, `DeleteFirewallRule`,
`AddFwdRule`, `RemoveFwdRule`.  They differ in whether they read before they
write, invalidate after the write, and invalidate after the rollback (`Script`).
An error is cached as the code caches it.

- `FreshAfterInvalidate`: a read that begins after an invalidation does not
  return what the package held before it.
- `UndoneForCause`: no change is rolled back because of what the cache
  remembers; only a failed `uci show` can do that.
- `AnswersTruthfully`: the answer of an add shows the rules as they are, after
  its rollback as well.
- `ReadsEnd`: a poll waiting for a mutex gets its answer.

## The Wi-Fi schedule

`WifiSchedule` has the disabled flags, the schedules, the ledger file, the
mutex and the two callers of `reconcileWifiSchedule`: the tick and
`SetWifiSchedule`.  The clock is which windows are open; the tick reads it once
at its start, as the code does.  A rollback imports the whole wireless package
and so puts back the flags of every interface.  `Crash` ends the process at any
point, `SaveFails` is a ledger that cannot be written.  The Wi-Fi editor
(`SetWifi`) is one step here, which may come at any time and asks neither the
ledger nor the mutex; one `SetWifiSchedule` runs at a time.  A schedule with
`enabled` off is one whose window never opens.

The value of `flag[s]` is the option `disabled` and, as history, whose the 1 is:
`sched` of the scheduler; `hand` of the user, who switched the interface off
while the ledger had no entry of it and nobody was between an export and the
save of the ledger; `late` of the user at another moment.  A rollback restores
the flag and whose it was.

- `ManualKept`: no apply and no rollback of the scheduler puts an interface on
  the air that is off by `hand`, whatever the user edits afterwards, and when.
- `NeverClobbered` says it of `late` ones too, as the comment of
  `wifischedule.go:269-272` does.  It does not hold: an entry of the ledger
  outlives the interface being switched on by hand and makes the next manual
  switch-off one the scheduler undoes (line 296), and a rollback undoes an edit
  made during the wait of up to 16 seconds (line 303).  `MCSchedByHand` shows it.
- `ComesBack`: an interface the scheduler switched off comes back once its
  schedule, or the lack of one, asks for it, unless the user takes it over.
  `ComesBackUnlessLost` asks it of behaviours without a crash and without a
  ledger that could not be written.
- `GoesOff`: an interface goes off once its schedule says so.

## The cards of the frontend

A card of the frontend is data, like a handler of the service: when it reads
(once, by an interval, when its subject changes, when its parent hands it new
data), how its form follows that data, which flags disable which control, and
for each control an act, a script of calls with what the handler does when a
call answers and when it throws.  `CardScripts` has the vocabulary; `Cycle` is
`useActionCycle` of `components/wifi/action.ts`.  75 cards and dialogs are
described so, about 12,000 lines of TypeScript; texts and layout are left out.

`Cards` runs one of them against the router:

| Variable | Code |
|---|---|
| `router`, `jobs` | the changes in force, and those a job still has to make |
| `shown`, `loaded`, `about` | the `useState` of the data, and what it is about |
| `draft` | the fields: as last filled, or typed into |
| `busy` | the flags (`busy`, `phase`, `saving`, ...), with the item they hold |
| `acts`, `loads` | the promises: at which call each handler is, what it was answered |

A change is named by the act and the step that made it.  A request is served
at any time, or refused (`Break`), or takes effect and its answer is lost
(`Lose`); the answer arrives at any time later.

- `SentOnce`: the same change of the same item is not under way twice.  Of 31
  acts (`Overwritten`) it is only so while no third act is started, see below.
- `FailureTold`: a failed change has been reported when its act ends.
- `DraftSurvives`: only an act that sends the fields empties them.  Whether an act
  sends them is said per control: a button that can be pressed with nothing typed
  is another act than the one that submits the form (`Sending`, `Submit`).
- `ShowsWhatHolds`: after one act, accepted or refused at any of its calls,
  the card shows what is in force.
- `Converges`: so it does after two, though answers and readings overtake each
  other.
- `RightSubject`: a card ends up being about the last choice.
- `BusyEnds`: every flag goes down again.

Each holds of the whole catalogue but for the acts and cards its list in
`CardProperties` names (`SentTwice` and `Overwritten`, `Silent`, `Refilling`
and `DropsDraft`, `Overtaken` and `HalfShown`, `Racing`).  The lists are the result: 22 controls
that send a change twice, at a second click (`DdnsCard.tsx:132`, ...), at a second
Enter in a field whose button is disabled and whose key is not
(`EthPortsCard.tsx:316`, `SecurityCards.tsx:273`), or because a slider listens to
the pointer and to the touch (`TrafficCards.tsx:338-339`, `advanced.tsx:176-177`);
seven failures that are swallowed (`TailscaleCard.tsx:44`, `WifiPage`'s unblock, ...);
five forms that a poll refills under the user's hands (`LanConfigCard.tsx:60`,
...), and 26 acts that empty fields they do not send: the switch for all ports
and the button that removes one limit empty the drafts of every port
(`TrafficCards.tsx:246`, `advanced.tsx:106`).  An act taken off its list makes the run fail.

`Overwritten` was found by a proof that failed.  The flag of these acts is one
variable that holds one item, or one act, at a time (`EthPortsCard.tsx:36`):
an act on another item takes the flag off the first, whose button can then be
pressed again while its request is under way.  That takes three acts.  TLC
finds it for each of the 31 with `MaxActs` 3, which is too much for the run of
all cards; that they are all of them follows from the theorem.

`CardDiscipline` says what keeps the other acts safe, as conditions on the
descriptions alone: a button is disabled by a flag that its own act raises
before its first call and keeps up to its last (`Kept`); every act that shares
that flag is disabled by it and treats it the same way (`Guarded`); each catch
tells (`CatchesTell`); only the first reading, and acts that send fields, fill
the fields (`FieldsAreTheUsers`); each act shows what it changed, whichever of
its calls are refused (`ChangesAreShown`); one flag guards all the acts whose
answers bring the same part of the data (`PartsAreGuarded`); the cards with a
subject, and they alone, drop the answers for another one
(`LateAnswersAreDropped`).  TLC evaluates the conditions on the 75 cards with
every run of `MCCards`, and `CardsProofs` derives the promises from them.

## Installing packages

`InstallJob` is `installjob.go`: `StartInstallPackages` replaces the record
and sends off a goroutine, which updates the feeds (opkg) and for each package
publishes, installs, looks and appends, each under the lock and none of it
under one lock.  Any number of jobs may run.  `useInstallJob` in each tab
starts and polls; a poll fails, the service restarts.

- `InstalledIsTrue`: what the record, a job's copy of it or a tab lists as
  installed is installed, however many jobs write.
- `OwnOutcome`: a tab that is told "done" or "error" is told so of a job that did
  end so: its own, one that was under way when its own began, or one that began
  later, but never of one that was over before.  If no other was under way and
  none came (`own`), it is its own job, and only packages of its list are told.
  `author` (who wrote the phase last) and the hook's `rivals` and `by` are the
  history it reads.
- `BeginReturns`: the hook comes back.
- `Implements`: the record, the current job and the packages implement
  `Installer`, in which one installation runs at a time and never takes back
  what it told.  While jobs overlap the abstract machine is "lost" and promises
  only that packages arrive; `MCInstallTwo` shows the overlap.

## Self-update

`SelfUpdate` follows a start from its three callers (dialog, schedule,
NetPulse trigger) through the test of the phase, the check of the release, the
goroutine with download, ELF check, rescue copy, space, unlink, copy, and the
restart.  `file` and `cutter` say whether the download is whole and who
truncated it, so that two starts at once work on the same file.  `past` is
history: whether two updates overlapped, whether the rescue copy was made,
whether the power was cut.

- `RestartsWhole`: the service is not restarted into a torn binary by an
  update that ran alone.
- `RescueFirst`: a working binary is removed only once its copy is there.
- `ToldTheTruth`: NetPulse is told "ok" only when the new binary is in place.
- `HookGoesOff`: the hook it armed is not left armed.
- `DialogEnds`, `DoneIsNew`: the dialog does not wait for ever, and says
  done only when the new version runs.
- `RescueKept` (violated by `MCUpdateRescue`): after a failed copy the next
  attempt saves the torn binary over the good copy.

The model shows besides: two starts that overlap share one file in `/tmp`
(`selfupdate.go:217`), so that one may install what the other is still
writing; the hook may go off for an update somebody else started; a failed
check in `netPulseUpgradeTrigger` reports nothing; the first `me()` after
"restarting" may be answered by the old process.

## Logging in

`Login` has the throttle of `loginthrottle.go` with a clock in seconds, the
requests of `handleLogin` in flight between the test of the wait and the
count of the failure, the tokens with their epoch, secret and expiry, and the
two files.  `Clock` lets tokens expire, and come back where the clock of the
router is set back.  `secret()` is a test of the file, its truncation and its
write (`OpenSecret`, `MakeSecret`, `NoSecret`); log-ins call it to sign, and any
request with a cookie to validate (`Visit`), so that each may make the secret.
`BumpEpoch` is a read and a write with the truncation in between; its
error is dropped (`BumpFails`).  rpcd accepts, refuses or fails.

- `OwnBudget`: an address waits only for failures of its own.
- `WaitEnds`: a wait ends, also when attempts were in flight as it began.
- `SessionsSurvive`: a restart logs nobody out, and nothing else does but a
  log-out, the expiry or a bump.  The exception is a call of `secret()` that found
  no file of 32 bytes and goes on to empty and write it over what another call
  has made since (`session.go:34-47`): it puts out the tokens signed meanwhile.
- `AllOut`: after a password change no earlier token is good, unless two bumps
  overlapped or the write failed (`clobbered`).

## The panel and its wizard

`Panel` is one tab: `App.tsx` with its session check and its handler for 401,
the wizard with its steps, its record of what was done and its timers of
120 ms, which nothing cancels, and the shell's first load.  The session may
end at any time, a call may fail, an answer may be lost.

- `WizardEnds`: a person who goes on reaches the end of the wizard.
- `SummaryHolds`: the last screen lists what is so on the router, but for what
  was switched off again and for saves whose answer was lost.
- `DeadSessionShows`: a call made with a dead session leads to the log-in page.

`MCPanelSkip` lets the setup probe fail and shows the blank step.  Two things
the model does not state as properties: `SecurityCard.tsx:47` logs out 2.5 s
after a password change and does not cancel it, so a session begun meanwhile is
ended too; and `steps.tsx` compares package names with catalogue names when it
counts what was installed.

## Runs

Passing:

| Run | Shows |
|---|---|
| `MCHandlers` | the whole catalogue, one handler at a time, any two failures, eight states of the services: `HandlersUndo`, `HandlersLeaveNothing`, `HandlersTakeEffect`, `HandlersUndoInForce`, `HandlersPutServicesBack` |
| `MCPair` | three handlers on the same package or on two, overlapping as they may, two failures: `IsAtomic`, `RollbackExact`, `AckSurvives` |
| `MCCache` | two pollers, a handler that adds or deletes a firewall rule: `FreshAfterInvalidate`, `UndoneForCause`, `AnswersTruthfully`, `ReadsEnd` |
| `MCSched` | two interfaces, two acts of the user, a failure and a crash: `ManualKept`, `ComesBackUnlessLost`, `GoesOff` |
| `MCCards` | each card, two acts, one failure: `SentOnce`, `FailureTold`, `ShowsWhatHolds`, `Converges`, `RightSubject`, `DraftSurvives`, `BusyEnds` |
| `MCInstall` | two tabs, two jobs, both package managers, one failed poll or restart: `InstalledIsTrue`, `OwnOutcome`, `Implements`, `BeginReturns` |
| `MCUpdate` | two starts by any of the three, one cut: `RestartsWhole`, `RescueFirst`, `ToldTheTruth`, `DoneIsNew`, `HookGoesOff`, `DialogEnds` |
| `MCLogin` | two addresses, two log-ins or requests with a cookie in flight, two secrets, a bump, a restart, the clock: `AllOut`, `OwnBudget`, `WaitEnds`, `SessionsSurvive` |
| `MCPanel` | two detours, a session cut short, a failed call: `SummaryHolds`, `WizardEnds`, `DeadSessionShows` |

Violations, each the subject of a finding in `PROJECT.json`:

| Run | Property | What the code does |
|---|---|---|
| `MCInstallTwo` | `OneActive` | a failed poll gives the button back, and a second job starts beside the first |
| `MCUpdateRescue` | `RescueKept` | the retry after a failed copy saves the torn binary over the rescue copy |
| `MCPanelSkip` | `WizardEnds` | the wizard comes to a step that renders nothing when the setup probe failed |

Five more configurations hold counterexamples of the handlers, the cache and
the scheduler.  They are kept to be run by hand
(`tlc -config MCNetgrip.cfg MCWritePaths.tla`, with `MCReadCache` for `MCFwdAdd`
and `WifiSchedule` for the last two):

| Configuration | Property | What the code does |
|---|---|---|
| `MCNetgrip` | `RejectedStaysOut` | a failed `SetPoEWatchdog` leaves staged edits that the next save of the panel commits (poewatchdog.go:209; access.go:737-741 names the failure) |
| `MCLostAck` | `AckStays` | the rollback of one handler takes out the acknowledged change of another (wireguard.go:513) |
| `MCFwdAdd` | `UndoneForCause` | `AddFwdRule` verifies through the cache entry it filled before it wrote (portforward.go:308) |
| `MCSchedByHand` | `NeverClobbered` | the scheduler puts on the air an interface switched off by hand: a rollback undoes an edit made since its export (wifischedule.go:303), and with more edits a ledger entry outlives the interface being switched on by hand (wifischedule.go:296) |
| `MCSchedCrash` | `ComesBack` | a crash between the flag and the ledger leaves an interface off for ever (wifischedule.go:292) |

The type invariants are in no configuration: all are proved but that of
`Panel`, whose theorem rests on the part of it that it needs (`Shapes`), and
`INVARIANT TypeOK` can be added to any run.

The exceptions of `MCHandlers`, by name in `WriteDiscipline`:

- `Unguarded`: no export before the write, or a rollback that writes instead
  of restoring (`UpnpAction` after a failed probe turns the service and its
  option back and leaves `secure_mode`).
- `Lenient`: `ApplyPortTemplate` and `applyResetDefaults` drop the error of a
  commit, so that they can answer success with edits staged.
- `NotLive`: a rollback, or a success, that forgets a reload.
- `Switching`: services are not put back as they were.
- `Forgetful`: `snap, _ := executor.Snapshot(...)`.  These handlers write a
  package they could not export, and their rollback skips it: when the export
  failed and a later command too, nothing puts the package back.
  `HandlersUndo` and `HandlersLeaveNothing` ask them to keep their promise
  when every export worked (`Exported`).

`NotGuarded` lists the handlers that are not `WellGuarded`, the hypothesis of
`RollbackIsExact` below; the runs assert (`GuardedAssumption`) that the list is
exact.  They assert as well that every other handler has the form the theorems
ask for, and that the ones named do not (`WhoKeepsWhat`): no name is on a list
that need not be.

Some operators stand before the one they vary and differ from it by one slip
(`RestoreMerges`, `PhaseUnsaid`, ...).  No specification uses them; they are
the mutants that show that each property can be broken by a bug in the code.
Those of `ConfigTx` are slips of the machine; a slip in a plan (a rollback that
forgets a reload) already makes one of the conditions on the plans false.

Deadlock checking is off where a system may stop: handlers run once in
`ConfigTx`, a cache without entries left to hand out waits, a card, a job, an
update and a tab are done when the user is.  `WifiSchedule` never stops and is
checked for deadlock.

## Bounds, and why they are enough

- `Workers`: one for the promises of a single handler, three for interference:
  two that overlap, and a third that meets one of them, both or neither.  They
  are alike (`SYMMETRY`), which is sound, for no property of that run names one
  and none is about fairness.  The trio writes one package each, the same or
  different ones; two workers of which one writes both packages
  (`Workers <- Two`, `Plan <- PairPlans`) pass as well, in 165,115 states.
- `MaxFaults` (commands and probes that fail): 2, so that the export and a
  command, or the command and one of its rollback, or two handlers of a trio
  can fail; 1 where the counterexample needs no more.  A rollback with failed
  commands promises nothing about the files (`clean`), so a third failure adds
  little; three were tried and nothing else failed.
- `Boots`: a gateway and an access point, each with the optional services on,
  off, enabled and not running, running and not enabled.
- `MaxChanges` (changes of the cache handler) 1: the question is one change
  against pollers, before, during and after it.  `TTL` is 1 where a value is
  fresh until the clock ticks, 2 in `MCFwdAdd`, whose counterexample needs no
  tick at all.  Four `Entries` are one more than the processes can hold at once
  beside the map.
- `MaxEdits` (acts of the user) 2, or 3 where the counterexample needs them;
  `MaxMishaps` (failed commands and probes, crashes and unwritable ledgers) 1.
  The clock is not bounded.  More was tried by hand and nothing failed:
  `ManualKept` with three edits and two mishaps (2,903,232 states), the two
  liveness properties with three edits and no mishap, all of it with one
  interface, four edits and two mishaps.
- Cards: `MaxActs` 2, since every property speaks of one act or a pair, and
  `MaxFaults` 1: which of the calls fails matters, not how many.  The items are
  alike, two are enough.  What only three acts can do is in `Overwritten`; all
  the properties of the cards but `BusyEnds` are proved for any number.
- Install: lists that share a package, two jobs, which may overlap or follow
  each other; one fault is a lost poll or a restart.  Three jobs with one tab,
  so that one begins alone after two have overlapped, were tried and nothing
  failed.
- Update: `MaxStarts` 2 and `MaxCuts` 1: one update alone, two in a row, two
  at once, each with a cut at any point.
- Login: `loginFreeAttempts` 1, `loginMaxDelay` 2, `loginForget` 1 and
  `loginMaxTracked` 1 keep every branch (the free attempt, the doubling, its
  cap, forgetting, evicting) within a few steps; two of `Addrs` and `Attempts`
  and `MaxSecrets` 2 make the pairs (one secret that overwrites another), with one
  token and one bump; failures are counted to 3, one beyond the cap.  Without the
  liveness, more was tried by hand and nothing failed: two tokens, with
  `loginMaxDelay` 1 and failures counted to 2 (3,195,703 states); two bumps
  (4,767,319); two of both with one attempt (365,996).  The shift of `loginDelay` is exact at these sizes; that it
  cannot overflow is seen from its loop's bound and not checked.
- Panel: `MaxDetours` 2 (going back, reloading, relaunching, logging out),
  `MaxCuts` 1, `MaxFaults` 1, hardware with everything.

## Fairness

`ConfigTx` has none: nothing is asked of it that must come about, and a command
that hangs is a handler that stays where it is.  `ReadCache!FairSpec`: a fork of `uci show`
ends (weak), and a goroutine waiting for a mutex gets it (strong): Go's
`sync.Mutex` hands over to a waiter that starves.  `WifiSchedule!FairSpec`: the
loop of `StartWifiScheduleScheduler` never ends (weak; it recovers from
panics), the mutex is strong for the same reason, commands return.  The
retry of an interface that does not come up succeeds in the end because
failures are bounded.  `Cards!FairSpec`: requests are answered or fail, timers
fire, jobs end, polls go on; nothing makes the user act.  `InstallJob!FairSpec`:
package managers end and tabs poll.  `SelfUpdate!FairSpec`: downloads time out
(`http.Client.Timeout`), the dialog polls; strong for its last call because
each re-rendering of the shell restarts the interval.  `Login!FairSpec`: time
passes, and nothing else: no request need come or be answered.
`Panel!FairSpec`: calls are answered or fail, timers go off, and the person
presses the button that goes on.

## Proofs

A run shows a property on one small instance; a theorem shows it for every
value of the constants: any number of workers, pollers, interfaces, tabs,
attempts, acts and failures.

| Module | Theorem | Shows | Assuming |
|---|---|---|---|
| `ConfigTxProofs` | `TypeCorrect` | type invariant | |
| | `RollbackIsExact` | `RollbackExact` | `WellGuarded` plans |
| | `LeavesNothingAlways` | `LeavesNothing` | the same |
| | `RejectedStaysOutAlways` | `RejectedStaysOut` | the same |
| | `AckSurvivesAlways` | `AckSurvives` | plans that are `OnlyWrites` |
| | `ChangesAreAtomic` | `IsAtomic` | plans that are `Sound` and `OnlyWrites` |
| | `HandlersLeaveNothingAlways` | `HandlersLeaveNothing` | `Disciplined` |
| | `HandlersUndoAlways` | `HandlersUndo` | `Disciplined`, one worker |
| | `HandlersUndoTogether` | the same of any number of workers, for those that were alone | `Disciplined` |
| | `HandlersCommitAll` | a success has committed all its edits | `Committing` |
| | `HandlersTakeEffectAlways` | `HandlersTakeEffect` | `Disciplined`, `Committing`, `Telling`, one worker |
| | `HandlersUndoInForceAlways` | `HandlersUndoInForce` | `Disciplined`, `Telling`, one worker |
| | `HandlersPutServicesBackAlways` | `HandlersPutServicesBack` | `Switched`, one worker |
| `ReadCacheProofs` | `CacheTyped` | type invariant | |
| | `FreshAlways` | `FreshAfterInvalidate` | |
| | `RollsBackForCause` | `UndoneForCause` | `InvalidatesAgain` |
| | `AnswersTheFile` | `AnswersTruthfully` | `InvalidatesAgain`, `InvalidatesAfter` |
| `WifiScheduleProofs` | `ScheduleTyped` | type invariant | |
| | `OneReconcileAtATime` | one caller between snapshot and save | |
| | `ManualKeptAlways` | `ManualKept` | |
| `InstallProofs` | `InstallTypeCorrect` | type invariant | |
| | `InstalledIsTrueAlways` | `InstalledIsTrue` | |
| | `OwnOutcomeAlways` | `OwnOutcome` | |
| | `InstallImplements` | `Implements` | |
| `SelfUpdateProofs` | `UpdateTyped` | type invariant | |
| | `RestartsWholeAlways`, `RescueFirstAlways`, `ToldTheTruthAlways` | the properties of those names | |
| | `DoneIsNewAlways` | `DoneIsNew` | |
| `LoginProofs` | `LoginTyped` | type invariant | |
| | `OwnBudgetAlways`, `SessionsSurviveAlways`, `AllOutAlways` | the properties of those names | |
| `PanelProofs` | `SummaryHoldsAlways` | `SummaryHolds` | |
| `CardsProofs` | `CardsTyped` | type invariant | `CardDiscipline` |
| | `FailureToldAlways`, `RightSubjectAlways`, `SentOnceAlways`, `DraftSurvivesAlways`, `ShowsWhatHoldsAlways`, `ConvergesAlways` | the properties of those names | `CardDiscipline` |

The assumptions on constants (`ShapeAssumption`, `CacheAssumption`,
`KindsAssumption`, `BoundsAreNumbers`, `NobodyIsNoProc`, ...) say what the
constants look like; TLC evaluates them on every run.  The hypotheses in the
last column say more, and each is what some of the code keeps and some does
not:

- `WellGuarded(id)` is the discipline of the handlers: export every package of
  the footprint with the error checked, restore every one of them in both
  rollbacks, and write nothing else while rolling back.  `MCWritePaths` has TLC
  compute which handlers obey it (`GuardedAssumption`); `MCNetgrip` shows
  `RejectedStaysOut` fail where one of two does not.
- `Disciplined`, `Committing`, `Telling` and `Switched` ask of each handler,
  but for the exceptions by name, what its promise needs, as conditions on its
  plan alone: that it exports what it writes and puts back all it touches; that
  a commit follows each edit; that each service that reads an edited package is
  told after the last commit of it, and again by the rollback if it may have
  been told; that the rollback switches back what the handler switched, by what
  was probed before.  `Sound` is the first of them for one handler, and follows
  from `WellGuarded`; `OnlyWrites` says that no handler restores a package
  before something has failed.  TLC evaluates all of them on the plans of every
  run of `MCWritePaths` (`DisciplineAssumption`, `CommitAssumption`,
  `TellAssumption`, `SwitchAssumption`, `WriteAssumption`), so the catalogue of
  66 handlers meets them.
- One worker: what the services run with depends on all who edit the packages
  they read, so the promises about services are those of a handler that works
  alone.
- `InvalidatesAgain` and `InvalidatesAfter` hold of the two handlers of
  `firewall.go`, which `MCCache` runs.  The two of `portforward.go` do not
  invalidate again; `MCFwdAdd` shows `UndoneForCause` fail for one of them.
- The seven conditions of `CardDiscipline` hold of the 75 cards, with the
  exceptions `CardProperties` names.

Few of the properties are inductive.  The invariants that carry them:

**Rollback** (`RollbackInv`).  `RollbackExact` speaks of the last step of a
rollback; one must know what the packages held all the way.  For each worker
at work: before its first write its packages hold what they held when it began
(`Fresh`); the exports taken so far are those of its list (`Exporting`) and
each equals what the package held at the beginning (`Kept`); once it writes, it
has every package whose export it tests (`Obtained`); in a rollback with no
failed command, each package it has an export of and whose restore lies behind
is back, with nothing staged (`Restored`).  The step lemmas follow one worker: `OwnFollows` for its own step
and `OthersFollow` for that of another.  What is said of the packages is said of
workers that met nobody (`Alone`), and those at work that share a package have
met (`Met`): so whoever takes a step beside one of them works in a disjoint
footprint.

**Whose edits** (`MarksInv`, on top of `RollbackInv`).  A restore writes back
what a package held at the beginning, so the promises that relate handlers
need to know whose edits that was: those of the others that are still there
(`Unmixed`), none of its own (`Innocent`); and a handler has written nothing
before it runs (`Unwritten`) nor ever outside its footprint (`Within`); one
whose rollback only restores holds edits in no package but those it writes
(`Neat`), and if it exported these and was alone, in none once it was refused or
rolled back (`Spotless`).  An export can predate the
edits of a worker only if its owner met the worker, so `Unmixed` is said of the
exports of those it did not meet, as long as none of those it met rolls back
(`Spared`).
`LeavesNothing`, `RejectedStaysOut` and `AckSurvives` follow from it, and so does
`HandlersLeaveNothing`, the `Forgetful` included: which exports worked is part of
the state (`Exported`), not of the plan.

**Commits** (`PendingInv`).  A staged edit of a handler was made by an operation
that lies behind, with no tested commit of its package since; and a handler in
its probe, or done, is through its list.  With a commit after each edit in the
list, a handler that is done has none staged.  It needs no discipline on
overlaps: a restore of another handler empties a delta and never fills one.

**Services** (`ServicesInv`, one worker).  Before the first write nothing holds
anything (`Blank`).  While the handler works a service it does not switch is as
probed, and so is its boot link (`Steady`); in the rollback those whose
operation lies behind are again (`PutAgain`).  What a service runs with is what
its package holds from the moment it was told until the next commit (`Told`);
one that cannot have been told yet still runs with what was there before
(`Unheard`); in the rollback, once told again, it runs with what was put back
(`Retold`).  The catalogue's conditions `Telling` and `Switched` were written
from these invariants and found to hold of all handlers but the ones named.

**Atomic** (`AtomicInv`: `MarksInv`, `PendingInv` and `Made`).  That a change
which did not succeed left nothing, and that nobody touches the edits of
another, is `MarksInv`; that one which succeeded is there as a whole needs that
every edit the handler has come past is still there (`Made`).  `ChangeStep` then
maps each step: the first of a handler to `Begin`, its last to `Succeed`, `Fail`
or `Break`, all the others to a stutter, for what they write is not seen yet
(`SeenStep`).

**Cache** (`FloorInv`, `VerifyInv`).  What the map would serve is no older than
the last invalidation; what a caller would be served by the entry it holds is no
older than the invalidation before its own beginning, and all who hold an entry
began after the same one (`OneFloor`).  This is the argument of the code: an
invalidation does not touch the entry but takes it out of the map, so that a
late store goes where nobody new looks.  `VerifyInv` adds that the handler's
verification reads what it wrote.

**Schedule** (`Locked`, `KeptInv`).  The mutex is held exactly by who is between
snapshot and save.  An interface that is off by `hand` is not in the ledger
(`NotOurs`), so no call that would put it on gets to apply; the export a rollback
may restore has it off by `hand`, and has nothing so that is in the ledger or is
being switched (`SnapKeeps`), so that a rollback cannot bring back an interface as
the user's that is the scheduler's by now.

**Install** (`OwnInv`, `LoneInv`).  `InstalledIsTrue` is not inductive of the
record alone, because a job appends to a copy it took earlier and writes the
copy back; it is proved of the copies, and of what the tabs have seen, as well.
That packages are never removed by the job carries it through overlaps: a lost
update loses an entry and never adds a false one.  `OwnOutcome` rests on who wrote
the record (`author`): it says done or failed only while that job has ended so
(`Signed`), and both the author and whoever may write yet are jobs a waiting tab
may hear of, with a rival known where two met (`Hears`).  `LoneInv` says that as long
as no two jobs have overlapped, only the last is at work and the record is its
own.  `InstallImplements` maps each action to a step of `Installer` or to a
stutter, with one lemma for the steps of overlapping jobs (`LostStep`).

**Self-update** (`AloneInv`, `DialogInv`).  If no two updates have overlapped,
at most one is at work; its file is whole from the end of the download on, the
binary is what its own last step left, and a rescue copy is there when it is
about to unlink, if making it did not fail.  The dialog needs no such thing: the phase returns to idle only with
the restart, and by then the old binary is gone (`OldGone`, `IdleIsNew`).

**Sessions** (`OutInv`).  While no bump was raced or lost, one bump at a time
has the file, which is empty only while it writes, what it read is the epoch, no
token is above the epoch, and those from before a finished bump are below it.
`OwnBudget` and `SessionsSurvive` follow from the type invariant action by
action: a failure is counted to the address of its attempt, and time, pruning
and successes never add to a wait; a good token is
of the secret in the file and of its epoch, which only a call of `secret()` that
found no file, and a bump, write.

**Wizard** (`SummaryInv`).  A row of the summary and the router change in two
steps, the answer of a save coming after its effect; so the invariant relates
rows, save under way and router: a save nobody waits for any more is one of an
earlier wizard, and the present one has no rows yet that it could make false
(`Unheard`); a network is noted as switched off before it is (`OffIsKnown`).

**Cards** (`CardsInv`).  Of any number of acts: a flag that guards every act
that touches it is up while one of them has a call to come that concerns it,
and no two of them have (`FlagsHeld`).  Of an act that is alone, its own flags
are up (`AloneHeld`), hence two acts that are the only ones do not make the
same change (`PairHeld`).  The rest is case analysis over the effects a call
can have.  `ToldInv` and `SubjectInv` are the properties said of acts and
readings under way.  `DraftInv` says of a form that follows its data that
nothing but the first reading can fill it again, and that one is over before
the user can type; readings begun by an act are those of `DropsDraft`.

`ShowsWhatHolds` and `Converges` relate what is in force to what is shown, and
neither follows from the other.  For `ShowsWhatHolds` (`SimpleInv`) there is one
act: as long as it is under way, what it changed and does not show is among what
its script still has to bring (`Debts`, a certificate per script that
`ChangesAreShown` asks for), whichever call is refused (`Underway`); when it is
over, a job or a reading is on its way, or nothing is missing (`Over`).  For
`Converges` (`CalmInv`) nothing fails and the acts overlap: what is in force and
not shown belongs to an act that still has to show it, an answer on its way
carries every change but those, and no two acts about the same part are under
way, for they have the flag of `PartsAreGuarded` between them.

Every safety property that a passing run checks is a theorem.  Only
model-checked:

- what needs fairness or ENABLED, which the prover cannot treat: `ReadsEnd`,
  `ComesBackUnlessLost`, `GoesOff`, `BusyEnds`, `BeginReturns`, `HookGoesOff`,
  `DialogEnds`, `WaitEnds`, `WizardEnds`, `DeadSessionShows`;
- the type invariant of `Panel`, of which `SummaryHoldsAlways` needs a part;
- that the catalogues keep to the conditions of `WriteDiscipline` and
  `CardDiscipline`, which is a fact about the plans and the scripts: TLC
  evaluates it with every run.

## Where the code and its words disagree

The findings in `PROJECT.json` quote the comment, text or document and the line
of code; the violation runs show them, and the configurations to be run by hand
and the lists of `CardProperties` show more.  The same models show the
following, by giving `Plan` or `Kinds` the handler alone and asking the same
property (paths are under `src/internal/modules/`):

| Handler | Property that fails | What the code does |
|---|---|---|
| `SetMode("ap")` (mode.go:148) | `ServicesBack` | the rollback restores the files and leaves the firewall and dnsmasq off |
| `SetIoT` (iotwifi.go:112), both bands | `RollbackIsLive` | the rollback reloads no radio |
| `SetSQM` (sqm.go:173) | `ServicesBack` | the rollback always stops the shaper and leaves the boot link the change made |
| `SetTailscale` (tailscale.go:103) | `ServicesBack` | says "rolled back"; nothing is |
| `adGuardEnableRollback` (dns_adguard.go:403) | `ServicesBack` | stops the service and leaves it enabled |
| `SetGuest` (guestwifi.go:94) | `RollbackIsLive` | the rollback does not reload dnsmasq, which keeps the rejected pool |
| `SetSNMP` (snmp.go:182) | `RollbackIsLive` | the rollback leaves the daemon with the rejected settings |
| `ApplyRole` (roles.go), isolated | `RollbackIsLive` | restores the firewall package and does not reload the firewall |
| `SetUpnpRule` (upnp.go) | `RollbackIsLive` | does not reload miniupnpd after a failed operation |
| `enableOVPN` (openvpn.go:302) | `TakesEffect` | commits the interface `vpn0` and does not reload the network |
| `ExecuteOps` (executor_delegate.go:82) | `RejectedStaysOut` | no snapshot and no rollback: a failed list leaves staged edits |
| two handlers on `network` (wan.go:68) | `LeavesNothing` | an export taken during another's change brings it back after that one rolled back |
| `RemoveFwdRule` (portforward.go:344) | `UndoneForCause` | a poll between its invalidation and its write makes the verification fail |
| `DeleteFirewallRule` (firewall.go:526) | `AnswersTruthfully` for deletes | answers after a rollback with the rules as cached before it |
| `CachedRead` (readcache.go:26) | one compute of a key at a time (not stated here) | an invalidation during a compute lets a second one start beside it |

## Not modelled

- Values of options, names of sections, list options that accumulate; parsing
  and formatting; validation of requests beyond conditions on services; HTTP
  and JSON.  No property tells them apart.
- Of the frontend: layout, texts, charts, the demo, and pages that only read.
- `adGuardDisable`, the certificates of OpenVPN, and the write handlers for port
  security, storm control, STP, quotas, rate limits, mirroring, QoS, bridges,
  channels, DoH, MAC lists and passwords.  They have the shape `ConfigTx`
  runs; their requests are in the cards, their plans are not written.
- The service's side of banIP (cache with generations), the sweep of the PoE
  watchdog, the cron file of PoE, MQTT, the NetPulse stream and discovery, the
  netifyd socket, the ubus client, the MCP rate limiter, certificates.  Some of
  their hazards are listed in `PROJECT.json` without a property.
- Notifications, diagnostics, packaging: little or no state.

The list "components" in `PROJECT.json` has the reason for each part.

## Plan

What is left, in order of weight:

1. The remaining plans for `ConfigTx`.
2. The cache of banIP, the PoE sweep, MQTT and the NetPulse stream.
