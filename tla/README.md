# Shore power control: TLA+ models and proofs

This directory is the formal companion of the shore power control server
(`cmd/server`, `internal/*`). It holds TLA+ modules that model the server's own
logic, TLC configurations that check them on small instances, and TLAPS proofs
for every instance. File names and line numbers below refer to `src/`.

The server gives berths and shore capacity to vessels, connects them to the
grid, meters and bills them, and takes the berth back on departure. Everything
but the run log is kept in memory by a handful of objects, each with a mutex of
its own that is never held across a call to another object. Every HTTP request
runs in its own goroutine, four loops (reconciler, sampler, alarm dispatch,
broadcast) run beside them, every delivery of the event bus has a goroutine and
every browser has two. What is hard here is what happens *between* two
calls of one handler.

## 1. Inventory

| Component (code) | State it keeps | Operations | Hard behaviour | What makes it correct |
|---|---|---|---|---|
| Berth store (`internal/berth`) | table of berths, state cache, snapshot | `CheckReady`, `MarkOccupied/Idle/Allocating/Releasing`, `ResetState`, `RestoreOne`, `RebuildFromLive` | decisions are taken on the cache and on earlier reads | cache = table; a vessel only at a held berth; a held berth names its vessel |
| Allocator and ledger (`internal/capacity/capacity.go`, `ledger.go`) | `used`, `allocs`, ledger | `Allocate` (= `Refresh`, cache, grant), `Release`, `SyncFromStore` | `Refresh` reads the berth before it takes `a.mu`; three methods edit two maps | never more than the supply or the rating; maps agree; one open ledger record per allocation; the whole is an atomic pool |
| Plan (`capacity/plan.go`) | none | a read | none that changes state | - |
| Reconciler (`capacity/reconciler.go`) | last report | a tick releases and audits | works on lists that are out of date | leaks come back; lasting drift is reported |
| Occupy and depart handlers (`cmd/server/main.go:221-296`) | request locals | store, allocator and billing in turn | a step in the middle fails; two departures overlap | a departure owns its berth and gives it back |
| Recovery (`main.go:611-639`) | a map under construction | reads everything, replaces the table | the table is replaced with what was read earlier | the rebuilt table is one the handlers can work with |
| Connector (`internal/connect`) | sessions, pending channels | `Apply`, `ConfirmVerification`, `WaitVerification`, `Cancel`, `fail`, `timeout` | four ways to end a session race for one channel, one berth, one allocation | a channel is closed once; a session is confirmed once; nobody waits or blocks a berth for ever |
| Override and dispatch (`connect/override.go`) | override | `SetLocalOverride`, `AutoDispatch` | override and mode are set under two mutexes; the list of sessions is a copy | mode follows the override; a session is confirmed once, and every one of the list is got to |
| Grid controller, breaker, syncer (`internal/grid`) | state, phase flag, executions, breaker | `PhaseCheck`, `SyncAndClose`, `Separate` | the breaker is worked outside `g.mu` | breaker and state agree |
| Switching sequences (`grid/sequence.go`) | none | `ApplySequence`, `rollback` | a rollback restores copies taken earlier, beside handlers of the same berth | a sequence that fails undisturbed leaves the grid and the berth as they were |
| Command queue (`grid/dispatch.go`) | queue, mode | `Enqueue`, `AutoDispatch` | nothing ever calls `Enqueue` | - |
| Meter, sample store, billing (`internal/meter`) | runs, samples, bills | `Start`, `Sample`, `Suspend`, `Resume`, `Stop`, `Settle` | a sample and a settlement are chains of steps over three mutexes | samples in order; a bill ends the run |
| Rate (`meter/rate.go`) | none | `Tier`, prices | windows past midnight | each hour in the right tier |
| Recorder (`internal/record`) | `run.log`, entries, fingerprints | `Append`, `Close`, `Resume` | torn lines, failed syncs, restarts | what was acknowledged can be read back, once |
| Alarms (`internal/alarm`) | alarms, queue of 64 | `Raise`, `Evaluate`, `Ack`, dispatch loop, its stop | handlers in goroutines; a full queue drops; the loop stops while alarms are raised | every dispatch is accounted for; nobody waits for a full queue; a shutdown completes |
| Event bus (`internal/event`) | subscribers | `Publish`, `Subscribe`, `Close` | a goroutine per delivery: no order, and nobody waits for one | every delivery comes to an end |
| Configuration (`internal/config`) | none | `Load`, `Validate` | zero means "not given" | - |
| WebSocket hub (`main.go:722-832`) | clients, buffers of 8 | register, broadcast, remove | a channel that is closed while others send on it; a browser that stalls; frames dropped | never sends on a closed channel; the screen never goes back and misses no alarm for good |
| Console (`web/console.html`) | none | calls the API | - | - |

How they interact: `handleOccupy` calls store, allocator, store.
`handleDepart` calls store, meter/billing, store, allocator, store. The
connector calls store, allocator, grid, meter and bus. The reconciler and the
recovery call store and allocator. Grid, meter and alarms append to the
recorder and publish on the bus; the bus calls the alarm manager, which reads
grid and store, dispatches to the recorder and hands its alarms to the dispatch
loop. The broadcast loop reads everybody and writes to the browsers. `PROJECT.json` lists every hazard at its line.

## 2. Modules

```
KVA                      sums over berths
 |-- CapacityPool        abstract: an atomic pool of capacity
 '-- Allocator           used, allocs, ledger        (EXTENDS BerthStore, KVA)
      '-- Capacity       occupy, depart, rebuild, reconciler; refines CapacityPool
           '-- Connect   connector, separation, meter state  (EXTENDS Capacity, Grid);
                |         refines SessionLife, the life of a session without berths
                '-- Switching   sequences, override, automatic dispatch
BerthStore               table and cache
Grid                     controller and breaker
RunLog                   abstract: a log that grows at its end, memory, promises
Recorder, Rate           run log, refines RunLog; tariff
 '-- Metering            meter, billing, sampling loop, restart
Alarms, Hub              bus, alarms, dispatch loop, shutdown; browsers
 '-- Console             the way of an alarm to the screen
KVAProof, CapacityPoolProof, CapacityProof                      TLAPS
SwitchingProof (EXTENDS CapacityProof), SwitchingSafetyProof
RecorderProof, MeteringProof; ConsoleProof
MCCapacity, MCConnect, MCSwitching, MCMetering, MCConsole       constants for TLC
```

`BerthStore`, `Allocator`, `Grid`, `Recorder` and `Rate` hold one operator per
method, or per section of a method between two unlocks. They own no
goroutines. The others do: `pc[c]` (`stage[p]` in `Metering`, a field `pc` in
`Alarms` and `Console`) is the call a goroutine will make next, and one action is one call,
which is atomic because the callee holds its mutex throughout. A request that is
refused by its first check changes nothing and is a stuttering step, so only
requests that pass it are issued.

Operators whose comment starts with "Wrong on purpose" are mutated forms of the
definition that follows them. No specification uses them; each was put in the
place of that definition once per property to see the property fail.

### 2.1 Capacity

| Code | Model |
|---|---|
| `Store.berths[b].State/.Vessel`, `Cache` | `berths[b]`, `cache[b]` |
| `Allocator.used`, `.allocs`, `Ledger.records` | `used`, `allocs`, `ledger` (absent: 0, `None`) |
| `handleOccupy` | `HandleOccupy`, `AllocateRefresh`, `AllocateDrop`, `AllocateCached`, `AllocateGrant`, `OccupyMark` |
| `handleDepart` | `HandleDepart`, `DepartSettle`, `DepartMark`, `DepartRelease`, `DepartIdle` |
| `rebuildLiveState` | `HandleRebuild`, `RebuildList`, `RebuildOccupant`, `RebuildStore`, `RebuildSync`, `SyncRelease`, `RebuildDone` |
| `Reconciler.Reconcile` | `ReconcileTick`, `SyncRelease`, `ReconcileList`, `ReconcileAudit`, `ReconcileReport` |

Abstractions: kVA are whole blocks (the code's float64 compared and added;
rounding is outside the model). Allocation ids and times are left out of the
ledger: a berth's earlier record is closed before a new one is appended, so the
first open match is the same. `DepartSettle` may refuse or pass as the meter
pleases; `Connect` replaces it by `DepartBill`. Loops over Go maps and lists
visit berths in any order.

### 2.2 Connect and Grid

| Code | Model |
|---|---|
| `Connector.sessions`, `pending`, closed channels | `sessions` (sequence of records), `pending`, `closed` |
| `Controller.state`, `phaseChecked`, `execCount`, breaker | `grid`, `phaseChecked`, `executions`, `breaker` |
| `Apply` | `HandleApply`, the allocation steps of `Capacity`, `ApplyMark`, `ApplyUndo`, `ApplyRegister` |
| `ConfirmVerification` with `PhaseCheck`, `SyncAndClose`, `MarkOccupied`, `Meter.Start` | `HandleConfirm`, `ConfirmPhase/Sync/Match/Close/OnGrid/Occupy/Meter/Connected/Announce`, `ConfirmFail` |
| `Cancel`, `timeout`, `fail` | `HandleCancel`, `WaitTimeout`, `ConfirmFail`, each followed by `Unlatch`, `ResetBerth`, `Unallocate` |
| `WaitVerification` | `HandleWait`, `WaitWake`, `WaitTimer`, `WaitTimeout` |
| what a caller is promised of a session | `SessionLife`: `Open`, `TakeOn`, `Connect`, `End`, `Release` (`TakenOn` and `HasConnected` map to it) |
| `/api/grid/separate` | `HandleSeparate`, `SeparateOpen`, `SeparateOff` |

Abstractions: a phase is only compared with the configured one, so it is the
truth value `matching` of the session. The meter is the state of a vessel's run
and `Settle` one step; the steps are in `Metering`. The command queue is left
out: nothing calls `Enqueue`.

`Switching` adds the operator's side to the same goroutines and the same berths:

| Code | Model |
|---|---|
| `Connector.override`, `Controller.mode` | `override`, `mode` |
| `SetLocalOverride` (`c.mu`, then `g.mu`) | `HandleOverride`, `SetControlMode` |
| `Connector.AutoDispatch`: the list, then one confirmation after the other | `HandleDispatch`, `DispatchNext` and the steps of `ConfirmVerification`; `targets[c]` is what is left of the list |
| `handleSwitch`, `ApplySequence` | `HandleSwitch`, `SwitchSetSyncing/Unload/Copy/SetBerth/Shut/SetOff` |
| `rollback` | `SwitchRestore`, `SwitchRestoreGrid` |

Three variables are history that only properties read: `crossed` (two override
calls overlapped), `disturbed` (others changed grid or berths while a sequence
ran) and `putBack` (a berth that such a sequence returned to "allocating").

### 2.3 Metering, Recorder and Rate

| Code | Model |
|---|---|
| `run.log` | `disk`, a sequence of lines that parse to an entry or are `Garbage`; `cut`: no newline at the end |
| `record.Store` entries and fingerprints | `recorded`; `Seen(e)` |
| outcomes of `Append` | `Refused`, `AppendSeen`, `AppendWritten`, `AppendUnopened`, `AppendShort`, `AppendUnsynced` |
| `NewRecorder` / `Resume`, crash inside a write | `Restart`, `CrashAppending` |
| what a caller is promised of the log | `RunLog`: `Record`, `RecordAgain`, `Fail`, `StartAgain` |
| `Meter.active`, `Store.samples`, `Billing.records` | `run`, `samples`, `bills` |
| `sampleLoop`, `Sample` | `SampleTick`, `SampleSkip`, `SampleCount`, `SampleAdd`, `SampleRecord` |
| `Settle` | `HandleSettle`, `SettleBill`, `SettleStop`, `SettleRecord` |

`Append` holds `r.mu` for all of its body, so it is one step with several
outcomes; only a crash can stop in the middle, and `TearTail` gives the two
tails it may leave. A sample is its sequence number, a bill that number with the
tier of its hour. Amounts are not modelled. The clock `now` need not move
between two records, so two bills may have the same fingerprint. A crash is the
end of the process; that a power failure also loses lines whose sync failed is
not modelled, and such lines were never acknowledged.

`RunLog` knows nothing of lines that do not parse. Its log is the entries whose
lines have their newline (`Ended`), its tail what follows the last newline
(`LineBegun`). A write of a line appends to the log when there is no tail; when
there is one, the line is lost with it, and that is the only way to lose one.

### 2.4 Alarms, Hub and Console

| Code | Model |
|---|---|
| `Bus.subs`, `Publish`, the goroutine of a delivery | `subscribed`, `Publish`, `handlers[d]` |
| `Evaluate`, `driftChecks`, `Raise`, `handleEvent` | `EvaluateOwn`, `DriftGrid`, `DriftList`, `DriftRaise`, `RaiseDispatch`, `HandlerSend`, `HandlerEnd` |
| `Manager.alarms`, `DispatchLoop.queue` | `alarms` (acknowledged or not), `queue` |
| `DispatchLoop.Run`, `Stop` and the shutdown of `main` | `LoopSubscribe`, `LoopTake`, `LoopDispatch`, `LoopReturn`, `Shutdown` |
| `wsHub.clients`, `wsClient.send`, `writeLoop`, `readLoop` | `clients`, `send` and `closedSend`, `WriteLoopTake/Written/End`, `ReadLoopEnd` |
| `broadcastLoop`, `broadcast` | `BuildSnapshot`, `Broadcast`, `BroadcastStop` |

What a handler reads of grid and berths is any value, because both change at
any time; the harmless consequence that a berth settled a moment ago is
reported next to a grid read before is therefore in the model. A frame is the
list of alarms in it. `shown[w]` is what the browser has on its screen. The
handshake and the layout of a frame are left out. `Evaluate` never raises a
critical alarm, so the `Separate` that `Dispatch` makes for one is dead code.

## 3. Runs

Every bound is a CONSTANT of the cfg. `MaxRequests`, `MaxCalls`, `MaxSamples`,
`MaxTick`, `MaxLives`, `MaxFaults`, `MaxEvents` and `MaxAcks` count events that the code does not bound.

| Run | Instance | Shows |
|---|---|---|
| `capacity_all` | 2 berths (one of rating 1), 1 vessel, supply 2, demands 1 and 2, 2 clients, reconciler, 3 requests of any kind | `TypeOK`, `CapacityBound`, `BerthLimit`, `BooksAgree`, `LedgerExact`, `CacheCoherent`, `VesselOnlyWhenHeld`, `ImplementsPool` |
| `capacity_live` | the same without recovery, with fairness | `SettledHasVessel`, `DepartOwnsBerth`, `LeakReclaimed`, `DriftReported` |
| `connect_all` | 1 berth, 1 vessel, 2 clients, 3 requests of any of the twelve operations, a breaker that may fail, the reconciler | `SwitchTypeOK`, `LatchIffOpen`, `ChannelInOnePlace`, `ServedByOne`, `AllocatingOwned`, `ExecutionsCover`, `ModeFollowsOverride`, `SequenceUndone`, `ImplementsLife` |
| `connect_live` | 2 berths, 1 vessel, one request id, 2 clients, 4 requests to apply, cancel, wait and dispatch, fairness | `ConnectedOnce`, `WaitersWake`, `TakenOnEnds` |
| `console_all` | 1 delivery of `grid.state`, 1 berth (so up to 2 alarms), a queue and a channel of 1, 1 browser that may stall or go, 1 acknowledgement, a shutdown at any time, fairness | `ConsoleTypeOK`, `DispatchAccounted`, `OpenWhileListed`, `FramesForward`, `HandlersNeverWait`, `ShutdownCompletes`, `BroadcastGoesOn`, `AlarmReachesConsole` |
| `metering_all` | 1 vessel, 2 clients, 2 samples, 2 settlements, 2 hours, 1 restart, 1 disk fault | `MeteringTypeOK`, `SamplesInOrder`, `SettledFrozen`, `BillsPriced`, `BilledStops`, `ImplementsRunLog`, `LossBounded`, `WrittenOnce` |
| `depart_reclaims`, `rebuild_vessel`, `cancel_sticks`, `wait_verified`, `breaker_follows`, `record_lost` | the smallest instance that shows it | a disagreement, see section 4 |

Why the bounds are enough. The hazards listed in `PROJECT.json` are races of two
request goroutines over one berth, session or vessel, or of one of them with a
background loop, so the passing runs have two clients, and the loop where the
component has one. A race that needs three clients at once would be missed by
`connect_all`, `connect_live` and `metering_all`. A second berth matters where sums
and ratings are compared, or where two sessions meet at the one grid. Three
requests are an occupation, its rival and a departure or rebuild, or an
application with a confirmation (or a switching sequence) and what disturbs it;
four are two applications and two dispatches, or a dispatch with a cancellation
that overtakes it. In `connect_live` the sessions are confirmed by the dispatch,
which makes the same steps as the handler and has its list besides. The supply of 2 lets a demand fit alone but not beside another. In
`metering_all` the valley 22-6 passes midnight, and hours 5 and 8 are in the
valley and at the start of the peak; for all windows with bounds from -2 to 26
TLC evaluates `WindowsAgree` when the run starts. One delivery in `console_all` raises two
alarms, so the queue of one is full when the second comes, and the tick comes
again and again, so the channel of one fills as well; two deliveries side by side
are more than 9 million states and were not run. The sizes 64 and 8 of the code
are `QueueSize` and `BufferSize`: no guard depends on more than full or not. What does not depend on the instance in
`Capacity` is proved for all of them (section 5).

Deadlock is checked in `capacity_all`, `capacity_live`, `depart_reclaims` and
`connect_all`, where the reconciler ticks for ever: a state in which it could
not go on would be reported. The other configurations have no loop and a bound
on requests, or a process that exits (`console_all`), so they do come to an end
and say `CHECK_DEADLOCK FALSE`.

Symmetry is used for the clients, and only in runs without liveness: the request
goroutines are alike, no property names one, and none of those runs has a
fairness condition.

Fairness. The Go scheduler runs every runnable goroutine and no mutex is held
across another call, so a handler that has begun takes its next step: weak
fairness per client. The reconciler's ticker fires until shutdown: weak fairness
of `ReconcileStep`. A wait for a closed channel returns. Nobody is obliged to
send a request, and the timer of a waiter is not obliged to fire, so
`WaitersWake` shows that the channel alone is enough.

`SwitchFairSpec` asks the same of the handlers of `Switching`: a dispatch goes on
to the end of its list. `ConsoleFairSpec` asks it of every handler of the bus,
the dispatch loop, the broadcast loop (whose ticker goes on ticking), the two
loops of a browser and a shutdown that has begun. Events, operators, signals and
browsers owe nothing. A `select` with several branches ready takes one at
random; that it does not pass over the stop for ever follows from the bound on
deliveries. That a handler waits for nobody (`HandlersNeverWait`) is stated
without fairness.

`SequenceUndone` and `AllocatingOwned` are about two sides of one thing: a
rollback that nobody disturbed is exact, and one that was disturbed may put a
berth back to "allocating" whose session has ended meanwhile. Such a berth is in
`putBack`; nothing ever frees it, because no session owns it. `ModeFollowsOverride`
is for calls that do not overlap; two that do may leave override and mode apart
until the next call.

A breaker that fails is a fault the `Breaker` interface allows and
`internal/grid/verify_test.go` injects; the server's own `SimpleBreaker` fails
only when told to.

## 4. Where code and documents disagree

Each has a run whose counterexample is short enough to read.

* `depart_reclaims`: a departure that finds its allocation gone leaves the
  berth `releasing` and never reclaims it; neither does a further departure
  (`MarkReleasing` refuses it), an occupation (`CheckReady` refuses it) or the
  reconciler (`main.go:287`; "离泊回收", BENZHI_README.md:38). Only something
  else may free it, which the run leaves out: a recovery (`main.go:623-626`), the
  `MarkIdle` of an off sequence (`sequence.go:76-77`), a rollback that restores an
  older copy, or `ResetState` (`status.go:103`) when a session of that berth is
  cancelled, fails or times out.
* `rebuild_vessel`: a recovery between the grant and `MarkOccupied` settles the
  berth without a vessel (`main.go:617`).
* `cancel_sticks`: a confirmation that is under way connects a session whose
  cancellation was accepted (`connect.go:187`; "撤销接入", BENZHI_README.md:43).
* `wait_verified`: a waiter is answered "verified" when the session was
  cancelled or failed (`main.go:377`; "等待校验结果", BENZHI_README.md:42).
* `breaker_follows`: a confirmation that overlaps a separation leaves the
  breaker and the grid state apart, with nothing under way (`grid.go:94`; "解列",
  BENZHI_README.md:45).
* `record_lost`: an entry appended after a torn line is acknowledged and lost
  (`record.go:75`; "运行记录持久化", BENZHI_README.md:13). `LossBounded` says how
  much is lost at most.

What the code does and no run states: a departure does not separate the grid,
although BENZHI_README.md:3 says that it separates and settles
(`handleDepart`, `main.go:260-296`, calls nothing of the controller); a sequence
that fails does not put the breaker back; a sequence that succeeds leaves the
grid `syncing`; a session put under an override after the list of a dispatch was
made is confirmed all the same; every alarm is dispatched twice; alarms in
flight when the process ends are not dispatched again.

## 5. Proofs

`CapacityProof` proves, for any number of berths, vessels, clients and requests
and any supply, ratings and demands:

* `TypeCorrect`, `CapacityBoundHolds`, `BerthLimitHolds`, `BooksAgreeHolds`,
  `LedgerExactHolds`, `CacheCoherentHolds`, `VesselOnlyWhenHeldHolds`: the seven
  invariants of `capacity_all`;
* `ImplementsPoolHolds`: every behaviour of the goroutines is one of
  `CapacityPool`, whose own bound is `PoolBoundHolds` in `CapacityPoolProof`.

The argument. None of these invariants is inductive alone. `BerthLimit`, for
instance, needs that a goroutine on its way to the grant still carries a demand
that passed `CheckReady`; this is `LocalsOK`, and `TypeInv == TypeOK /\ LocalsOK`
is inductive. Two lemmas then say what *any* step does: `NextBooks`
(`BooksStep`: nothing, one grant that fits on a berth without allocation, or one
revocation) and `NextStore` (`StoreStep`: nothing, one Mark method, or one
rebuild). `BooksInv` (maps, ratings, supply and ledger together: the ledger
needs the maps, the supply needs the sums) is preserved by the three cases of
`BooksStep`; `StoreInv` adds to the cache and the vessels what the map of a
running rebuild holds (`LiveOK`). The refinement follows from `BooksStep` with
`BooksInv`. `KVAProof` has the lemmas about sums: changing one summand changes
the sum by the difference.

Two more invariants need that nobody rebuilds the table: `SettledHasVesselHolds`
and `DepartOwnsBerthHolds` assume `"rebuild" \notin Ops`, as `capacity_live` does,
and `rebuild_vessel` shows that the first is false otherwise. `OwnInv` is the two of
them together: a departure owns its berth because the mark of a second one is
refused, and a berth that is not idle keeps its vessel because only its owner
frees it.

`SwitchingProof` and `SwitchingSafetyProof` prove every invariant of `connect_all` and
`connect_live` and the action property `SequenceUndone`, for `SwitchSpec`: the twelve
operations, any number of sessions, berths, vessels and clients. There are some
sixty actions, so they are gone through once for each part of the state, and the
invariants are proved from the few things a step can be:

* `ClientEffect` (`NextSession`): the goroutine goes to a step that its request
  `Suits`, and leaves the sessions alone, registers, takes on, ends or connects
  one, or closes a channel. `OwnWork` says what else it has done by then.
* `StoreChange`, `MeterChange`, `GridChange`, `ControlChange`: what may happen to the store,
  the runs, the controller and the control room. `NextBooksOf` brings the books back to
  `BooksStep` of `CapacityProof`.

From these:

* `SwitchTypeCorrect`: `SwitchTypeInv`, in which a request suits the
  step its handler is at, a session still verifying has made one step, and one that
  is being confirmed has made three and has one goroutine only.
* `LatchIffOpenHolds`: `LatchInv`. A session has its channel exactly
  while it is open; the end of a session takes the channel out of the map before
  it is closed, so whoever comes second finds none.
* `ChannelInOnePlaceHolds`: `HandsInv`. A session that ended has its channel closed, or
  one goroutine, `Closing` it, has it in its hands. This is the safety core of
  `WaitersWake`: no step drops a channel, so what is left to show is that who holds
  one goes on.
* `ServedByOneHolds`: `ServedInv`. A session that is "connecting" has a goroutine
  `Confirming` it, and only one: no early return of a confirmation or of a dispatch
  leaves the session where it took it on. This is the safety core of `TakenOnEnds`.
* `SwitchSettledHasVesselHolds`: `NamedInv`, without a rebuild, as for `SettledHasVesselHolds`
  above. A rollback puts back copies, so a copy that is settled has to
  name a vessel as well.
* `ConnectedOnceHolds`: `ConnectedOnce` is too late to be inductive; `MeterInv` speaks of
  the sessions that are `Through` the meter, connected or about to be.
* `ExecutionsCoverHolds`: `ExecInv` counts the sessions that are past the breaker.
* `ModeFollowsOverrideHolds`: `ModeInv`. Unless two calls crossed, the one between its two
  sections carries the override in force.
* `SequenceUndoneHolds`: `UndoneInv`. What an undisturbed sequence `Knows`: the berth is as
  it was found, or its copy is and the mooring was added.
* `AllocatingOwnedHolds`: `OwnedInv`. That a session is open is not enough, because a
  session whose vessel is `Moored` will not find the berth allocating when it ends.
  The attempt to prove this showed that an earlier form of the property held only
  because no run had more than three requests: a disturbed sequence can put the
  berth back, a second one copy it in that state, and put it back in turn after the
  berth was reset. `putBack` keeps a berth while such a copy is about.
* `SwitchLedgerExactHolds`, `SwitchCapacityBoundHolds`, `SwitchImplementsPoolHolds`: the books and the
  refinement of the pool once more, now that applications and the ends of sessions
  write to the books as well. `BooksTypes` and `BooksInv` are preserved by `BooksStep`
  whoever makes it, so nothing of `CapacityProof` is proved twice.
* `SwitchCacheCoherentHolds`, `SwitchVesselOnlyWhenHeldHolds` (`HeldInv`): a rollback puts a copy
  of a berth back, however old, so the copies have to obey the rule as the berths do.
  `RebuildLiveInv` and `ReconcileLiveInv`, about what a rebuild puts together, are
  lemmas of `CapacityProof` that both specifications use.
* `ImplementsLifeHolds`: the connector implements `SessionLife`. `EffectLife` maps each of the
  six things a step may do to the sessions to one step of the life or to none;
  that a session is taken on only while it can be waited for rests on `LatchInv`.

`MeteringProof` proves all eight properties of `metering_all`, for any number of runs,
samples, settlements, restarts, crashes and faults and every tariff. `RecorderProof`
has the lemmas about the log. The scan of `Resume` is a recursive function of the
number of lines, and what it keeps is shown by taking the least line that would
break the claim, so no induction rule is needed.

* `MeteringTypeCorrect`: `TypeInv`, with what a worker's job holds at each stage.
* `SamplesInOrderHolds` (`OrderInv`) and `SettledFrozenHolds`: the sample on its way is the
  run's last one, and nothing but a new process starts a run again.
* `BilledStopsHolds`, `BillsPricedHolds` (`BillInv`). `BillsPriced` speaks of the hours of
  a window as switched on at its start and off at its end, every day; `WindowIsRange`
  shows that the comparison of the code, with its case for a window past midnight,
  finds just these hours, for any two integers as bounds. So the theorem holds
  also for the valley windows outside the day that `Validate` lets pass
  (`config.go:180-182`).
* `LogMatchesMemoryHolds` (`SyncInv`): before the first fault every line is whole, and
  file and memory have the same entries. No run states it any more: the next
  theorem says it of runs with faults too.
* `ImplementsRunLogHolds`: `FileWrite`, `FileTear` and `FileReadBack` say what a line with its
  newline, one without, and a scan are in the abstract log; `FileNext` puts the cases
  of `LogSteps` together. The lemma that carries it is `ReadableMore`: a scan reads a
  file to its last line but one, and then that line, so a line that is spoilt at the
  end changes nothing of what was read before it.
* `WrittenOnceHolds` (`OnceInv`): an entry that is not in memory has as many whole lines as
  syncs have failed; one more is written at most.
* `LossBoundedHolds` (`LossInv`, `TimeInv`). The bound alone is not inductive: a tail that is
  cut has lost nothing yet, so a cut counts as one loss ahead. That the next entry
  written is not one acknowledged before needs the clock: what is in memory but not
  in the file is `Old`, and what a worker is about to append is not.

`ConsoleProof` proves, for any number of browsers, berths, deliveries and alarms
and any size of the queue and the channels:

* `ConsoleTypeCorrect`, from `HubTypes`, `AlarmsTypes` and `Sizes`;
* `DispatchAccountedHolds`. The equation alone is not inductive: a send could
  take an alarm off one list of two. `AccountInv` adds `Lists`: no alarm is twice
  on a list or on two lists, none on a list was dropped, and who is about to
  dispatch has raised one. Each step then moves one unit from one term to
  another; `TailPlaces` counts the places of the queue when its head is taken;
* `OpenWhileListedHolds`, with `OpenInv`: a browser yet to come has no closed
  channel;
* `FramesForwardHolds`, with `LineInv`: the frames stand in line, shown, being
  written, in the channel, about to be broadcast, and the alarms themselves, each
  continuing the one before. A frame that is dropped leaves the line in order.

`console_all` has one delivery, so the proofs are what covers several at once.

Assumptions: `None` is no vessel and no allocation, ratings and demands are
natural numbers, the set of berths is finite, the supply is a natural number,
the reconciler is not a client; the queue and the channels hold at least one;
the sampling loop is not a client, the peak window begins and ends at hours of
the day (the bounds of the valley are any integers), and a torn line is not an
entry. TLC evaluates each in the runs.

Only model-checked: `HandlersNeverWait` (it says ENABLED) and liveness
(`LeakReclaimed`, `DriftReported`, `WaitersWake`, `TakenOnEnds`, `ShutdownCompletes`,
`BroadcastGoesOn`, `AlarmReachesConsole`), both out of the prover's reach, and the
six disagreements of section 4, which are counterexamples.

## 6. What was done, and what is open

Done, in the order of importance: capacity and berths with their handlers; the
connector with grid and separation; metering, billing and the run log; switching
sequences, override and dispatch on top of the connector; bus, alarms, shutdown,
hub and broadcast. Every safety property a run checks is proved, but for the one
that says ENABLED.

Open:

1. `DepartOwnsBerth` is proved for `Capacity` alone. In `Switching` it is false, also
   when nobody rebuilds: the end of a session resets its berth whatever the
   berth's state is (`connect.go:220`), and a sequence that fails puts its copy of
   the berth back. Either may come after another vessel was moored there and began
   to depart; the departure then frees a berth that is idle, or another's. With
   the operations apply, cancel, occupy and depart, TLC finds the first with four
   requests. What does remain true of departures there is not stated.
2. The liveness properties. Their safety cores are proved (`ChannelInOnePlace`,
   `ServedByOne`, `DispatchAccounted`); the step from there to fairness is TLC's.

## 7. Not modelled

* The plan (`capacity/plan.go`) and the console page only read.
* The configuration is a function of a file, read once. `Validate` checks the
  peak hours only (`config.go:180-182`); so `Rate` has peak hours of the day and
  any integers for the valley. A zero in the file means "not given".
* The errors of `Recorder.Resume`: a file that cannot be opened, and a line longer
  than the 64 KiB of `bufio.Scanner` (`store.go:22-27`, 40). `NewRecorder` then fails
  and the process ends, so no state follows.
* `Apply` looks for the request id and asks `CheckReady` in one step (`HandleApply`),
  though the code takes two locks for it (`connect.go:97-106`, 113-118). Nothing is
  written by it between the two, and two applications with the same id pass the first
  in either case.
* Prices and multipliers: one multiplication each.
* The command queue: nothing calls `Enqueue`.
* Formats, JSON, the WebSocket handshake and frames carry no state.
* The 5 seconds `server.Shutdown` waits for, and a `Breaker.Open` that fails:
  the first ends whatever happens, the second never does in `SimpleBreaker`.
