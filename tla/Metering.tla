------------------------------ MODULE Metering ------------------------------
(***************************************************************************)
(* The meter and the billing of internal/meter, on top of the run log:     *)
(* the sampling loop of main, the goroutines serving POST                  *)
(* /api/meter/settle, suspend and resume, and the end of the process.      *)
(*                                                                         *)
(* m.mu, the sample store's and the billing's mutex are taken one after    *)
(* the other, so a sample and a settlement are chains of steps.  All of    *)
(* this state is lost with the process; only the run log comes back.       *)
(*                                                                         *)
(* A run is started by the connector, once per vessel: that call is        *)
(* StartRun.  A sample is its sequence number, which fixes its kWh.        *)
(***************************************************************************)
EXTENDS Recorder, Rate

CONSTANTS
  Vessel,
  Client,         \* goroutines serving settlements, each one at a time
  Sampler,        \* the goroutine of sampleLoop
  None,
  Hour,           \* hours at which settlements are made
  MaxSamples,     \* bound: samples of a run
  MaxCalls,       \* bound: settlements altogether
  MaxTick,        \* bound: ticks of the clock within a process
  MaxLives,       \* bound: restarts
  MaxFaults       \* bound: writes and syncs that fail

ASSUME MeteringAssumption ==
  /\ Sampler \notin Client
  /\ Hour \subseteq HourOfDay
  /\ {MaxSamples, MaxCalls, MaxTick, MaxLives, MaxFaults} \subseteq Nat

VARIABLES
  run,            \* run[v]: the Run of v; "not_metering" when there is none
  samples,        \* samples[v]: the sequence numbers in the sample store
  bills,          \* bills[v]: Billing.records
  stage,          \* where each goroutine is
  job,            \* job[p]: what p is working on, or None
  round,          \* the runs the sampling loop has yet to visit
  now,            \* the clock; calls within a tick get the same time
  calls, lives    \* settlements made and restarts so far, for the bounds

meterVars == <<run, samples, bills>>
meterProcVars == <<stage, job, round, calls>>
meteringVars == <<logVars, meterVars, meterProcVars, now, lives>>

Worker == Client \cup {Sampler}

MeterState == {"not_metering", "metering", "suspended", "settled"}

Entry == [kind : {"meter.sample", "meter.settle"}, vessel : Vessel,
          n : Nat, at : Nat]

\* A line that does not parse is no entry.
ASSUME GarbageAssumption == Garbage \notin Entry

\* The record that worker p appends: the message has the sequence number
\* (a bill's kWh comes from it), At the time taken under the lock.
EntryOf(p) ==
  [kind |-> IF p = Sampler THEN "meter.sample" ELSE "meter.settle",
   vessel |-> job[p].vessel, n |-> job[p].n, at |-> job[p].at]

Go(p, to) == stage' = [stage EXCEPT ![p] = to]

SetRun(v, state) == run' = [run EXCEPT ![v].state = state]

---------------------------------------------------------------------------
(* The runs.                                                               *)

StartRun(v) ==
  /\ run[v].state = "not_metering"
  /\ run' = [run EXCEPT ![v] = [state |-> "metering", samples |-> 0]]
  /\ UNCHANGED <<logVars, samples, bills, meterProcVars, now, lives>>

Suspend(v) ==
  /\ run[v].state = "metering"
  /\ SetRun(v, "suspended")
  /\ UNCHANGED <<logVars, samples, bills, meterProcVars, now, lives>>

\* Wrong on purpose: a run that was settled is resumed as well.
ResumeAny(v) ==
  /\ run[v].state \in {"suspended", "settled"}
  /\ SetRun(v, "metering")
  /\ UNCHANGED <<logVars, samples, bills, meterProcVars, now, lives>>

ResumeRun(v) ==
  /\ run[v].state = "suspended"
  /\ SetRun(v, "metering")
  /\ UNCHANGED <<logVars, samples, bills, meterProcVars, now, lives>>

---------------------------------------------------------------------------
(* The sampling loop: Runs, and Sample for each of them.                   *)

SampleTick ==
  LET due == {v \in Vessel : /\ run[v].state # "not_metering"
                             /\ run[v].samples < MaxSamples}
  IN  /\ stage[Sampler] = "ready"
      /\ due # {}
      /\ Go(Sampler, "sampling")
      /\ round' = due
      /\ UNCHANGED <<logVars, meterVars, job, calls, now, lives>>

\* Wrong on purpose: the count goes up before the state is looked at.
SampleSkipCounts(v) ==
  /\ stage[Sampler] = "sampling"
  /\ v \in round
  /\ run[v].state # "metering"
  /\ run' = [run EXCEPT ![v].samples = @ + 1]
  /\ round' = round \ {v}
  /\ Go(Sampler, IF round = {v} THEN "ready" ELSE "sampling")
  /\ UNCHANGED <<logVars, samples, bills, job, calls, now, lives>>

\* Sample refuses a run that is not being metered by now.
SampleSkip(v) ==
  /\ stage[Sampler] = "sampling"
  /\ v \in round
  /\ run[v].state # "metering"
  /\ round' = round \ {v}
  /\ Go(Sampler, IF round = {v} THEN "ready" ELSE "sampling")
  /\ UNCHANGED <<logVars, meterVars, job, calls, now, lives>>

SampleCount(v) ==
  /\ stage[Sampler] = "sampling"
  /\ v \in round
  /\ run[v].state = "metering"
  /\ run' = [run EXCEPT ![v].samples = @ + 1]
  /\ job' = [job EXCEPT ![Sampler] =
               [vessel |-> v, n |-> run[v].samples + 1, at |-> now]]
  /\ round' = round \ {v}
  /\ Go(Sampler, "add")
  /\ UNCHANGED <<logVars, samples, bills, calls, now, lives>>

\* A sample whose fingerprint is there already is dropped.
SampleAdd ==
  LET s == job[Sampler] IN
  /\ stage[Sampler] = "add"
  /\ Go(Sampler, "record")
  /\ samples' = IF s.n \in Range(samples[s.vessel]) THEN samples
                ELSE [samples EXCEPT ![s.vessel] = Append(@, s.n)]
  /\ UNCHANGED <<logVars, run, bills, job, round, calls, now, lives>>

\* Every error of the recorder is ignored by its callers here.
Log(e) ==
  \/ Refused
  \/ AppendSeen(e)
  \/ AppendWritten(e)
  \/ /\ tears + unsynced < MaxFaults
     /\ AppendUnopened(e) \/ AppendShort(e) \/ AppendUnsynced(e)

SampleRecord ==
  /\ stage[Sampler] = "record"
  /\ Log(EntryOf(Sampler))
  /\ Go(Sampler, IF round = {} THEN "ready" ELSE "sampling")
  /\ job' = [job EXCEPT ![Sampler] = None]
  /\ UNCHANGED <<meterVars, round, calls, now, lives>>

---------------------------------------------------------------------------
(* Settle: the last sample, the bill, Stop, and the record.                *)

HandleSettle(c, v) ==
  /\ samples[v] # <<>>
  /\ calls < MaxCalls /\ calls' = calls + 1
  /\ stage[c] = "ready" /\ Go(c, "bill")
  /\ job' = [job EXCEPT ![c] =
               [vessel |-> v, n |-> samples[v][Len(samples[v])], at |-> now]]
  /\ UNCHANGED <<logVars, meterVars, round, now, lives>>

SettleBill(c, hour) ==
  LET s == job[c] IN
  /\ stage[c] = "bill"
  /\ Go(c, "stop")
  /\ bills' = [bills EXCEPT ![s.vessel] =
       Append(@, [n |-> s.n, hour |-> hour, tier |-> Tier(hour)])]
  /\ job' = [job EXCEPT ![c].at = now]
  /\ UNCHANGED <<logVars, run, samples, round, calls, now, lives>>

\* Wrong on purpose: only a run that is being metered is stopped.
SettleStopMetering(c) ==
  LET v == job[c].vessel IN
  /\ stage[c] = "stop"
  /\ Go(c, "record")
  /\ IF run[v].state = "metering" THEN SetRun(v, "settled") ELSE UNCHANGED run
  /\ UNCHANGED <<logVars, samples, bills, job, round, calls, now, lives>>

\* Stop takes any run, suspended or settled before.
SettleStop(c) ==
  /\ stage[c] = "stop"
  /\ Go(c, "record")
  /\ SetRun(job[c].vessel, "settled")
  /\ UNCHANGED <<logVars, samples, bills, job, round, calls, now, lives>>

SettleRecord(c) ==
  /\ stage[c] = "record"
  /\ Log(EntryOf(c))
  /\ Go(c, "ready")
  /\ job' = [job EXCEPT ![c] = None]
  /\ UNCHANGED <<meterVars, round, calls, now, lives>>

---------------------------------------------------------------------------
(* The clock and the end of the process.                                   *)

Tick ==
  /\ now < MaxTick + lives
  /\ now' = now + 1
  /\ UNCHANGED <<logVars, meterVars, meterProcVars, lives>>

\* The server may be closing while its goroutines still run.
Shutdown ==
  /\ CloseRecorder
  /\ UNCHANGED <<meterVars, meterProcVars, now, lives>>

NoRun == [v \in Vessel |-> [state |-> "not_metering", samples |-> 0]]

Nothing == [v \in Vessel |-> <<>>]

AllReady == [p \in Worker |-> "ready"]

NoJob == [p \in Worker |-> None]

\* A new process, with nothing but the log of the old one, at a later time.
Renew ==
  /\ lives < MaxLives
  /\ lives' = lives + 1
  /\ now' = now + 1
  /\ run' = NoRun
  /\ samples' = Nothing
  /\ bills' = Nothing
  /\ stage' = AllReady
  /\ job' = NoJob
  /\ round' = {}
  /\ UNCHANGED calls

Restart ==
  /\ Renew
  /\ Resume(disk)
  /\ UNCHANGED <<disk, cut, tears>>

\* The process dies inside Append, with the line written in part or whole.
CrashAppending(p) ==
  /\ stage[p] = "record"
  /\ ~recClosed /\ ~Seen(EntryOf(p))
  /\ \/ TearTail(EntryOf(p))
     \/ disk' = LinesWith(EntryOf(p)) /\ cut' = FALSE /\ UNCHANGED tears
  /\ Resume(disk')
  /\ Renew

---------------------------------------------------------------------------

MeteringInit ==
  /\ NewRecorder
  /\ run = NoRun
  /\ samples = Nothing
  /\ bills = Nothing
  /\ stage = AllReady
  /\ job = NoJob
  /\ round = {}
  /\ now = 0
  /\ calls = 0
  /\ lives = 0

SampleStep ==
  \/ SampleTick
  \/ \E v \in Vessel : SampleSkip(v) \/ SampleCount(v)
  \/ SampleAdd
  \/ SampleRecord

SettleStep(c) ==
  \/ \E hour \in Hour : SettleBill(c, hour)
  \/ SettleStop(c)
  \/ SettleRecord(c)

MeteringNext ==
  \/ \E v \in Vessel : StartRun(v) \/ Suspend(v) \/ ResumeRun(v)
  \/ SampleStep
  \/ \E c \in Client :
       \/ \E v \in Vessel : HandleSettle(c, v)
       \/ SettleStep(c)
  \/ Tick
  \/ Shutdown
  \/ Restart
  \/ \E p \in Worker : CrashAppending(p)

MeteringSpec == MeteringInit /\ [][MeteringNext]_meteringVars

---------------------------------------------------------------------------
(* Properties.                                                             *)

Bill == [n : Nat, hour : HourOfDay, tier : Tiers]

Job == [vessel : Vessel, n : Nat, at : Nat]

\* Every variable keeps its type (meter.go:28-42, billing.go:11-30,
\* record.go:18-24).
MeteringTypeOK ==
  /\ disk \in Seq(Entry \cup {Garbage})
  /\ cut \in BOOLEAN /\ (cut => disk # <<>>)
  /\ recorded \in Seq(Entry)
  /\ recClosed \in BOOLEAN
  /\ acked \subseteq Entry
  /\ tears \in Nat /\ unsynced \in Nat
  /\ run \in [Vessel -> [state : MeterState, samples : 0 .. MaxSamples]]
  /\ samples \in [Vessel -> Seq(1 .. MaxSamples)]
  /\ bills \in [Vessel -> Seq(Bill)]
  /\ stage \in [Worker -> {"ready", "sampling", "add", "bill", "stop", "record"}]
  /\ job \in [Worker -> Job \cup {None}]
  /\ round \subseteq Vessel
  /\ now \in Nat

\* The sample store holds the samples of a run in order and without a gap,
\* and lags the run's count by one at most, while that sample is on its way:
\* no settlement, suspension or resumption in between loses one
\* (meter.go:72-95).
SamplesInOrder ==
  \A v \in Vessel :
    LET k == Len(samples[v]) IN
    /\ \A i \in 1 .. k : samples[v][i] = i
    /\ run[v].samples =
         IF stage[Sampler] = "add" /\ job[Sampler].vessel = v THEN k + 1 ELSE k

\* A run that was settled is over: nothing counts a further sample in it or
\* brings it back within the process (meter.go:78-81, 125-128, 146-155).
SettledFrozen ==
  [][\A v \in Vessel :
       run[v].state = "settled" /\ lives' = lives => run'[v] = run[v]
    ]_meteringVars

\* The hours of a window.  It is switched on at its start and off at its end,
\* every day: an hour is in it when the last of the two switches was the
\* start, and when neither came yet today, the last one was yesterday's.  A
\* window that ends when it starts is that one hour.
Window(start, end) ==
  IF start = end THEN {start} \cap HourOfDay
  ELSE {hour \in HourOfDay :
          LET today  == {t \in {start, end} : t <= hour}
              recent == IF today = {} THEN {start, end} ELSE today
          IN  start \in recent /\ \A t \in recent : t <= start}

PeakHours == Window(PeakStart, PeakEnd)
ValleyHours == Window(ValleyStart, ValleyEnd)

\* A bill is for samples that were taken, in the tier of its hour: the peak
\* window first, then the valley window.  Either may run past midnight, and the
\* valley window may have bounds that are no hours of the day
\* (billing.go:42-62, rate.go:31-49, config.go:180-182).
BillsPriced ==
  \A v \in Vessel : \A i \in DOMAIN bills[v] :
    LET bill == bills[v][i] IN
    /\ bill.n \in 1 .. Len(samples[v])
    /\ bill.tier = "peak" <=> bill.hour \in PeakHours
    /\ bill.tier = "valley" <=> bill.hour \in ValleyHours \ PeakHours

\* Who was billed is not metered on: the run of a bill is over, unless the
\* settlement that made the bill is just about to stop it (billing.go:62-64,
\* meter.go:146-155).
BilledStops ==
  \A v \in Vessel :
    bills[v] # <<>> =>
      \/ run[v].state = "settled"
      \/ \E c \in Client : stage[c] = "stop" /\ job[c].vessel = v

\* Unless a write or a sync failed, the file and the memory hold the same
\* entries in the same order, also after a restart (record.go:54-71,
\* store.go:29-39).
LogMatchesMemory ==
  tears = 0 /\ unsynced = 0 => disk = recorded

\* The file, the memory and the acknowledgements are those of a run log: it
\* grows at its end only, an entry is acknowledged only when memory has it, and
\* after a restart memory has what the file has, whichever writes and syncs
\* failed and wherever the process died (record.go:41-71, store.go:20-39).
ImplementsRunLog == File!RunLogSpec

OnDisk(e) == e \in Range(disk)

\* A write that was cut short costs at most one acknowledged entry, the one
\* appended right after it; nothing else ever loses one (record.go:63-71).
LossBounded == Cardinality({e \in acked : ~OnDisk(e)}) <= tears

\* An entry is in the file once, whoever appends it again within a tick of
\* the clock; a sync that failed may add a copy (record.go:50-53).
WrittenOnce ==
  \A e \in Range(disk) \ {Garbage} :
    Cardinality({i \in DOMAIN disk : disk[i] = e}) <= 1 + unsynced

\* What Append acknowledged can be read back, in this process or a later one
\* (BENZHI_README.md:13).
Durable == \A e \in acked : OnDisk(e)

=============================================================================
