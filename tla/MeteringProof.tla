---------------------------- MODULE MeteringProof ---------------------------
(***************************************************************************)
(* Proofs about Metering, for any number of vessels, clients, settlements, *)
(* samples, restarts and failing writes, and any tariff.                   *)
(*                                                                         *)
(* TypeInv is the type invariant with what a goroutine carries at each of  *)
(* its steps.  LogSteps says once what a step may do to the run log; the   *)
(* three invariants of the log (SyncInv, OnceInv, LossInv) and that it     *)
(* implements RunLog are proved from these cases, what is about the meter  *)
(* from the actions.                                                       *)
(***************************************************************************)
EXTENDS Metering, RecorderProof

---------------------------------------------------------------------------
(* Types.                                                                  *)

Line == Entry \cup {Garbage}

LogTypes ==
  /\ disk \in Seq(Line)
  /\ cut \in BOOLEAN /\ (cut => disk # <<>>)
  /\ recorded \in Seq(Entry)
  /\ recClosed \in BOOLEAN
  /\ acked \subseteq Entry
  /\ tears \in Nat /\ unsynced \in Nat

MeterTypes ==
  /\ run \in [Vessel -> [state : MeterState, samples : 0 .. MaxSamples]]
  /\ samples \in [Vessel -> Seq(1 .. MaxSamples)]
  /\ bills \in [Vessel -> Seq(Bill)]

\* A goroutine between two steps of a sample or a settlement has a job.
Busy(p) == stage[p] \notin {"ready", "sampling"}

ProcTypes ==
  /\ stage \in [Worker -> {"ready", "sampling", "add", "bill", "stop", "record"}]
  /\ job \in [Worker -> Job \cup {None}]
  /\ round \subseteq Vessel
  /\ now \in Nat /\ lives \in Nat
  /\ \A p \in Worker : Busy(p) => job[p] \in Job
  /\ \A c \in Client : stage[c] \in {"ready", "bill", "stop", "record"}
  /\ stage[Sampler] \in {"ready", "sampling", "add", "record"}
  /\ stage[Sampler] = "add" => job[Sampler].n \in 1 .. MaxSamples

\* The runs the loop has yet to visit were there when it made its list, with
\* a sample to go.
RoundOK ==
  \A v \in round : /\ run[v].state # "not_metering"
                   /\ run[v].samples < MaxSamples

TypeInv == LogTypes /\ MeterTypes /\ ProcTypes /\ RoundOK

LEMMA TypeInvTypeOK == TypeInv => MeteringTypeOK
  BY DEF TypeInv, LogTypes, MeterTypes, ProcTypes, MeteringTypeOK, Line

LEMMA InitTypeInv == MeteringInit => TypeInv
<1> SUFFICES ASSUME MeteringInit PROVE TypeInv
  OBVIOUS
<1> USE DEF MeteringInit
<1>1. LogTypes
  <2>1. <<>> \in Seq(Line) /\ <<>> \in Seq(Entry) /\ 0 \in Nat
    OBVIOUS
  <2>2. NewRecorder
    OBVIOUS
  <2> QED BY ONLY <2>1, <2>2 DEF NewRecorder, LogTypes
<1>2. MeterTypes
  BY MeteringAssumption DEF MeterTypes, NoRun, Nothing, MeterState
<1>3. ProcTypes
  BY MeteringAssumption DEF ProcTypes, AllReady, NoJob, Busy, Worker
<1>4. RoundOK
  BY DEF RoundOK
<1> QED BY <1>1, <1>2, <1>3, <1>4 DEF TypeInv

\* What a goroutine appends is an entry.
LEMMA EntryTyped ==
  ASSUME ProcTypes, NEW p \in Worker, stage[p] = "record"
  PROVE  /\ EntryOf(p) \in Entry /\ EntryOf(p) # Garbage
         /\ EntryOf(p).at = job[p].at
<1>1. job[p] \in Job
  BY DEF ProcTypes, Busy
<1>2. EntryOf(p) \in Entry
  BY <1>1 DEF EntryOf, Entry, Job
<1> QED BY <1>2, GarbageAssumption DEF EntryOf

\* A line that is written keeps the file well typed.
LEMMA WriteTyped ==
  ASSUME LogTypes, NEW y \in Line, disk' = LinesWith(y)
  PROVE  disk' \in Seq(Line) /\ disk' # <<>>
  BY WriteLines DEF LogTypes, Line

\* The torn line is Garbage, so every write is one of LinesWith.
LEMMA TearWrites ==
  ASSUME NEW e, TearTail(e)
  PROVE  \E y \in {e, Garbage} : disk' = LinesWith(y)
  BY DEF TearTail, LinesTorn, LinesWith

\* The outcomes of Append keep the log well typed.
LEMMA LogTyped ==
  ASSUME LogTypes, NEW e \in Entry, Log(e)
  PROVE  LogTypes'
<1>1. CASE Refused
  BY <1>1 DEF Refused, logVars, LogTypes
<1>2. CASE AppendSeen(e)
  BY <1>2 DEF AppendSeen, LogTypes
<1>3. CASE AppendWritten(e)
  <2>0. e \in Line /\ disk' = LinesWith(e)
    BY <1>3 DEF AppendWritten, Line
  <2>1. disk' \in Seq(Line) /\ disk' # <<>>
    BY <2>0, WriteTyped
  <2>2. Append(recorded, e) \in Seq(Entry)
    BY DEF LogTypes
  <2> QED BY <1>3, <2>1, <2>2 DEF AppendWritten, LogTypes
<1>4. CASE AppendUnopened(e)
  BY <1>4 DEF AppendUnopened, logVars, LogTypes
<1>5. CASE AppendShort(e)
  <2>1. disk' \in Seq(Line) /\ disk' # <<>>
    BY <1>5, TearWrites, WriteTyped DEF AppendShort, Line
  <2> QED BY <1>5, <2>1 DEF AppendShort, TearTail, LogTypes
<1>6. CASE AppendUnsynced(e)
  <2>0. e \in Line /\ disk' = LinesWith(e)
    BY <1>6 DEF AppendUnsynced, Line
  <2>1. disk' \in Seq(Line) /\ disk' # <<>>
    BY <2>0, WriteTyped
  <2>2. unsynced' \in Nat /\ tears' \in Nat
    BY <1>6 DEF AppendUnsynced, LogTypes
  <2> QED BY <1>6, <2>1, <2>2, Zenon DEF AppendUnsynced, LogTypes
<1> QED BY <1>1, <1>2, <1>3, <1>4, <1>5, <1>6 DEF Log

\* What is read back from a file is entries.
LEMMA ReadableTyped ==
  ASSUME NEW lines \in Seq(Line)
  PROVE  /\ Readable(lines) \in Seq(Entry)
         /\ Range(Readable(lines)) = Range(lines) \ {Garbage}
<1>1. Line \ {Garbage} = Entry
  BY GarbageAssumption DEF Line
<1> QED BY <1>1, ReadableEntries

\* A step leaves the log alone, appends the entry of a goroutine, closes the
\* recorder or starts a new process.
LogSteps ==
  \/ UNCHANGED logVars
  \/ \E p \in Worker : /\ stage[p] = "record" /\ ~Busy(p)'
                       /\ Log(EntryOf(p))
                       /\ UNCHANGED <<now, lives>>
                       /\ \A q \in Worker \ {p} :
                            stage'[q] = stage[q] /\ job'[q] = job[q]
  \/ CloseRecorder /\ UNCHANGED <<stage, job, now, lives>>
  \/ Restart
  \/ \E p \in Worker : CrashAppending(p)

LEMMA NextLog ==
  ASSUME TypeInv, [MeteringNext]_meteringVars
  PROVE  LogSteps
<1>1. CASE UNCHANGED meteringVars
  BY <1>1 DEF meteringVars, LogSteps
<1>2. ASSUME NEW v \in Vessel, StartRun(v) \/ Suspend(v) \/ ResumeRun(v)
      PROVE LogSteps
  BY <1>2 DEF StartRun, Suspend, ResumeRun, LogSteps
<1>3. CASE SampleTick \/ SampleAdd \/ Tick
  BY <1>3 DEF SampleTick, SampleAdd, Tick, LogSteps
<1>4. ASSUME NEW v \in Vessel, SampleSkip(v) \/ SampleCount(v)
      PROVE LogSteps
  BY <1>4 DEF SampleSkip, SampleCount, LogSteps
<1>5. CASE SampleRecord
  BY <1>5 DEF SampleRecord, LogSteps, Worker, Busy, Go, TypeInv, ProcTypes
<1>6. ASSUME NEW c \in Client, NEW v \in Vessel, HandleSettle(c, v)
      PROVE LogSteps
  BY <1>6 DEF HandleSettle, LogSteps
<1>7. ASSUME NEW c \in Client, SettleStep(c) PROVE LogSteps
  <2>1. ASSUME NEW hour \in Hour, SettleBill(c, hour) PROVE LogSteps
    BY <2>1 DEF SettleBill, LogSteps
  <2>2. CASE SettleStop(c)
    BY <2>2 DEF SettleStop, LogSteps
  <2>3. CASE SettleRecord(c)
    BY <2>3 DEF SettleRecord, LogSteps, Worker, Busy, Go, TypeInv, ProcTypes
  <2> QED BY <1>7, <2>1, <2>2, <2>3 DEF SettleStep
<1>8. CASE Shutdown
  BY <1>8 DEF Shutdown, meterProcVars, LogSteps
<1>9. CASE Restart \/ \E p \in Worker : CrashAppending(p)
  BY <1>9 DEF LogSteps
<1> QED
  BY <1>1, <1>2, <1>3, <1>4, <1>5, <1>6, <1>7, <1>8, <1>9
     DEF MeteringNext, SampleStep

LEMMA NextLogTypes == ASSUME TypeInv, LogSteps PROVE LogTypes'
<1> USE DEF TypeInv
<1>1. CASE UNCHANGED logVars
  BY <1>1 DEF logVars, LogTypes
<1>2. ASSUME NEW p \in Worker, stage[p] = "record", Log(EntryOf(p)) PROVE LogTypes'
  BY <1>2, EntryTyped, LogTyped
<1>3. CASE CloseRecorder
  BY <1>3 DEF CloseRecorder, LogTypes
<1>4. CASE Restart
  <2>1. Readable(disk) \in Seq(Entry)
    BY ReadableTyped DEF LogTypes
  <2> QED BY <1>4, <2>1 DEF Restart, Resume, LogTypes
<1>5. ASSUME NEW p \in Worker, CrashAppending(p) PROVE LogTypes'
  <2>1. EntryOf(p) \in Entry
    BY <1>5, EntryTyped DEF CrashAppending
  <2>2. \E y \in Line : disk' = LinesWith(y)
    BY <1>5, <2>1, TearWrites DEF CrashAppending, Line
  <2>3. disk' \in Seq(Line) /\ disk' # <<>>
    BY <2>2, WriteTyped
  <2>4. Readable(disk') \in Seq(Entry)
    BY <2>3, ReadableTyped
  <2>5. cut' \in BOOLEAN
    BY <1>5 DEF CrashAppending, TearTail
  <2>6. tears' \in Nat
    BY <1>5 DEF CrashAppending, TearTail, LogTypes
  <2>7. /\ recorded' = Readable(disk') /\ recClosed' = FALSE
        /\ acked' = acked /\ unsynced' = unsynced
    BY <1>5 DEF CrashAppending, Resume
  <2> QED BY <2>3, <2>4, <2>5, <2>6, <2>7, Zenon DEF LogTypes
<1> QED BY <1>1, <1>2, <1>3, <1>4, <1>5 DEF LogSteps

\* The two ways a run changes keep its type.
LEMMA SetRunTyped ==
  ASSUME MeterTypes, NEW v \in Vessel, NEW state \in MeterState, SetRun(v, state)
  PROVE  /\ run' \in [Vessel -> [state : MeterState, samples : 0 .. MaxSamples]]
         /\ run'[v] = [state |-> state, samples |-> run[v].samples]
         /\ \A w \in Vessel \ {v} : run'[w] = run[w]
<1>1. run' = [run EXCEPT ![v].state = state]
  BY DEF SetRun
<1>2. run[v] \in [state : MeterState, samples : 0 .. MaxSamples]
  BY DEF MeterTypes
<1> QED BY <1>1, <1>2 DEF MeterTypes

\* A run that goes on, or ends, keeps the types and the list of the loop.
LEMMA SetRunKeeps ==
  ASSUME MeterTypes, RoundOK, round \subseteq Vessel, NEW v \in Vessel,
         NEW state \in MeterState, state # "not_metering", SetRun(v, state),
         UNCHANGED <<samples, bills, round>>
  PROVE  MeterTypes' /\ RoundOK'
<1>1. /\ run' \in [Vessel -> [state : MeterState, samples : 0 .. MaxSamples]]
      /\ run'[v] = [state |-> state, samples |-> run[v].samples]
      /\ \A w \in Vessel \ {v} : run'[w] = run[w]
  BY SetRunTyped
<1>2. MeterTypes'
  BY <1>1 DEF MeterTypes
<1>3. \A w \in round : /\ run'[w].state # "not_metering"
                      /\ run'[w].samples < MaxSamples
  <2>1. ASSUME NEW w \in round
        PROVE run'[w].state # "not_metering" /\ run'[w].samples = run[w].samples
    BY <1>1, <2>1 DEF RoundOK
  <2> QED BY <2>1 DEF RoundOK
<1> QED BY <1>2, <1>3 DEF RoundOK

\* The last element of a sequence that is not empty.
LEMMA LastTyped ==
  ASSUME NEW S, NEW s \in Seq(S), s # <<>>
  PROVE  Len(s) \in Nat \ {0} /\ s[Len(s)] \in S
  OBVIOUS

\* A new process starts well typed.
LEMMA RenewTyped ==
  ASSUME ProcTypes, Renew
  PROVE  MeterTypes' /\ ProcTypes' /\ RoundOK'
<1> USE DEF Renew
<1>1. MeterTypes'
  BY MeteringAssumption DEF MeterTypes, NoRun, Nothing, MeterState
<1>2. ProcTypes'
  BY MeteringAssumption DEF ProcTypes, AllReady, NoJob, Busy, Worker
<1>3. RoundOK'
  BY DEF RoundOK
<1> QED BY <1>1, <1>2, <1>3

\* The actions on a run.
LEMMA RunStepTyped ==
  ASSUME TypeInv, NEW v \in Vessel, StartRun(v) \/ Suspend(v) \/ ResumeRun(v)
  PROVE  MeterTypes' /\ ProcTypes' /\ RoundOK'
<1> USE DEF TypeInv
<1>1. ProcTypes'
  BY DEF StartRun, Suspend, ResumeRun, meterProcVars, ProcTypes, Busy
<1>2. CASE StartRun(v)
  <2>1. run' = [run EXCEPT ![v] = [state |-> "metering", samples |-> 0]]
    BY <1>2 DEF StartRun
  <2>2. [state |-> "metering", samples |-> 0]
          \in [state : MeterState, samples : 0 .. MaxSamples]
    BY MeteringAssumption DEF MeterState
  <2>3. v \notin round
    BY <1>2 DEF StartRun, RoundOK
  <2> QED BY <1>1, <1>2, <2>1, <2>2, <2>3
          DEF StartRun, meterProcVars, MeterTypes, ProcTypes, RoundOK
<1>3. ASSUME NEW state \in {"suspended", "metering"}, SetRun(v, state),
             UNCHANGED <<samples, bills, round>>
      PROVE  MeterTypes' /\ RoundOK'
  <2>1. state \in MeterState /\ state # "not_metering"
    BY DEF MeterState
  <2> QED BY <1>3, <2>1, SetRunKeeps DEF ProcTypes
<1>4. CASE Suspend(v)
  BY <1>1, <1>3, <1>4 DEF Suspend, meterProcVars
<1>5. CASE ResumeRun(v)
  BY <1>1, <1>3, <1>5 DEF ResumeRun, meterProcVars
<1> QED BY <1>2, <1>4, <1>5

\* The steps of the sampling loop.
LEMMA SampleStepTyped ==
  ASSUME TypeInv, SampleStep
  PROVE  MeterTypes' /\ ProcTypes' /\ RoundOK'
<1> USE DEF TypeInv
<1>1. CASE SampleTick
  BY <1>1, MeteringAssumption
     DEF SampleTick, Go, meterVars, MeterTypes, ProcTypes, RoundOK, Busy, Worker
<1>2. ASSUME NEW v \in Vessel, SampleSkip(v)
      PROVE  MeterTypes' /\ ProcTypes' /\ RoundOK'
  BY <1>2, MeteringAssumption
     DEF SampleSkip, Go, meterVars, MeterTypes, ProcTypes, RoundOK, Busy, Worker
<1>3. ASSUME NEW v \in Vessel, SampleCount(v)
      PROVE  MeterTypes' /\ ProcTypes' /\ RoundOK'
  <2>1. /\ run[v] \in [state : MeterState, samples : 0 .. MaxSamples]
        /\ run[v].samples < MaxSamples /\ MaxSamples \in Nat
    BY <1>3, MeteringAssumption DEF SampleCount, MeterTypes, RoundOK
  <2>2. run[v].samples + 1 \in 1 .. MaxSamples
    BY <2>1
  <2>3. run' = [run EXCEPT ![v] = [state |-> run[v].state,
                                   samples |-> run[v].samples + 1]]
    <3>1. run' = [run EXCEPT ![v] = [run[v] EXCEPT !.samples = run[v].samples + 1]]
      BY <1>3 DEF SampleCount
    <3>2. [run[v] EXCEPT !.samples = run[v].samples + 1]
            = [state |-> run[v].state, samples |-> run[v].samples + 1]
      BY <2>1
    <3> QED BY <3>1, <3>2
  <2>4. [state |-> run[v].state, samples |-> run[v].samples + 1]
          \in [state : MeterState, samples : 0 .. MaxSamples]
    BY <2>1, <2>2
  <2>5. MeterTypes'
    BY <1>3, <2>3, <2>4 DEF SampleCount, MeterTypes
  <2>6. ProcTypes'
    <3> DEFINE j == [vessel |-> v, n |-> run[v].samples + 1, at |-> now]
    <3>1. j \in Job /\ j.n \in 1 .. MaxSamples
      BY <2>2 DEF Job, ProcTypes
    <3>2. /\ job' = [job EXCEPT ![Sampler] = j]
          /\ stage' = [stage EXCEPT ![Sampler] = "add"]
          /\ round' \subseteq round /\ now' = now /\ lives' = lives
      BY <1>3 DEF SampleCount, Go
    <3> HIDE DEF j
    <3> QED BY <3>1, <3>2, MeteringAssumption DEF ProcTypes, Busy, Worker
  <2>7. RoundOK'
    BY <1>3, <2>3 DEF SampleCount, RoundOK, MeterTypes, ProcTypes
  <2> QED BY <2>5, <2>6, <2>7
<1>4. CASE SampleAdd
  <2>1. job[Sampler] \in Job /\ job[Sampler].n \in 1 .. MaxSamples
    BY <1>4 DEF SampleAdd, ProcTypes, Busy, Worker
  <2>2. /\ job[Sampler].vessel \in Vessel
        /\ Append(samples[job[Sampler].vessel], job[Sampler].n) \in Seq(1 .. MaxSamples)
    BY <2>1 DEF Job, MeterTypes
  <2>3. samples' \in [Vessel -> Seq(1 .. MaxSamples)]
    BY <1>4, <2>2 DEF SampleAdd, MeterTypes
  <2>4. MeterTypes' /\ RoundOK'
    BY <1>4, <2>3 DEF SampleAdd, MeterTypes, RoundOK
  <2>5. ProcTypes'
    BY <1>4, MeteringAssumption DEF SampleAdd, Go, ProcTypes, Busy, Worker
  <2> QED BY <2>4, <2>5
<1>5. CASE SampleRecord
  BY <1>5, MeteringAssumption
     DEF SampleRecord, Go, meterVars, MeterTypes, ProcTypes, RoundOK, Busy, Worker
<1> QED BY <1>1, <1>2, <1>3, <1>4, <1>5 DEF SampleStep

\* The steps of a settlement.
LEMMA SettleTyped ==
  ASSUME TypeInv, NEW c \in Client,
         SettleStep(c) \/ \E v \in Vessel : HandleSettle(c, v)
  PROVE  MeterTypes' /\ ProcTypes' /\ RoundOK'
<1> USE DEF TypeInv
<1>0. c \in Worker /\ c # Sampler
  BY MeteringAssumption DEF Worker
<1>1. ASSUME NEW v \in Vessel, HandleSettle(c, v)
      PROVE  MeterTypes' /\ ProcTypes' /\ RoundOK'
  <2> DEFINE j == [vessel |-> v, n |-> samples[v][Len(samples[v])], at |-> now]
  <2>1. samples[v] \in Seq(1 .. MaxSamples) /\ samples[v] # <<>>
    BY <1>1 DEF HandleSettle, MeterTypes
  <2>2. samples[v][Len(samples[v])] \in 1 .. MaxSamples
    BY <2>1, LastTyped
  <2>3. j \in Job
    BY <2>2 DEF Job, ProcTypes
  <2>4. /\ job' = [job EXCEPT ![c] = j] /\ stage' = [stage EXCEPT ![c] = "bill"]
        /\ UNCHANGED <<run, samples, bills, round, now, lives>>
    BY <1>1 DEF HandleSettle, Go, meterVars
  <2> HIDE DEF j
  <2> QED BY <1>0, <2>3, <2>4 DEF MeterTypes, ProcTypes, RoundOK, Busy, Worker
<1>2. ASSUME NEW hour \in Hour, SettleBill(c, hour)
      PROVE  MeterTypes' /\ ProcTypes' /\ RoundOK'
  <2> DEFINE s == job[c]
             bill == [n |-> s.n, hour |-> hour, tier |-> Tier(hour)]
  <2>1. s \in Job
    BY <1>0, <1>2 DEF SettleBill, ProcTypes, Busy
  <2>2. bill \in Bill
    BY <2>1, MeteringAssumption DEF Bill, Job, Tier, Tiers
  <2>3. bills' = [bills EXCEPT ![s.vessel] = Append(@, bill)]
    BY <1>2 DEF SettleBill
  <2>4. s.vessel \in Vessel /\ bills[s.vessel] \in Seq(Bill)
    BY <2>1 DEF Job, MeterTypes
  <2>5. bills' \in [Vessel -> Seq(Bill)]
    <3> HIDE DEF bill, s
    <3> QED BY <2>2, <2>3, <2>4 DEF MeterTypes
  <2>6. job' = [job EXCEPT ![c] = [vessel |-> s.vessel, n |-> s.n, at |-> now]]
        /\ [vessel |-> s.vessel, n |-> s.n, at |-> now] \in Job
    <3>1. job' = [job EXCEPT ![c] = [s EXCEPT !.at = now]]
      BY <1>2 DEF SettleBill
    <3>2. [s EXCEPT !.at = now] = [vessel |-> s.vessel, n |-> s.n, at |-> now]
      BY <2>1 DEF Job
    <3> QED BY <2>1, <3>1, <3>2 DEF Job, ProcTypes
  <2>7. /\ stage' = [stage EXCEPT ![c] = "stop"]
        /\ UNCHANGED <<run, samples, round, now, lives>>
    BY <1>2 DEF SettleBill, Go
  <2> HIDE DEF s, bill
  <2> QED BY <1>0, <2>5, <2>6, <2>7 DEF MeterTypes, ProcTypes, RoundOK, Busy, Worker
<1>3. CASE SettleStop(c)
  <2>1. job[c].vessel \in Vessel
    BY <1>0, <1>3 DEF SettleStop, ProcTypes, Busy, Job
  <2>2. SetRun(job[c].vessel, "settled") /\ "settled" \in MeterState
    BY <1>3 DEF SettleStop, MeterState
  <2>3. MeterTypes' /\ RoundOK'
    BY <1>3, <2>1, <2>2, SetRunKeeps DEF SettleStop, ProcTypes
  <2>4. ProcTypes'
    BY <1>0, <1>3 DEF SettleStop, Go, ProcTypes, Busy, Worker
  <2> QED BY <2>3, <2>4
<1>4. CASE SettleRecord(c)
  BY <1>0, <1>4 DEF SettleRecord, Go, meterVars, MeterTypes, ProcTypes, RoundOK, Busy, Worker
<1> QED BY <1>1, <1>2, <1>3, <1>4 DEF SettleStep

LEMMA NextTypeInv == TypeInv /\ [MeteringNext]_meteringVars => TypeInv'
<1> SUFFICES ASSUME TypeInv, [MeteringNext]_meteringVars PROVE TypeInv'
  OBVIOUS
<1>0. LogTypes'
  BY NextLog, NextLogTypes
<1>1. CASE UNCHANGED meteringVars
  BY <1>0, <1>1 DEF meteringVars, meterVars, meterProcVars, TypeInv, MeterTypes,
                    ProcTypes, RoundOK, Busy
<1>2. ASSUME NEW v \in Vessel, StartRun(v) \/ Suspend(v) \/ ResumeRun(v)
      PROVE  TypeInv'
  BY <1>0, <1>2, RunStepTyped DEF TypeInv
<1>3. CASE SampleStep
  BY <1>0, <1>3, SampleStepTyped DEF TypeInv
<1>4. ASSUME NEW c \in Client, SettleStep(c) \/ \E v \in Vessel : HandleSettle(c, v)
      PROVE  TypeInv'
  BY <1>0, <1>4, SettleTyped DEF TypeInv
<1>5. CASE Tick \/ Shutdown
  BY <1>0, <1>5 DEF Tick, Shutdown, meterVars, meterProcVars, TypeInv, MeterTypes,
                    ProcTypes, RoundOK, Busy
<1>6. CASE Restart \/ \E p \in Worker : CrashAppending(p)
  BY <1>0, <1>6, RenewTyped DEF Restart, CrashAppending, TypeInv
<1> QED BY <1>1, <1>2, <1>3, <1>4, <1>5, <1>6 DEF MeteringNext

\* Whatever the number of runs, samples and restarts, every variable keeps
\* its type: what the memory holds is entries, whatever tails the crashes
\* left on the disk (meter.go:28-42, billing.go:11-30, record.go:18-24).
THEOREM MeteringTypeCorrect == MeteringSpec => []MeteringTypeOK
<1>1. MeteringSpec => []TypeInv
  BY InitTypeInv, NextTypeInv, PTL DEF MeteringSpec
<1> QED BY <1>1, TypeInvTypeOK, PTL

---------------------------------------------------------------------------
(* The meter.                                                              *)

LEMMA TypeInvHolds == MeteringSpec => []TypeInv
  BY InitTypeInv, NextTypeInv, PTL DEF MeteringSpec

\* Beside the order: the sample on its way is the run's last one, and a run
\* that was not started has none.
OrderInv ==
  /\ SamplesInOrder
  /\ stage[Sampler] = "add" => job[Sampler].n = run[job[Sampler].vessel].samples
  /\ \A v \in Vessel : run[v].state = "not_metering" => run[v].samples = 0

\* What touches neither a count nor the samples nor the one on its way.
LEMMA OrderKept ==
  ASSUME TypeInv, OrderInv,
         \A v \in Vessel : /\ run'[v].samples = run[v].samples
                           /\ run'[v].state = "not_metering" =>
                                run[v].state = "not_metering",
         samples' = samples,
         stage'[Sampler] = "add" <=> stage[Sampler] = "add",
         stage[Sampler] = "add" => job'[Sampler] = job[Sampler]
  PROVE  OrderInv'
<1>1. stage[Sampler] = "add" => job[Sampler].vessel \in Vessel
  BY DEF TypeInv, ProcTypes, Busy, Worker, Job
<1>2. SamplesInOrder'
  BY DEF OrderInv, SamplesInOrder
<1> QED BY <1>1, <1>2 DEF OrderInv

LEMMA OrderInit == MeteringInit => OrderInv
  BY MeteringAssumption DEF MeteringInit, OrderInv, SamplesInOrder, NoRun, Nothing, AllReady,
                            Worker

LEMMA OrderRenew == ASSUME Renew PROVE OrderInv'
  BY MeteringAssumption DEF Renew, OrderInv, SamplesInOrder, NoRun, Nothing, AllReady, Worker

LEMMA OrderCount ==
  ASSUME TypeInv, OrderInv, NEW v \in Vessel, SampleCount(v)
  PROVE  OrderInv'
<1>1. run[v] \in [state : MeterState, samples : 0 .. MaxSamples]
  BY DEF TypeInv, MeterTypes
<1>2. /\ run'[v].samples = run[v].samples + 1 /\ run'[v].state = run[v].state
      /\ \A w \in Vessel \ {v} : run'[w] = run[w]
  BY <1>1 DEF SampleCount, TypeInv, MeterTypes
<1>3. /\ stage'[Sampler] = "add" /\ stage[Sampler] = "sampling"
      /\ job'[Sampler].vessel = v /\ job'[Sampler].n = run[v].samples + 1
      /\ samples' = samples
  BY DEF SampleCount, Go, TypeInv, ProcTypes, Worker
<1>4. \A w \in Vessel : run[w].samples = Len(samples[w])
  BY <1>3 DEF OrderInv, SamplesInOrder
<1>5. SamplesInOrder'
  BY <1>2, <1>3, <1>4 DEF OrderInv, SamplesInOrder
<1>6. run[v].state # "not_metering"
  BY DEF SampleCount
<1> QED BY <1>2, <1>3, <1>5, <1>6 DEF OrderInv

LEMMA OrderAdd ==
  ASSUME TypeInv, OrderInv, SampleAdd
  PROVE  OrderInv'
<1> DEFINE v == job[Sampler].vessel
          k == Len(samples[v])
<1>1. /\ stage[Sampler] = "add" /\ stage'[Sampler] = "record"
      /\ run' = run /\ job' = job
  BY DEF SampleAdd, Go, TypeInv, ProcTypes, Worker
<1>2. v \in Vessel /\ samples[v] \in Seq(1 .. MaxSamples)
  BY <1>1 DEF TypeInv, MeterTypes, ProcTypes, Busy, Worker, Job
<1>3. /\ \A i \in 1 .. k : samples[v][i] = i
      /\ run[v].samples = k + 1 /\ job[Sampler].n = k + 1
  BY <1>1, <1>2 DEF OrderInv, SamplesInOrder
<1>4. k \in Nat /\ DOMAIN samples[v] = 1 .. k
  BY <1>2
<1>5. k + 1 \notin Range(samples[v])
  BY <1>3, <1>4 DEF Range
<1>6. samples' = [samples EXCEPT ![v] = Append(samples[v], k + 1)]
  BY <1>3, <1>5 DEF SampleAdd
<1>7. samples'[v] = Append(samples[v], k + 1)
  BY <1>2, <1>6 DEF TypeInv, MeterTypes
<1>8. \A w \in Vessel \ {v} : samples'[w] = samples[w]
  BY <1>6 DEF TypeInv, MeterTypes
<1>9. Len(samples'[v]) = k + 1 /\ \A i \in 1 .. k + 1 : samples'[v][i] = i
  BY <1>2, <1>3, <1>4, <1>7
<1>10. \A w \in Vessel \ {v} :
         /\ \A i \in 1 .. Len(samples[w]) : samples[w][i] = i
         /\ run[w].samples = Len(samples[w])
  BY <1>1 DEF OrderInv, SamplesInOrder
<1> HIDE DEF v, k
<1>11. SamplesInOrder'
  BY <1>1, <1>3, <1>8, <1>9, <1>10 DEF SamplesInOrder
<1> QED BY <1>1, <1>11 DEF OrderInv

LEMMA OrderNext == TypeInv /\ OrderInv /\ [MeteringNext]_meteringVars => OrderInv'
<1> SUFFICES ASSUME TypeInv, OrderInv, [MeteringNext]_meteringVars PROVE OrderInv'
  OBVIOUS
<1>0. Sampler \in Worker /\ Sampler \notin Client
  BY MeteringAssumption DEF Worker
<1>1. CASE UNCHANGED meteringVars \/ Tick \/ Shutdown
  BY <1>1, OrderKept DEF meteringVars, meterVars, meterProcVars, Tick, Shutdown
<1>2. ASSUME NEW v \in Vessel, StartRun(v) \/ Suspend(v) \/ ResumeRun(v)
      PROVE  OrderInv'
  <2>1. run[v] \in [state : MeterState, samples : 0 .. MaxSamples]
    BY DEF TypeInv, MeterTypes
  <2>2. /\ run'[v].samples = run[v].samples /\ run'[v].state # "not_metering"
        /\ \A w \in Vessel \ {v} : run'[w] = run[w]
    BY <1>2, <2>1 DEF StartRun, Suspend, ResumeRun, SetRun, TypeInv, MeterTypes, OrderInv
  <2> QED BY <1>2, <2>2, OrderKept DEF StartRun, Suspend, ResumeRun, meterProcVars
<1>3. CASE SampleStep
  <2>1. CASE SampleTick
    BY <1>0, <2>1, OrderKept DEF SampleTick, Go, meterVars, TypeInv, ProcTypes
  <2>2. ASSUME NEW v \in Vessel, SampleSkip(v) PROVE OrderInv'
    BY <1>0, <2>2, OrderKept DEF SampleSkip, Go, meterVars, TypeInv, ProcTypes
  <2>3. CASE SampleRecord
    BY <1>0, <2>3, OrderKept DEF SampleRecord, Go, meterVars, TypeInv, ProcTypes
  <2> QED BY <1>3, <2>1, <2>2, <2>3, OrderCount, OrderAdd DEF SampleStep
<1>4. ASSUME NEW c \in Client, SettleStep(c) \/ \E v \in Vessel : HandleSettle(c, v)
      PROVE  OrderInv'
  <2>0. c \in Worker /\ c # Sampler
    BY <1>0 DEF Worker
  <2>1. ASSUME NEW v \in Vessel, HandleSettle(c, v) PROVE OrderInv'
    BY <2>0, <2>1, OrderKept DEF HandleSettle, Go, meterVars, TypeInv, ProcTypes
  <2>2. ASSUME NEW hour \in Hour, SettleBill(c, hour) PROVE OrderInv'
    BY <2>0, <2>2, OrderKept DEF SettleBill, Go, TypeInv, ProcTypes
  <2>3. CASE SettleStop(c)
    <3>1. job[c].vessel \in Vessel /\ "settled" \in MeterState
      BY <2>0, <2>3 DEF SettleStop, TypeInv, ProcTypes, Busy, Job, MeterState
    <3>2. \A v \in Vessel : /\ run'[v].samples = run[v].samples
                            /\ run'[v].state = "not_metering" =>
                                 run[v].state = "not_metering"
      <4> DEFINE w == job[c].vessel
      <4>1. SetRun(w, "settled") /\ w \in Vessel /\ MeterTypes
        BY <2>3, <3>1 DEF SettleStop, TypeInv
      <4> HIDE DEF w
      <4>2. /\ run'[w] = [state |-> "settled", samples |-> run[w].samples]
            /\ \A v \in Vessel \ {w} : run'[v] = run[v]
        BY <3>1, <4>1, SetRunTyped
      <4> QED BY <4>2
    <3>3. stage'[Sampler] = stage[Sampler] /\ job' = job /\ samples' = samples
      BY <2>0, <2>3 DEF SettleStop, Go, TypeInv, ProcTypes
    <3> QED BY <3>2, <3>3, OrderKept
  <2>4. CASE SettleRecord(c)
    BY <2>0, <2>4, OrderKept DEF SettleRecord, Go, meterVars, TypeInv, ProcTypes
  <2> QED BY <1>4, <2>1, <2>2, <2>3, <2>4 DEF SettleStep
<1>5. CASE Restart \/ \E p \in Worker : CrashAppending(p)
  BY <1>5, OrderRenew DEF Restart, CrashAppending
<1> QED BY <1>1, <1>2, <1>3, <1>4, <1>5 DEF MeteringNext

LEMMA OrderHolds == MeteringSpec => []OrderInv
<1>1. TypeInv /\ OrderInv /\ [MeteringNext]_meteringVars => OrderInv'
  BY OrderNext
<1> QED BY <1>1, OrderInit, TypeInvHolds, PTL DEF MeteringSpec

\* Whatever settles, suspends and resumes in between, the sample store has
\* the samples of a run in order and without a gap, and lags its count by the
\* one sample that is on its way (meter.go:72-95).
THEOREM SamplesInOrderHolds == MeteringSpec => []SamplesInOrder
<1>1. OrderInv => SamplesInOrder
  BY DEF OrderInv
<1> QED BY <1>1, OrderHolds, PTL

\* A run that is settled stays as it is until the process ends: no step of
\* the loop, of a resumption or of a second settlement changes it
\* (meter.go:78-81, 125-128, 146-155).
THEOREM SettledFrozenHolds == MeteringSpec => SettledFrozen
<1> DEFINE Frozen == \A v \in Vessel :
             run[v].state = "settled" /\ lives' = lives => run'[v] = run[v]
<1>1. TypeInv /\ [MeteringNext]_meteringVars => [Frozen]_meteringVars
  <2> SUFFICES ASSUME TypeInv, MeteringNext, NEW v \in Vessel,
                      run[v].state = "settled", lives' = lives
               PROVE  run'[v] = run[v]
    OBVIOUS
  <2>0. /\ run[v] \in [state : MeterState, samples : 0 .. MaxSamples]
        /\ lives \in Nat
    BY DEF TypeInv, MeterTypes, ProcTypes
  <2>1. ASSUME NEW w \in Vessel, StartRun(w) \/ Suspend(w) \/ ResumeRun(w)
        PROVE  run'[v] = run[v]
    BY <2>1 DEF StartRun, Suspend, ResumeRun, SetRun, TypeInv, MeterTypes
  <2>2. CASE SampleStep
    BY <2>2 DEF SampleStep, SampleTick, SampleSkip, SampleCount, SampleAdd, SampleRecord,
                meterVars, TypeInv, MeterTypes
  <2>3. ASSUME NEW c \in Client, SettleStep(c) \/ \E w \in Vessel : HandleSettle(c, w)
        PROVE  run'[v] = run[v]
    <3>1. CASE SettleStop(c)
      <4>1. job[c].vessel \in Vessel /\ "settled" \in MeterState
        BY <3>1 DEF SettleStop, TypeInv, ProcTypes, Busy, Job, MeterState, Worker
      <4>2. v = job[c].vessel =>
              run'[v] = [state |-> "settled", samples |-> run[v].samples]
        BY <3>1, <4>1, SetRunTyped DEF SettleStop, TypeInv
      <4>3. v # job[c].vessel => run'[v] = run[v]
        BY <3>1, <4>1, SetRunTyped DEF SettleStop, TypeInv
      <4> QED BY <2>0, <4>2, <4>3
    <3> QED BY <2>3, <3>1 DEF SettleStep, SettleBill, SettleRecord, HandleSettle, meterVars
  <2>4. CASE Tick \/ Shutdown
    BY <2>4 DEF Tick, Shutdown, meterVars
  <2>5. ~Renew
    BY <2>0 DEF Renew
  <2> QED BY <2>1, <2>2, <2>3, <2>4, <2>5 DEF MeteringNext, Restart, CrashAppending
<1> QED BY <1>1, TypeInvHolds, PTL DEF MeteringSpec, SettledFrozen

---------------------------------------------------------------------------
(* The bills.                                                              *)

\* Who was billed is settled, or is just about to be.
LEMMA BilledInit == MeteringInit => BilledStops
  BY DEF MeteringInit, BilledStops, Nothing

LEMMA BilledKept ==
  ASSUME BilledStops, bills' = bills,
         \A v \in Vessel : run[v].state = "settled" => run'[v].state = "settled",
         \A c \in Client : stage[c] = "stop" =>
                             stage'[c] = "stop" /\ job'[c] = job[c]
  PROVE  BilledStops'
  BY DEF BilledStops

LEMMA BilledNext == TypeInv /\ BilledStops /\ [MeteringNext]_meteringVars => BilledStops'
<1> SUFFICES ASSUME TypeInv, BilledStops, [MeteringNext]_meteringVars PROVE BilledStops'
  OBVIOUS
<1>0. Sampler \in Worker /\ Sampler \notin Client /\ Client \subseteq Worker
  BY MeteringAssumption DEF Worker
<1>1. CASE UNCHANGED meteringVars \/ Tick \/ Shutdown
  BY <1>1, BilledKept DEF meteringVars, meterVars, meterProcVars, Tick, Shutdown
<1>2. ASSUME NEW v \in Vessel, StartRun(v) \/ Suspend(v) \/ ResumeRun(v)
      PROVE  BilledStops'
  <2>1. /\ run[v].state # "settled"
        /\ \A w \in Vessel \ {v} : run'[w] = run[w]
    BY <1>2 DEF StartRun, Suspend, ResumeRun, SetRun, TypeInv, MeterTypes
  <2> QED BY <1>2, <2>1, BilledKept DEF StartRun, Suspend, ResumeRun, meterProcVars
<1>3. CASE SampleStep
  <2>1. CASE SampleTick
    BY <1>0, <2>1, BilledKept DEF SampleTick, Go, meterVars, TypeInv, ProcTypes
  <2>2. ASSUME NEW v \in Vessel, SampleSkip(v) PROVE BilledStops'
    BY <1>0, <2>2, BilledKept DEF SampleSkip, Go, meterVars, TypeInv, ProcTypes
  <2>3. ASSUME NEW v \in Vessel, SampleCount(v) PROVE BilledStops'
    <3>1. /\ run[v].state # "settled"
          /\ \A w \in Vessel \ {v} : run'[w] = run[w]
      BY <2>3 DEF SampleCount, TypeInv, MeterTypes
    <3> QED BY <1>0, <2>3, <3>1, BilledKept DEF SampleCount, Go, TypeInv, ProcTypes
  <2>4. CASE SampleAdd
    BY <1>0, <2>4, BilledKept DEF SampleAdd, Go, TypeInv, ProcTypes
  <2>5. CASE SampleRecord
    BY <1>0, <2>5, BilledKept DEF SampleRecord, Go, meterVars, TypeInv, ProcTypes
  <2> QED BY <1>3, <2>1, <2>2, <2>3, <2>4, <2>5 DEF SampleStep
<1>4. ASSUME NEW c \in Client, SettleStep(c) \/ \E v \in Vessel : HandleSettle(c, v)
      PROVE  BilledStops'
  <2>1. ASSUME NEW v \in Vessel, HandleSettle(c, v) PROVE BilledStops'
    BY <1>0, <2>1, BilledKept DEF HandleSettle, Go, meterVars, TypeInv, ProcTypes
  <2>2. ASSUME NEW hour \in Hour, SettleBill(c, hour) PROVE BilledStops'
    <3> DEFINE w == job[c].vessel
    <3>1. /\ run' = run /\ stage'[c] = "stop" /\ job'[c].vessel = w
          /\ stage[c] = "bill"
          /\ \A d \in Client \ {c} : stage'[d] = stage[d] /\ job'[d] = job[d]
      BY <1>0, <2>2 DEF SettleBill, Go, TypeInv, ProcTypes, Busy, Job
    <3>2. \A v \in Vessel \ {w} : bills'[v] = bills[v]
      BY <2>2 DEF SettleBill, TypeInv, MeterTypes
    <3> HIDE DEF w
    <3> QED BY <3>1, <3>2 DEF BilledStops
  <2>3. CASE SettleStop(c)
    <3> DEFINE w == job[c].vessel
    <3>1. w \in Vessel /\ "settled" \in MeterState /\ SetRun(w, "settled")
      BY <1>0, <2>3 DEF SettleStop, TypeInv, ProcTypes, Busy, Job, MeterState
    <3>2. /\ bills' = bills /\ job' = job
          /\ \A d \in Client \ {c} : stage'[d] = stage[d]
      BY <1>0, <2>3 DEF SettleStop, Go, TypeInv, ProcTypes
    <3>3. stage[c] = "stop" /\ job[c].vessel = w
      BY <2>3 DEF SettleStop
    <3> HIDE DEF w
    <3>4. run'[w].state = "settled" /\ \A v \in Vessel \ {w} : run'[v] = run[v]
      <4>1. MeterTypes
        BY DEF TypeInv
      <4>2. /\ run'[w] = [state |-> "settled", samples |-> run[w].samples]
            /\ \A v \in Vessel \ {w} : run'[v] = run[v]
        BY <3>1, <4>1, SetRunTyped
      <4> QED BY <4>2
    <3>5. ASSUME NEW v \in Vessel, bills[v] # <<>>, v # w
          PROVE  \/ run'[v].state = "settled"
                 \/ \E d \in Client : stage'[d] = "stop" /\ job[d].vessel = v
      <4>1. CASE run[v].state = "settled"
        BY <3>4, <3>5, <4>1
      <4>2. CASE \E d \in Client : stage[d] = "stop" /\ job[d].vessel = v
        BY <3>2, <3>3, <3>5, <4>2
      <4> QED BY <3>5, <4>1, <4>2 DEF BilledStops
    <3> QED BY <3>2, <3>4, <3>5 DEF BilledStops
  <2>4. CASE SettleRecord(c)
    BY <1>0, <2>4, BilledKept DEF SettleRecord, Go, meterVars, TypeInv, ProcTypes
  <2> QED BY <1>4, <2>1, <2>2, <2>3, <2>4 DEF SettleStep
<1>5. CASE Restart \/ \E p \in Worker : CrashAppending(p)
  BY <1>5 DEF Restart, CrashAppending, Renew, BilledStops, Nothing
<1> QED BY <1>1, <1>2, <1>3, <1>4, <1>5 DEF MeteringNext

\* Whatever the settlements that overlap: a vessel with a bill is not metered
\* on, except between the bill and the stop of one settlement
\* (billing.go:62-64, meter.go:146-155).
THEOREM BilledStopsHolds == MeteringSpec => []BilledStops
<1>1. TypeInv /\ BilledStops /\ [MeteringNext]_meteringVars => BilledStops'
  BY BilledNext
<1> QED BY <1>1, BilledInit, TypeInvHolds, PTL DEF MeteringSpec

\* An hour is in a window exactly when the comparison says so, whatever the
\* bounds of the window.
LEMMA WindowIsRange ==
  ASSUME NEW hour \in HourOfDay, NEW start \in Int, NEW end \in Int
  PROVE  InRange(hour, start, end) <=> hour \in Window(start, end)
<1> DEFINE today  == {t \in {start, end} : t <= hour}
           recent == IF today = {} THEN {start, end} ELSE today
<1>0. hour \in Int
  BY DEF HourOfDay
<1>1. CASE start = end
  BY <1>1 DEF InRange, Window
<1>2. CASE start # end
  <2>1. hour \in Window(start, end)
          <=> start \in recent /\ \A t \in recent : t <= start
    BY <1>2 DEF Window
  <2>2. CASE start <= hour /\ end <= hour
    <3>1. recent = {start, end}
      BY <2>2
    <3> QED BY <1>0, <1>2, <2>1, <2>2, <3>1 DEF InRange
  <2>3. CASE start <= hour /\ ~(end <= hour)
    <3>1. recent = {start}
      BY <2>3
    <3> QED BY <1>0, <1>2, <2>1, <2>3, <3>1 DEF InRange
  <2>4. CASE ~(start <= hour) /\ end <= hour
    <3>1. recent = {end}
      BY <2>4
    <3> QED BY <1>0, <1>2, <2>1, <2>4, <3>1 DEF InRange
  <2>5. CASE ~(start <= hour) /\ ~(end <= hour)
    <3>1. recent = {start, end}
      BY <2>5
    <3> QED BY <1>0, <1>2, <2>1, <2>5, <3>1 DEF InRange
  <2> QED BY <2>2, <2>3, <2>4, <2>5
<1> QED BY <1>1, <1>2

\* The tier of an hour, in terms of the windows.
LEMMA TierWindow ==
  ASSUME NEW hour \in HourOfDay
  PROVE  /\ Tier(hour) = "peak" <=> hour \in PeakHours
         /\ Tier(hour) = "valley" <=>
              hour \in ValleyHours \ PeakHours
<1>1. /\ PeakStart \in Int /\ PeakEnd \in Int
      /\ ValleyStart \in Int /\ ValleyEnd \in Int
  BY RateAssumption DEF HourOfDay
<1>2. /\ InRange(hour, PeakStart, PeakEnd) <=> hour \in PeakHours
      /\ InRange(hour, ValleyStart, ValleyEnd) <=> hour \in ValleyHours
  BY <1>1, WindowIsRange DEF PeakHours, ValleyHours
<1> QED BY <1>2 DEF Tier

\* What a bill is for and how it is priced, and the sample that the next
\* bill of a settlement is for.
BillInv ==
  /\ BillsPriced
  /\ \A c \in Client :
       stage[c] = "bill" => job[c].n \in 1 .. Len(samples[job[c].vessel])

LEMMA BillInit == MeteringInit => BillInv
  BY MeteringAssumption
     DEF MeteringInit, BillInv, BillsPriced, Nothing, AllReady, Worker

\* The store only grows, and the bills and settlements keep what they have.
LEMMA BillKept ==
  ASSUME TypeInv, BillInv, bills' = bills,
         \A v \in Vessel : Len(samples'[v]) >= Len(samples[v]) /\ Len(samples'[v]) \in Nat,
         \A c \in Client : stage'[c] = "bill" =>
                             stage[c] = "bill" /\ job'[c] = job[c]
  PROVE  BillInv'
<1>0. \A v \in Vessel : Len(samples[v]) \in Nat
  BY DEF TypeInv, MeterTypes
<1>1. BillsPriced'
  BY <1>0 DEF BillInv, BillsPriced
<1>2. \A c \in Client : stage[c] = "bill" => job[c].vessel \in Vessel
  BY DEF TypeInv, ProcTypes, Busy, Worker, Job
<1> QED BY <1>0, <1>1, <1>2 DEF BillInv

\* A settlement of a run that has samples takes the last one, whose number
\* is their count.
LEMMA BillHandle ==
  ASSUME TypeInv, OrderInv, BillInv,
         NEW c \in Client, NEW v \in Vessel, HandleSettle(c, v)
  PROVE  BillInv'
<1>0. c \in Worker /\ Client \subseteq Worker
  BY DEF Worker
<1>1. /\ UNCHANGED <<samples, bills>>
      /\ job'[c].vessel = v /\ job'[c].n = samples[v][Len(samples[v])]
      /\ \A d \in Client \ {c} : stage'[d] = stage[d] /\ job'[d] = job[d]
  BY <1>0 DEF HandleSettle, Go, meterVars, TypeInv, ProcTypes
<1>2. /\ samples[v] \in Seq(1 .. MaxSamples) /\ samples[v] # <<>>
      /\ \A i \in 1 .. Len(samples[v]) : samples[v][i] = i
  BY DEF HandleSettle, TypeInv, MeterTypes, OrderInv, SamplesInOrder
<1>3. Len(samples[v]) \in 1 .. Len(samples[v])
  BY <1>2, LastTyped
<1>4. job'[c].n \in 1 .. Len(samples[v])
  BY <1>1, <1>2, <1>3
<1>5. BillsPriced'
  BY <1>1 DEF BillInv, BillsPriced
<1>6. ASSUME NEW d \in Client, stage'[d] = "bill"
      PROVE  job'[d].n \in 1 .. Len(samples[job'[d].vessel])
  BY <1>1, <1>4, <1>6 DEF BillInv
<1> QED BY <1>1, <1>5, <1>6 DEF BillInv

\* A bill is for the sample its settlement took, in the tier of the hour.
LEMMA BillPriced ==
  ASSUME TypeInv, BillInv, NEW c \in Client, NEW hour \in Hour, SettleBill(c, hour)
  PROVE  BillInv'
<1> DEFINE s == job[c]
          bill == [n |-> s.n, hour |-> hour, tier |-> Tier(hour)]
<1>0. c \in Worker /\ Client \subseteq Worker /\ hour \in HourOfDay
  BY MeteringAssumption DEF Worker
<1>1. s \in Job /\ s.vessel \in Vessel /\ s.n \in 1 .. Len(samples[s.vessel])
  BY <1>0 DEF SettleBill, TypeInv, ProcTypes, Busy, Job, BillInv
<1>2. /\ bill.n \in 1 .. Len(samples[s.vessel])
      /\ bill.tier = "peak" <=> bill.hour \in PeakHours
      /\ bill.tier = "valley" <=>
           bill.hour \in ValleyHours \ PeakHours
  BY <1>0, <1>1, TierWindow
<1>3. /\ samples' = samples
      /\ bills' = [bills EXCEPT ![s.vessel] = Append(bills[s.vessel], bill)]
      /\ \A d \in Client : stage'[d] = "bill" => stage[d] = "bill" /\ d # c
      /\ \A d \in Client \ {c} : job'[d] = job[d]
  BY <1>0 DEF SettleBill, Go, TypeInv, ProcTypes
<1> HIDE DEF bill, s
<1>4. bills[s.vessel] \in Seq(Bill)
  BY <1>1 DEF TypeInv, MeterTypes
<1>5. \A v \in Vessel \ {s.vessel} : bills'[v] = bills[v]
  BY <1>3 DEF TypeInv, MeterTypes
<1>6. bills'[s.vessel] = Append(bills[s.vessel], bill)
  BY <1>1, <1>3 DEF TypeInv, MeterTypes
<1>7. \A i \in DOMAIN bills'[s.vessel] :
        \/ i \in DOMAIN bills[s.vessel] /\ bills'[s.vessel][i] = bills[s.vessel][i]
        \/ bills'[s.vessel][i] = bill
  BY <1>4, <1>6
<1>8. BillsPriced'
  <2> SUFFICES ASSUME NEW v \in Vessel, NEW i \in DOMAIN bills'[v]
               PROVE LET b == bills'[v][i]
                     IN  /\ b.n \in 1 .. Len(samples[v])
                         /\ b.tier = "peak" <=> b.hour \in PeakHours
                         /\ b.tier = "valley" <=>
                              b.hour \in ValleyHours \ PeakHours
    BY <1>3 DEF BillsPriced
  <2>1. CASE v # s.vessel \/ bills'[v][i] # bill
    <3>1. i \in DOMAIN bills[v] /\ bills'[v][i] = bills[v][i]
      BY <1>5, <1>7, <2>1
    <3> QED BY <3>1 DEF BillInv, BillsPriced
  <2>2. CASE v = s.vessel /\ bills'[v][i] = bill
    BY <1>2, <2>2
  <2> QED BY <2>1, <2>2
<1>9. ASSUME NEW d \in Client, stage'[d] = "bill"
      PROVE  job'[d].n \in 1 .. Len(samples[job'[d].vessel])
  BY <1>3, <1>9 DEF BillInv
<1> QED BY <1>3, <1>8, <1>9 DEF BillInv

LEMMA BillNext ==
  TypeInv /\ OrderInv /\ BillInv /\ [MeteringNext]_meteringVars => BillInv'
<1> SUFFICES ASSUME TypeInv, OrderInv, BillInv, [MeteringNext]_meteringVars
             PROVE  BillInv'
  OBVIOUS
<1>0. Sampler \in Worker /\ Sampler \notin Client /\ Client \subseteq Worker
  BY MeteringAssumption DEF Worker
<1>00. \A v \in Vessel : Len(samples[v]) \in Nat
  BY DEF TypeInv, MeterTypes
<1>1. CASE UNCHANGED meteringVars \/ Tick \/ Shutdown
  BY <1>00, <1>1, BillKept DEF meteringVars, meterVars, meterProcVars, Tick, Shutdown
<1>2. ASSUME NEW v \in Vessel, StartRun(v) \/ Suspend(v) \/ ResumeRun(v)
      PROVE  BillInv'
  BY <1>00, <1>2, BillKept DEF StartRun, Suspend, ResumeRun, meterProcVars
<1>3. CASE SampleStep
  <2>1. \A c \in Client : stage'[c] = stage[c] /\ job'[c] = job[c]
    BY <1>0, <1>3 DEF SampleStep, SampleTick, SampleSkip, SampleCount, SampleAdd,
                      SampleRecord, Go, TypeInv, ProcTypes
  <2>2. bills' = bills
    BY <1>3 DEF SampleStep, SampleTick, SampleSkip, SampleCount, SampleAdd,
                SampleRecord, meterVars
  <2>3. CASE SampleAdd
    <3>1. \A v \in Vessel : \A n :
            /\ Len(Append(samples[v], n)) \in Nat
            /\ Len(Append(samples[v], n)) >= Len(samples[v])
      BY DEF TypeInv, MeterTypes
    <3>2. \A v \in Vessel : Len(samples'[v]) >= Len(samples[v]) /\ Len(samples'[v]) \in Nat
      BY <1>00, <2>3, <3>1 DEF SampleAdd, TypeInv, MeterTypes
    <3> QED BY <2>1, <2>2, <3>2, BillKept
  <2>4. CASE ~SampleAdd
    <3>1. samples' = samples
      BY <1>3, <2>4 DEF SampleStep, SampleTick, SampleSkip, SampleCount, SampleRecord,
                        meterVars
    <3> QED BY <1>00, <2>1, <2>2, <3>1, BillKept
  <2> QED BY <2>3, <2>4
<1>4. ASSUME NEW c \in Client, SettleStep(c) \/ \E v \in Vessel : HandleSettle(c, v)
      PROVE  BillInv'
  <2>1. CASE SettleStop(c)
    BY <1>0, <1>00, <2>1, BillKept DEF SettleStop, Go, TypeInv, ProcTypes
  <2>2. CASE SettleRecord(c)
    BY <1>0, <1>00, <2>2, BillKept DEF SettleRecord, Go, meterVars, TypeInv, ProcTypes
  <2> QED BY <1>4, <2>1, <2>2, BillHandle, BillPriced DEF SettleStep
<1>5. CASE Restart \/ \E p \in Worker : CrashAppending(p)
  <2>1. Renew
    BY <1>5 DEF Restart, CrashAppending
  <2> QED BY <1>0, <2>1 DEF Renew, BillInv, BillsPriced, Nothing, AllReady
<1> QED BY <1>1, <1>2, <1>3, <1>4, <1>5 DEF MeteringNext

\* Whatever the tariff that Config.Validate lets pass, with valley bounds
\* inside the day or not: every bill is for a sample that was taken, in the tier
\* of its hour (billing.go:42-62, rate.go:31-49).
THEOREM BillsPricedHolds == MeteringSpec => []BillsPriced
<1>1. TypeInv /\ OrderInv /\ BillInv /\ [MeteringNext]_meteringVars => BillInv'
  BY BillNext
<1>2. BillInv => BillsPriced
  BY DEF BillInv
<1>3. MeteringSpec => []BillInv
  BY <1>1, BillInit, TypeInvHolds, OrderHolds, PTL DEF MeteringSpec
<1> QED BY <1>2, <1>3, PTL

---------------------------------------------------------------------------
(* The file and the memory.                                                *)

\* As long as no write and no sync failed, every line is a whole entry, and
\* the memory has the same ones.
SyncInv ==
  tears = 0 /\ unsynced = 0 =>
    ~cut /\ Garbage \notin Range(disk) /\ disk = recorded

LEMMA SyncInit == MeteringInit => SyncInv
  BY DEF MeteringInit, NewRecorder, SyncInv, Range

\* A line that is written whole to a file of whole entries.
LEMMA SyncWrite ==
  ASSUME LogTypes, ~cut, Garbage \notin Range(disk), NEW e \in Entry,
         disk' = LinesWith(e)
  PROVE  disk' = Append(disk, e) /\ Garbage \notin Range(disk')
<1>1. disk' = Append(disk, e)
  BY DEF LinesWith
<1>2. Range(Append(disk, e)) = Range(disk) \cup {e}
  BY AppendRange DEF LogTypes, Line
<1> QED BY <1>1, <1>2, GarbageAssumption

LEMMA SyncNext == ASSUME TypeInv, SyncInv, LogSteps PROVE SyncInv'
<1> SUFFICES ASSUME tears' = 0, unsynced' = 0
             PROVE  ~cut' /\ Garbage \notin Range(disk') /\ disk' = recorded'
  BY DEF SyncInv
<1>0. LogTypes /\ tears \in Nat /\ unsynced \in Nat
  BY DEF TypeInv, LogTypes
<1>1. ASSUME tears = 0, unsynced = 0, UNCHANGED <<disk, cut, recorded>>
      PROVE  ~cut' /\ Garbage \notin Range(disk') /\ disk' = recorded'
  BY <1>1 DEF SyncInv
<1>2. CASE UNCHANGED logVars
  BY <1>1, <1>2 DEF logVars
<1>3. ASSUME NEW p \in Worker, stage[p] = "record", Log(EntryOf(p))
      PROVE  ~cut' /\ Garbage \notin Range(disk') /\ disk' = recorded'
  <2> DEFINE e == EntryOf(p)
  <2>1. e \in Entry
    BY <1>3, EntryTyped DEF TypeInv
  <2> HIDE DEF e
  <2>2. CASE Refused
    BY <1>1, <2>2 DEF Refused, logVars
  <2>3. CASE AppendSeen(e) \/ AppendUnopened(e)
    BY <1>1, <2>3 DEF AppendSeen, AppendUnopened, logVars
  <2>4. CASE AppendWritten(e)
    <3>1. /\ tears = 0 /\ unsynced = 0 /\ disk' = LinesWith(e) /\ ~cut'
          /\ recorded' = Append(recorded, e)
      BY <2>4 DEF AppendWritten
    <3>2. ~cut /\ Garbage \notin Range(disk) /\ disk = recorded
      BY <3>1 DEF SyncInv
    <3> QED BY <1>0, <2>1, <3>1, <3>2, SyncWrite
  <2>5. CASE AppendShort(e)
    BY <1>0, <2>5 DEF AppendShort, TearTail
  <2>6. CASE AppendUnsynced(e)
    BY <1>0, <2>6 DEF AppendUnsynced
  <2> QED BY <1>3, <2>2, <2>3, <2>4, <2>5, <2>6 DEF Log, e
<1>4. CASE CloseRecorder
  BY <1>1, <1>4 DEF CloseRecorder
<1>5. CASE Restart
  <2>1. /\ tears = 0 /\ unsynced = 0 /\ disk' = disk /\ cut' = cut
        /\ recorded' = Readable(disk)
    BY <1>5 DEF Restart, Resume
  <2>2. ~cut /\ Garbage \notin Range(disk)
    BY <2>1 DEF SyncInv
  <2>3. Readable(disk) = disk
    BY <1>0, <2>2, ReadableWhole DEF LogTypes
  <2> QED BY <2>1, <2>2, <2>3
<1>6. ASSUME NEW p \in Worker, CrashAppending(p)
      PROVE  ~cut' /\ Garbage \notin Range(disk') /\ disk' = recorded'
  <2> DEFINE e == EntryOf(p)
  <2>1. e \in Entry
    BY <1>6, EntryTyped DEF CrashAppending, TypeInv
  <2>2. /\ TearTail(e) \/ (disk' = LinesWith(e) /\ cut' = FALSE /\ UNCHANGED tears)
        /\ recorded' = Readable(disk') /\ unsynced' = unsynced
    BY <1>6 DEF CrashAppending, Resume
  <2> HIDE DEF e
  <2>3. ~TearTail(e)
    BY <1>0 DEF TearTail
  <2>4. ~cut /\ Garbage \notin Range(disk)
    BY <2>2, <2>3 DEF SyncInv
  <2>5. disk' = Append(disk, e) /\ Garbage \notin Range(disk')
    BY <1>0, <2>1, <2>2, <2>3, <2>4, SyncWrite
  <2>6. disk' \in Seq(Line)
    BY <1>0, <2>1, <2>2, <2>3, WriteTyped DEF Line
  <2>7. Readable(disk') = disk'
    BY <2>5, <2>6, ReadableWhole
  <2> QED BY <2>2, <2>3, <2>5, <2>7
<1> QED BY <1>2, <1>3, <1>4, <1>5, <1>6 DEF LogSteps

\* As long as no write and no sync failed, the file and the memory have the
\* same entries in the same order, whatever the restarts and the crashes
\* between a write and the record of it (record.go:54-71, store.go:29-39).
THEOREM LogMatchesMemoryHolds == MeteringSpec => []LogMatchesMemory
<1>1. TypeInv /\ SyncInv /\ [MeteringNext]_meteringVars => SyncInv'
  BY NextLog, SyncNext
<1>2. SyncInv => LogMatchesMemory
  BY DEF SyncInv, LogMatchesMemory
<1>3. MeteringSpec => []SyncInv
  BY <1>1, SyncInit, TypeInvHolds, PTL DEF MeteringSpec
<1> QED BY <1>2, <1>3, PTL

---------------------------------------------------------------------------
(* The run log that the recorder implements.                               *)

\* The log of the mapping: the entries of the lines that have their newline.
EndedEntries == Readable(Ended)

\* A line that is written with its newline.
LEMMA FileWrite ==
  ASSUME LogTypes, NEW y \in Line, y # Garbage,
         disk' = LinesWith(y), cut' = FALSE
  PROVE  /\ LineBegun' = <<>>
         /\ LineBegun = <<>> => EndedEntries' = Append(EndedEntries, y)
         /\ LineBegun # <<>> => EndedEntries' = EndedEntries
<1>1. LineBegun' = <<>> /\ (LineBegun = <<>> <=> ~cut)
  BY DEF LineBegun, LogTypes
<1>2. Ended' = disk'
  BY DEF Ended
<1>3. CASE ~cut
  <2>1. disk' = Append(disk, y) /\ Ended = disk
    BY <1>3 DEF LinesWith, Ended
  <2>2. Readable(Append(disk, y)) = Append(Readable(disk), y)
    BY ReadableAppend DEF LogTypes
  <2> QED BY <1>1, <1>2, <1>3, <2>1, <2>2 DEF EndedEntries
<1>4. CASE cut
  <2>1. disk' = Ended
    BY <1>4 DEF LinesWith, Ended
  <2> QED BY <1>1, <1>2, <1>4, <2>1 DEF EndedEntries
<1> QED BY <1>3, <1>4 DEF LogTypes

\* A write that stops before the newline.
LEMMA FileTear ==
  ASSUME LogTypes, NEW y \in Line, disk' = LinesWith(y), cut' = TRUE
  PROVE  /\ EndedEntries' = EndedEntries
         /\ LineBegun' = <<IF LineBegun = <<>> THEN y ELSE Garbage>>
<1>0. LineBegun = <<>> <=> ~cut
  BY DEF LineBegun, LogTypes
<1>1. Garbage \in Line
  BY DEF Line
<1>2. Ended' = ReplaceLast(disk', Garbage) /\ LineBegun' = <<disk'[Len(disk')]>>
  BY DEF Ended, LineBegun
<1>3. CASE ~cut
  <2>1. disk' = Append(disk, y) /\ Ended = disk
    BY <1>3 DEF LinesWith, Ended
  <2>2. disk \in Seq(Line)
    BY DEF LogTypes
  <2>3. /\ Append(disk, y)[Len(Append(disk, y))] = y
        /\ ReplaceLast(Append(disk, y), Garbage) = Append(disk, Garbage)
    BY <1>1, <2>2, SpoilAppended
  <2>4. Readable(Append(disk, Garbage)) = Readable(disk)
    BY <1>1, <2>2, ReadableAppend
  <2> QED BY <1>0, <1>2, <1>3, <2>1, <2>3, <2>4 DEF EndedEntries
<1>4. CASE cut
  <2>1. disk' = ReplaceLast(disk, Garbage) /\ Ended = disk'
    BY <1>4 DEF LinesWith, Ended
  <2>2. /\ disk \in Seq(Line) /\ disk # <<>>
    BY <1>4 DEF LogTypes
  <2>3. /\ disk'[Len(disk')] = Garbage
        /\ ReplaceLast(disk', Garbage) = disk'
    BY <1>1, <2>1, <2>2, SpoilTwice
  <2> QED BY <1>0, <1>2, <1>4, <2>1, <2>3 DEF EndedEntries
<1> QED BY <1>3, <1>4 DEF LogTypes

\* What a new process reads back.
LEMMA FileReadBack ==
  ASSUME LogTypes
  PROVE  Readable(disk) = File!ReadBack
<1>1. CASE ~cut
  BY <1>1 DEF File!ReadBack, Ended, LineBegun
<1>2. CASE cut
  <2>1. disk \in Seq(Line) /\ disk # <<>> /\ Garbage \in Line
    BY <1>2 DEF LogTypes, Line
  <2>2. Readable(disk) =
          IF disk[Len(disk)] # Garbage
          THEN Append(Readable(ReplaceLast(disk, Garbage)), disk[Len(disk)])
          ELSE Readable(ReplaceLast(disk, Garbage))
    BY <2>1, ReadableLast
  <2>3. Ended = ReplaceLast(disk, Garbage) /\ LineBegun = <<disk[Len(disk)]>>
    BY <1>2 DEF Ended, LineBegun
  <2> QED BY <2>2, <2>3 DEF File!ReadBack
<1> QED BY <1>1, <1>2 DEF LogTypes

LEMMA ReadBackNext == LogTypes' => Readable(disk') = File!ReadBack'
<1>1. LogTypes => Readable(disk) = File!ReadBack
  BY FileReadBack
<1>2. LogTypes' => (Readable(disk) = File!ReadBack)'
  BY <1>1, PTL
<1> QED BY <1>2

LEMMA FileRange == \A list : File!Range(list) = Range(list)
  BY DEF File!Range, Range

LEMMA EndedTyped ==
  ASSUME LogTypes
  PROVE  EndedEntries \in Seq(Entry)
<1>1. Ended \in Seq(Line)
  <2>1. CASE cut
    <3>1. Ended = LinesWith(Garbage) /\ Garbage \in Line
      BY <2>1 DEF Ended, LinesWith, Line
    <3>2. disk \in [1 .. Len(disk) -> Line] /\ Len(disk) \in Nat
      BY DEF LogTypes
    <3>3. ReplaceLast(disk, Garbage) \in [1 .. Len(disk) -> Line]
      BY <3>1, <3>2 DEF ReplaceLast
    <3> QED BY <2>1, <3>2, <3>3 DEF Ended
  <2>2. CASE ~cut
    BY <2>2 DEF Ended, LogTypes
  <2> QED BY <2>1, <2>2 DEF LogTypes
<1> QED BY <1>1, ReadableTyped DEF EndedEntries

\* A write of an entry that memory does not have, whole or in part, is one
\* that a run log may make.
LEMMA FileWrites ==
  ASSUME LogTypes, NEW e \in Entry, ~Seen(e),
         TearTail(e) \/ (disk' = LinesWith(e) /\ cut' = FALSE)
  PROVE  File!WriteAnyway
<1>1. e \in Line /\ Garbage \in Line /\ e # Garbage /\ e \notin Range(recorded)
  BY GarbageAssumption DEF Line, Seen
<1>2. EndedEntries \in Seq(Entry)
  BY EndedTyped
<1>3. CASE disk' = LinesWith(e) /\ cut' = FALSE
  <2>1. /\ LineBegun' = <<>>
        /\ LineBegun = <<>> => EndedEntries' = Append(EndedEntries, e)
        /\ LineBegun # <<>> => EndedEntries' = EndedEntries
    BY <1>1, <1>3, FileWrite
  <2>2. CASE LineBegun = <<>>
    <3>1. e \in Range(EndedEntries')
      <4>1. Range(Append(EndedEntries, e)) = Range(EndedEntries) \cup {e}
        BY <1>2, AppendRange
      <4> QED BY <2>1, <2>2, <4>1
    <3>2. File!WriteLine(e)
      BY <1>1, <2>1, <2>2, FileRange DEF File!WriteLine, EndedEntries
    <3> QED BY <3>1, <3>2, FileRange DEF File!WriteAnyway, EndedEntries
  <2>3. CASE LineBegun # <<>>
    <3>1. File!EndTail
      BY <2>1, <2>3 DEF File!EndTail, EndedEntries
    <3> QED BY <3>1 DEF File!WriteAnyway
  <2> QED BY <2>2, <2>3
<1>4. CASE TearTail(e)
  <2>1. PICK y \in {e, Garbage} : disk' = LinesWith(y)
    BY <1>4, TearWrites
  <2>2. cut' = TRUE
    BY <1>4 DEF TearTail
  <2> DEFINE x == IF LineBegun = <<>> THEN y ELSE Garbage
  <2>3. EndedEntries' = EndedEntries /\ LineBegun' = <<x>>
    BY <1>1, <2>1, <2>2, FileTear
  <2>4. x = Garbage \/ (LineBegun = <<>> /\ x \notin Range(recorded))
    BY <1>1
  <2> HIDE DEF x
  <2>5. x \in Range(LineBegun')
    BY <2>3 DEF Range
  <2>6. File!Tear
    BY <2>3, <2>4, <2>5, FileRange DEF File!Tear, EndedEntries
  <2> QED BY <2>6 DEF File!WriteAnyway
<1> QED BY <1>3, <1>4

\* Every outcome of Append, every crash and every restart is a step of the
\* run log or none.
LEMMA FileNext ==
  ASSUME TypeInv, LogSteps
  PROVE  [File!RunLogNext]_File!runLogVars
<1> DEFINE Goal == [File!RunLogNext]_File!runLogVars
<1>0. LogTypes
  BY DEF TypeInv
<1>1. ASSUME UNCHANGED <<disk, cut, recorded, acked>> PROVE Goal
  BY <1>1 DEF File!runLogVars, Ended, LineBegun
<1>2. CASE UNCHANGED logVars
  BY <1>1, <1>2 DEF logVars
<1>3. ASSUME NEW p \in Worker, stage[p] = "record", Log(EntryOf(p))
      PROVE  Goal
  <2> DEFINE e == EntryOf(p)
  <2>1. e \in Entry
    BY <1>3, EntryTyped DEF TypeInv
  <2> HIDE DEF e
  <2>2. CASE Refused \/ AppendUnopened(e)
    BY <1>1, <2>2 DEF Refused, AppendUnopened, logVars
  <2>3. CASE AppendSeen(e)
    <3>1. UNCHANGED <<EndedEntries, LineBegun, recorded>>
      BY <2>3 DEF AppendSeen, EndedEntries, Ended, LineBegun
    <3>2. e \in Range(recorded) /\ acked' = acked \cup {e}
      BY <2>3 DEF AppendSeen, Seen
    <3>3. File!RecordAgain
      BY <3>1, <3>2, FileRange DEF File!RecordAgain, EndedEntries
    <3> QED BY <3>3 DEF File!RunLogNext
  <2>4. CASE AppendWritten(e)
    <3>1. /\ ~Seen(e) /\ disk' = LinesWith(e) /\ cut' = FALSE
          /\ recorded' = Append(recorded, e) /\ acked' = acked \cup {e}
      BY <2>4 DEF AppendWritten
    <3>2. e \in Line /\ e # Garbage
      BY <2>1, GarbageAssumption DEF Line
    <3>3. /\ LineBegun' = <<>>
          /\ LineBegun = <<>> => EndedEntries' = Append(EndedEntries, e)
          /\ LineBegun # <<>> => EndedEntries' = EndedEntries
      BY <1>0, <3>1, <3>2, FileWrite
    <3>4. e \in Range(recorded') \ Range(recorded)
      BY <1>0, <2>1, <3>1, AppendRange DEF LogTypes, Seen
    <3>5. File!WriteLine(e) \/ File!EndTail
      BY <3>3, <3>4, FileRange DEF File!WriteLine, File!EndTail, EndedEntries
    <3>6. File!Record
      BY <3>1, <3>4, <3>5, FileRange DEF File!Record
    <3> QED BY <3>6 DEF File!RunLogNext
  <2>5. CASE AppendShort(e) \/ AppendUnsynced(e)
    <3>1. /\ ~Seen(e) /\ UNCHANGED <<recorded, acked>>
          /\ TearTail(e) \/ (disk' = LinesWith(e) /\ cut' = FALSE)
      BY <2>5 DEF AppendShort, AppendUnsynced
    <3>2. File!WriteAnyway
      BY <1>0, <2>1, <3>1, FileWrites
    <3> QED BY <3>1, <3>2 DEF File!Fail, File!RunLogNext
  <2> QED BY <1>3, <2>2, <2>3, <2>4, <2>5 DEF Log, e
<1>4. CASE CloseRecorder
  BY <1>1, <1>4 DEF CloseRecorder
<1>5. LogTypes'
  BY NextLogTypes
<1>6. Readable(disk') = File!ReadBack'
  BY <1>5, ReadBackNext
<1>7. CASE Restart
  <2>1. /\ UNCHANGED <<disk, cut, acked>> /\ recorded' = Readable(disk')
    BY <1>7 DEF Restart, Resume
  <2>2. UNCHANGED <<EndedEntries, LineBegun>>
    BY <2>1 DEF EndedEntries, Ended, LineBegun
  <2>3. File!StartAgain
    BY <1>6, <2>1, <2>2 DEF File!StartAgain, EndedEntries
  <2> QED BY <2>3 DEF File!RunLogNext
<1>8. ASSUME NEW p \in Worker, CrashAppending(p) PROVE Goal
  <2> DEFINE e == EntryOf(p)
  <2>1. e \in Entry
    BY <1>8, EntryTyped DEF CrashAppending, TypeInv
  <2>2. /\ ~Seen(e)
        /\ TearTail(e) \/ (disk' = LinesWith(e) /\ cut' = FALSE)
        /\ recorded' = Readable(disk') /\ acked' = acked
    BY <1>8 DEF CrashAppending, Resume
  <2> HIDE DEF e
  <2>3. File!WriteAnyway
    BY <1>0, <2>1, <2>2, FileWrites
  <2>4. File!StartAgain
    BY <1>6, <2>2, <2>3 DEF File!StartAgain
  <2> QED BY <2>4 DEF File!RunLogNext
<1> QED BY <1>2, <1>3, <1>4, <1>7, <1>8 DEF LogSteps

\* An empty file is an empty log.
LEMMA FileInit == MeteringInit => File!RunLogInit
<1> SUFFICES ASSUME MeteringInit PROVE File!RunLogInit
  OBVIOUS
<1>1. disk = <<>> /\ cut = FALSE /\ recorded = <<>> /\ acked = {}
  BY DEF MeteringInit, NewRecorder
<1>2. Readable(<<>>) = <<>>
  <2>1. <<>> \in Seq({}) /\ Garbage \notin Range(<<>>)
    BY DEF Range
  <2> QED BY <2>1, ReadableWhole
<1> QED BY <1>1, <1>2 DEF File!RunLogInit, Ended, LineBegun

\* The recorder keeps the promise of the run log, whatever fails and however
\* often the process dies: the file only grows at its end, nothing is
\* acknowledged that memory does not have, and a new process has in memory
\* what the file has (record.go:41-71, store.go:20-39).
THEOREM ImplementsRunLogHolds == MeteringSpec => ImplementsRunLog
<1>1. TypeInv /\ [MeteringNext]_meteringVars
        => [File!RunLogNext]_File!runLogVars
  BY NextLog, FileNext
<1>2. MeteringSpec => File!RunLogSpec
  BY <1>1, FileInit, TypeInvHolds, PTL DEF MeteringSpec, File!RunLogSpec
<1> QED BY <1>2 DEF ImplementsRunLog

---------------------------------------------------------------------------
(* The copies of an entry.                                                 *)

\* An entry that is not in memory has no copy that ends in a newline but for
\* the syncs that failed, so that the next write of it is the first one.
OnceInv ==
  \A e \in Entry :
    /\ Cardinality(Copies(e)) <= 1 + unsynced
    /\ ~Seen(e) => Cardinality(Whole(e)) <= unsynced

LEMMA OnceInit == MeteringInit => OnceInv
<1> SUFFICES ASSUME MeteringInit, NEW e \in Entry
             PROVE  /\ Cardinality(Copies(e)) <= 1 + unsynced
                    /\ Cardinality(Whole(e)) <= unsynced
  BY DEF OnceInv
<1>1. Copies(e) = {} /\ Whole(e) = {} /\ unsynced = 0
  BY DEF MeteringInit, NewRecorder, Copies, Whole
<1> QED BY <1>1, FS_EmptySet

\* The types that the lemmas about writes ask for.
LEMMA CopiesTyped ==
  ASSUME LogTypes, NEW e
  PROVE  /\ Cardinality(Copies(e)) \in Nat /\ Cardinality(Whole(e)) \in Nat
         /\ Cardinality(Whole(e)) <= Cardinality(Copies(e))
  BY CopiesFinite DEF LogTypes

\* A write of an entry x that was not in memory.
LEMMA OnceWrite ==
  ASSUME LogTypes, OnceInv, NEW x \in Entry, ~Seen(x),
         NEW y \in {x, Garbage}, disk' = LinesWith(y), cut' \in BOOLEAN,
         NEW e \in Entry
  PROVE  /\ Cardinality(Copies(e)') \in Nat /\ Cardinality(Whole(e)') \in Nat
         /\ Cardinality(Copies(e)') <= 1 + unsynced
         /\ Cardinality(Whole(e)') <= Cardinality(Copies(e)')
         /\ e # x /\ ~Seen(e) => Cardinality(Whole(e)') <= unsynced
         /\ cut' /\ ~Seen(e) => Cardinality(Whole(e)') <= unsynced
<1>1. y \in Line /\ Garbage \in Line /\ e # Garbage
  BY GarbageAssumption DEF Line
<1>2. /\ Cardinality(Copies(e)') \in Nat /\ Cardinality(Whole(e)') \in Nat
      /\ Cardinality(Copies(e)') <= Cardinality(Whole(e)) + 1
      /\ Cardinality(Whole(e)') <= Cardinality(Copies(e)')
      /\ e # y => Cardinality(Copies(e)') = Cardinality(Whole(e))
      /\ cut' => Cardinality(Whole(e)') = Cardinality(Whole(e))
  BY <1>1, WriteCount DEF LogTypes
<1>3. /\ Cardinality(Copies(e)) \in Nat /\ Cardinality(Whole(e)) \in Nat
      /\ Cardinality(Whole(e)) <= Cardinality(Copies(e))
      /\ unsynced \in Nat
  BY CopiesTyped DEF LogTypes
<1>4. /\ Cardinality(Copies(e)) <= 1 + unsynced
      /\ ~Seen(e) => Cardinality(Whole(e)) <= unsynced
  BY DEF OnceInv
<1>5. CASE e = x
  BY <1>2, <1>3, <1>4, <1>5
<1>6. CASE e # x
  BY <1>1, <1>2, <1>3, <1>4, <1>6
<1> QED BY <1>5, <1>6

\* After a scan of the file every entry with a copy is in memory.
LEMMA OnceResume ==
  ASSUME TypeInv, disk' \in Seq(Line), recorded' = Readable(disk'),
         NEW e \in Entry, ~Seen(e)'
  PROVE  Cardinality(Whole(e)') = 0
<1>1. Range(recorded') = Range(disk') \ {Garbage}
  BY ReadableTyped
<1>2. e \notin Range(disk')
  BY <1>1, GarbageAssumption DEF Seen
<1>3. Whole(e)' = {}
  BY <1>2 DEF Whole, Copies, Range
<1> QED BY <1>3, FS_EmptySet

LEMMA OnceNext == ASSUME TypeInv, OnceInv, LogSteps PROVE OnceInv'
<1> SUFFICES ASSUME NEW e \in Entry
             PROVE  /\ Cardinality(Copies(e)') <= 1 + unsynced'
                    /\ ~Seen(e)' => Cardinality(Whole(e)') <= unsynced'
  BY DEF OnceInv
<1>0. /\ LogTypes /\ unsynced \in Nat
      /\ Cardinality(Copies(e)) \in Nat /\ Cardinality(Whole(e)) \in Nat
      /\ Cardinality(Copies(e)) <= 1 + unsynced
      /\ ~Seen(e) => Cardinality(Whole(e)) <= unsynced
  BY CopiesTyped DEF TypeInv, LogTypes, OnceInv
<1> DEFINE Goal == /\ Cardinality(Copies(e)') <= 1 + unsynced'
                   /\ ~Seen(e)' => Cardinality(Whole(e)') <= unsynced'
<1>1. ASSUME UNCHANGED <<disk, cut, recorded, unsynced>> PROVE Goal
  BY <1>0, <1>1 DEF Copies, Whole, Seen
<1>2. CASE UNCHANGED logVars
  BY <1>1, <1>2 DEF logVars
<1>3. ASSUME NEW p \in Worker, stage[p] = "record", Log(EntryOf(p))
      PROVE  Goal
  <2> DEFINE x == EntryOf(p)
  <2>1. x \in Entry
    BY <1>3, EntryTyped DEF TypeInv
  <2> HIDE DEF x
  <2>2. CASE Refused \/ AppendSeen(x) \/ AppendUnopened(x)
    BY <1>1, <2>2 DEF Refused, AppendSeen, AppendUnopened, logVars
  <2>3. CASE AppendWritten(x)
    <3>1. /\ ~Seen(x) /\ disk' = LinesWith(x) /\ cut' \in BOOLEAN
          /\ recorded' = Append(recorded, x) /\ unsynced' = unsynced
      BY <2>3 DEF AppendWritten
    <3>2. Range(recorded') = Range(recorded) \cup {x}
      BY <1>0, <2>1, <3>1, AppendRange DEF LogTypes
    <3>3. ~Seen(e)' => e # x /\ ~Seen(e)
      BY <3>2 DEF Seen
    <3>4. /\ Cardinality(Copies(e)') <= 1 + unsynced
          /\ e # x /\ ~Seen(e) => Cardinality(Whole(e)') <= unsynced
      BY <1>0, <2>1, <3>1, OnceWrite
    <3> QED BY <3>1, <3>3, <3>4
  <2>4. CASE AppendShort(x)
    <3>1. /\ ~Seen(x) /\ cut' = TRUE /\ recorded' = recorded /\ unsynced' = unsynced
      BY <2>4 DEF AppendShort, TearTail
    <3>2. PICK y \in {x, Garbage} : disk' = LinesWith(y)
      BY <2>4, TearWrites DEF AppendShort
    <3>3. /\ Cardinality(Copies(e)') <= 1 + unsynced
          /\ cut' /\ ~Seen(e) => Cardinality(Whole(e)') <= unsynced
      BY <1>0, <2>1, <3>1, <3>2, OnceWrite
    <3> QED BY <3>1, <3>3 DEF Seen
  <2>5. CASE AppendUnsynced(x)
    <3>1. /\ ~Seen(x) /\ disk' = LinesWith(x) /\ cut' \in BOOLEAN
          /\ recorded' = recorded /\ unsynced' = unsynced + 1
      BY <2>5 DEF AppendUnsynced
    <3>2. /\ Cardinality(Copies(e)') \in Nat /\ Cardinality(Whole(e)') \in Nat
          /\ Cardinality(Copies(e)') <= 1 + unsynced
          /\ Cardinality(Whole(e)') <= Cardinality(Copies(e)')
      BY <1>0, <2>1, <3>1, OnceWrite
    <3> QED BY <1>0, <3>1, <3>2
  <2> QED BY <1>3, <2>2, <2>3, <2>4, <2>5 DEF Log, x
<1>4. CASE CloseRecorder
  BY <1>1, <1>4 DEF CloseRecorder
<1>5. CASE Restart
  <2>1. /\ disk' = disk /\ unsynced' = unsynced /\ recorded' = Readable(disk')
    BY <1>5 DEF Restart, Resume
  <2>2. Copies(e)' = Copies(e)
    BY <2>1 DEF Copies
  <2>3. ~Seen(e)' => Cardinality(Whole(e)') = 0
    BY <1>0, <2>1, OnceResume DEF LogTypes
  <2> QED BY <1>0, <2>1, <2>2, <2>3
<1>6. ASSUME NEW p \in Worker, CrashAppending(p) PROVE Goal
  <2> DEFINE x == EntryOf(p)
  <2>1. x \in Entry /\ ~Seen(x)
    BY <1>6, EntryTyped DEF CrashAppending, TypeInv
  <2>2. /\ recorded' = Readable(disk') /\ unsynced' = unsynced
        /\ TearTail(x) \/ (disk' = LinesWith(x) /\ cut' = FALSE)
    BY <1>6 DEF CrashAppending, Resume
  <2> HIDE DEF x
  <2>3. PICK y \in {x, Garbage} : disk' = LinesWith(y)
    BY <2>2, TearWrites
  <2>4. cut' \in BOOLEAN
    BY <2>2 DEF TearTail
  <2>5. Cardinality(Copies(e)') <= 1 + unsynced
    BY <1>0, <2>1, <2>3, <2>4, OnceWrite
  <2>6. y \in Line
    BY <2>1 DEF Line
  <2>7. disk' \in Seq(Line)
    BY <1>0, <2>3, <2>6, WriteTyped
  <2>8. ~Seen(e)' => Cardinality(Whole(e)') = 0
    BY <2>2, <2>7, OnceResume
  <2> QED BY <1>0, <2>2, <2>5, <2>8
<1> QED BY <1>2, <1>3, <1>4, <1>5, <1>6 DEF LogSteps

\* Whoever appends an entry again, before or after a restart: it is in the
\* file once, and once more for each sync that failed (record.go:50-53).
THEOREM WrittenOnceHolds == MeteringSpec => []WrittenOnce
<1>1. TypeInv /\ OnceInv /\ [MeteringNext]_meteringVars => OnceInv'
  BY NextLog, OnceNext
<1>2. TypeInv /\ OnceInv => WrittenOnce
  <2> SUFFICES ASSUME TypeInv, OnceInv, NEW e \in Range(disk) \ {Garbage}
               PROVE  Cardinality({i \in DOMAIN disk : disk[i] = e}) <= 1 + unsynced
    BY DEF WrittenOnce
  <2>1. e \in Entry
    BY DEF TypeInv, LogTypes, Line, Range
  <2> QED BY <2>1 DEF OnceInv, Copies
<1>3. MeteringSpec => []OnceInv
  BY <1>1, OnceInit, TypeInvHolds, PTL DEF MeteringSpec
<1> QED BY <1>2, <1>3, TypeInvHolds, PTL

---------------------------------------------------------------------------
(* What a write that was cut short costs.                                  *)

\* Nothing is dated later than the clock.
TimeInv ==
  /\ \A e \in Entry : OnDisk(e) \/ Seen(e) \/ e \in acked => e.at <= now
  /\ \A p \in Worker : Busy(p) => job[p].at <= now

\* An entry of an earlier process: none that is appended from here on is the
\* same, as their times are later.
Old(e) ==
  /\ e.at < now
  /\ \A p \in Worker : Busy(p) => e.at < job[p].at

Lost == {e \in acked : ~OnDisk(e)}

\* A cut stands for the entry that the next write loses.  The line that is cut
\* was not acknowledged and never will be, so that this write loses no other;
\* what is in memory but not in the file is not acknowledged later on.
LossInv ==
  /\ IsFiniteSet(acked)
  /\ Cardinality(Lost) + (IF cut THEN 1 ELSE 0) <= tears
  /\ \A e \in Entry : Seen(e) => OnDisk(e) \/ e \in acked \/ Old(e)
  /\ \A e \in acked : Seen(e) \/ Old(e)
  /\ cut => /\ disk[Len(disk)] \notin acked
            /\ \A e \in Entry : e = disk[Len(disk)] /\ Seen(e) => Old(e)

\* A job is dated when it is made, and once more when the bill is.
LEMMA JobSteps ==
  ASSUME TypeInv, [MeteringNext]_meteringVars
  PROVE  /\ now' \in Nat /\ now \in Nat /\ now <= now'
         /\ \A p \in Worker : Busy(p)' =>
              job'[p].at = now \/ (Busy(p) /\ job'[p].at = job[p].at)
<1>0. Sampler \in Worker /\ Sampler \notin Client /\ Client \subseteq Worker /\ now \in Nat
  BY MeteringAssumption DEF Worker, TypeInv, ProcTypes
<1> USE DEF Busy
<1>1. CASE UNCHANGED meteringVars
  BY <1>0, <1>1 DEF meteringVars, meterProcVars
<1>2. ASSUME NEW v \in Vessel, StartRun(v) \/ Suspend(v) \/ ResumeRun(v)
      PROVE  now' = now /\ UNCHANGED <<stage, job>>
  BY <1>2 DEF StartRun, Suspend, ResumeRun, meterProcVars
<1>3. CASE SampleStep
  BY <1>0, <1>3 DEF SampleStep, SampleTick, SampleSkip, SampleCount, SampleAdd, SampleRecord,
                    Go, TypeInv, ProcTypes
<1>4. ASSUME NEW c \in Client, SettleStep(c) \/ \E v \in Vessel : HandleSettle(c, v)
      PROVE  /\ now' = now
             /\ \A p \in Worker : Busy(p)' =>
                  job'[p].at = now \/ (Busy(p) /\ job'[p].at = job[p].at)
  <2>0. c \in Worker
    BY <1>0
  <2>1. ASSUME NEW hour \in Hour, SettleBill(c, hour)
        PROVE  /\ now' = now
               /\ \A p \in Worker : Busy(p)' =>
                    job'[p].at = now \/ (Busy(p) /\ job'[p].at = job[p].at)
    <3>1. job[c] \in Job
      BY <2>0, <2>1 DEF SettleBill, TypeInv, ProcTypes
    <3>2. job' = [job EXCEPT ![c] = [job[c] EXCEPT !.at = now]]
      BY <2>1 DEF SettleBill
    <3>3. job'[c].at = now /\ \A p \in Worker \ {c} : job'[p] = job[p]
      BY <2>0, <3>1, <3>2 DEF TypeInv, ProcTypes, Job
    <3> QED BY <2>0, <2>1, <3>3 DEF SettleBill, Go, TypeInv, ProcTypes
  <2>2. CASE SettleStop(c)
    BY <2>0, <2>2 DEF SettleStop, Go, TypeInv, ProcTypes
  <2>3. CASE SettleRecord(c)
    BY <2>0, <2>3 DEF SettleRecord, Go, TypeInv, ProcTypes
  <2>4. ASSUME NEW v \in Vessel, HandleSettle(c, v)
        PROVE  /\ now' = now
               /\ \A p \in Worker : Busy(p)' =>
                    job'[p].at = now \/ (Busy(p) /\ job'[p].at = job[p].at)
    BY <2>0, <2>4 DEF HandleSettle, Go, TypeInv, ProcTypes
  <2> QED BY <1>4, <2>1, <2>2, <2>3, <2>4 DEF SettleStep
<1>5. CASE Tick \/ Shutdown
  BY <1>0, <1>5 DEF Tick, Shutdown, meterProcVars
<1>6. CASE Restart \/ \E p \in Worker : CrashAppending(p)
  BY <1>0, <1>6 DEF Restart, CrashAppending, Renew, AllReady
<1> QED BY <1>0, <1>1, <1>2, <1>3, <1>4, <1>5, <1>6 DEF MeteringNext

\* Once of an earlier process, always of an earlier process.
LEMMA OldStays ==
  ASSUME TypeInv, [MeteringNext]_meteringVars, NEW e \in Entry, Old(e)
  PROVE  Old(e)'
<1>1. e.at \in Nat
  BY DEF Entry
<1>2. \A p \in Worker : Busy(p) => job[p].at \in Nat
  BY DEF TypeInv, ProcTypes, Job
<1> QED BY <1>1, <1>2, JobSteps DEF Old

\* What a goroutine is about to append is of this process.
LEMMA AppendNotOld ==
  ASSUME TypeInv, NEW p \in Worker, stage[p] = "record"
  PROVE  ~Old(EntryOf(p)) /\ EntryOf(p).at \in Nat
<1>1. EntryOf(p) \in Entry /\ EntryOf(p).at = job[p].at
  BY EntryTyped DEF TypeInv
<1>2. EntryOf(p).at \in Nat
  BY <1>1 DEF Entry
<1> QED BY <1>1, <1>2 DEF Old, Busy

\* Whatever is written is on the disk, in memory or acknowledged already, or is
\* what a goroutine appends.
LEMMA SourcesNext ==
  ASSUME TypeInv, LogSteps, NEW e \in Entry,
         OnDisk(e)' \/ Seen(e)' \/ e \in acked'
  PROVE  \/ OnDisk(e) \/ Seen(e) \/ e \in acked
         \/ \E p \in Worker : stage[p] = "record" /\ e = EntryOf(p)
<1> DEFINE Goal == \/ OnDisk(e) \/ Seen(e) \/ e \in acked
                   \/ \E p \in Worker : stage[p] = "record" /\ e = EntryOf(p)
<1>0. LogTypes
  BY DEF TypeInv
<1> USE DEF OnDisk, Seen
<1>1. CASE UNCHANGED <<disk, recorded, acked>>
  BY <1>1
<1>2. ASSUME NEW p \in Worker, stage[p] = "record", Log(EntryOf(p)), e # EntryOf(p)
      PROVE  Goal
  <2> DEFINE x == EntryOf(p)
  <2>1. x \in Entry /\ Garbage \notin Entry
    BY <1>2, EntryTyped, GarbageAssumption DEF TypeInv
  <2> HIDE DEF x
  <2>2. CASE Refused \/ AppendUnopened(x)
    BY <2>2, <1>1 DEF Refused, AppendUnopened, logVars
  <2>3. CASE AppendSeen(x)
    BY <1>2, <2>3 DEF AppendSeen, x
  <2>4. ASSUME NEW y \in {x, Garbage}, disk' = LinesWith(y)
        PROVE  OnDisk(e)' => OnDisk(e)
    <3>1. Range(disk') \subseteq Range(disk) \cup {y, Garbage}
      BY <1>0, <2>1, <2>4, WriteKeeps DEF LogTypes, Line
    <3> QED BY <1>2, <2>1, <3>1 DEF x
  <2>5. CASE AppendWritten(x)
    <3>1. Range(recorded') = Range(recorded) \cup {x}
      BY <1>0, <2>1, <2>5, AppendRange DEF AppendWritten, LogTypes
    <3>2. OnDisk(e)' => OnDisk(e)
      BY <2>4, <2>5 DEF AppendWritten
    <3> QED BY <1>2, <2>5, <3>1, <3>2 DEF AppendWritten, x
  <2>6. CASE AppendShort(x)
    <3>1. OnDisk(e)' => OnDisk(e)
      BY <2>4, <2>6, TearWrites DEF AppendShort
    <3> QED BY <2>6, <3>1 DEF AppendShort
  <2>7. CASE AppendUnsynced(x)
    <3>1. OnDisk(e)' => OnDisk(e)
      BY <2>4, <2>7 DEF AppendUnsynced
    <3> QED BY <2>7, <3>1 DEF AppendUnsynced
  <2> QED BY <1>2, <2>2, <2>3, <2>5, <2>6, <2>7 DEF Log, x
<1>3. CASE Restart
  <2>1. Range(recorded') = Range(disk) \ {Garbage}
    BY <1>0, <1>3, ReadableTyped DEF Restart, Resume, LogTypes
  <2> QED BY <1>3, <2>1 DEF Restart, Resume
<1>4. ASSUME NEW p \in Worker, CrashAppending(p), e # EntryOf(p)
      PROVE  Goal
  <2>1. EntryOf(p) \in Line /\ Garbage \in Line /\ e # Garbage
    BY <1>4, EntryTyped, GarbageAssumption DEF CrashAppending, TypeInv, Line
  <2>2. PICK y \in {EntryOf(p), Garbage} : disk' = LinesWith(y)
    BY <1>4, TearWrites DEF CrashAppending
  <2>3. disk' \in Seq(Line) /\ Range(disk') \subseteq Range(disk) \cup {y, Garbage}
    BY <1>0, <2>1, <2>2, WriteKeeps, WriteTyped DEF LogTypes, Line
  <2>4. Range(recorded') = Range(disk') \ {Garbage} /\ acked' = acked
    BY <1>4, <2>3, ReadableTyped DEF CrashAppending, Resume
  <2> QED BY <1>4, <2>1, <2>3, <2>4
<1>5. ASSUME NEW p \in Worker, CrashAppending(p) PROVE stage[p] = "record"
  BY <1>5 DEF CrashAppending
<1> QED BY <1>1, <1>2, <1>3, <1>4, <1>5 DEF LogSteps, logVars, CloseRecorder

LEMMA TimeInit == MeteringInit => TimeInv
  BY DEF MeteringInit, NewRecorder, TimeInv, OnDisk, Seen, Range, Busy, AllReady

LEMMA TimeNext == TypeInv /\ TimeInv /\ [MeteringNext]_meteringVars => TimeInv'
<1> SUFFICES ASSUME TypeInv, TimeInv, [MeteringNext]_meteringVars PROVE TimeInv'
  OBVIOUS
<1>1. /\ now' \in Nat /\ now \in Nat /\ now <= now'
      /\ \A p \in Worker : Busy(p)' =>
           job'[p].at = now \/ (Busy(p) /\ job'[p].at = job[p].at)
  BY JobSteps
<1>2. \A p \in Worker : Busy(p) => job[p].at \in Nat /\ job[p].at <= now
  BY DEF TypeInv, ProcTypes, Job, TimeInv
<1>3. \A p \in Worker : Busy(p)' => job'[p].at <= now'
  BY <1>1, <1>2
<1>4. ASSUME NEW e \in Entry, OnDisk(e)' \/ Seen(e)' \/ e \in acked'
      PROVE  e.at <= now'
  <2>0. e.at \in Nat
    BY DEF Entry
  <2>1. CASE OnDisk(e) \/ Seen(e) \/ e \in acked
    BY <1>1, <2>0, <2>1 DEF TimeInv
  <2>2. ASSUME NEW p \in Worker, stage[p] = "record", e = EntryOf(p)
        PROVE  e.at <= now'
    <3>1. e.at = job[p].at /\ Busy(p)
      BY <2>2, EntryTyped DEF TypeInv, Busy
    <3> QED BY <1>1, <1>2, <2>0, <3>1
  <2> QED BY <1>4, <2>1, <2>2, NextLog, SourcesNext
<1> QED BY <1>3, <1>4 DEF TimeInv

LEMMA LossInit == MeteringInit => LossInv
<1> SUFFICES ASSUME MeteringInit PROVE LossInv
  OBVIOUS
<1>1. /\ acked = {} /\ Lost = {} /\ tears = 0 /\ cut = FALSE /\ Range(recorded) = {}
  BY DEF MeteringInit, NewRecorder, Lost, Range
<1> QED BY <1>1, FS_EmptySet DEF LossInv, Seen

\* Of the entries lost before, and one more, only so many are lost after.
LEMMA LostCount ==
  ASSUME IsFiniteSet(Lost), NEW D
  PROVE  /\ Cardinality(Lost) \in Nat
         /\ D \subseteq Lost => Cardinality(D) \in Nat /\ Cardinality(D) <= Cardinality(Lost)
         /\ \A x : D \subseteq Lost \cup {x} =>
              Cardinality(D) \in Nat /\ Cardinality(D) <= Cardinality(Lost) + 1
<1>1. Cardinality(Lost) \in Nat
  BY FS_CardinalityType
<1>2. ASSUME D \subseteq Lost
      PROVE  Cardinality(D) \in Nat /\ Cardinality(D) <= Cardinality(Lost)
  BY <1>2, FS_Subset, FS_CardinalityType
<1>3. ASSUME NEW x, D \subseteq Lost \cup {x}
      PROVE  Cardinality(D) \in Nat /\ Cardinality(D) <= Cardinality(Lost) + 1
  <2> DEFINE L == Lost \cup {x}
  <2>1. IsFiniteSet(L) /\ Cardinality(L) <= Cardinality(Lost) + 1
    <3>1. IsFiniteSet(L) /\ Cardinality(L) = IF x \in Lost THEN Cardinality(Lost)
                                             ELSE Cardinality(Lost) + 1
      BY FS_AddElement
    <3> QED BY <1>1, <3>1
  <2>2. Cardinality(L) \in Nat
    BY <2>1, FS_CardinalityType
  <2>3. Cardinality(D) \in Nat /\ Cardinality(D) <= Cardinality(L)
    BY <1>3, <2>1, FS_Subset, FS_CardinalityType
  <2> QED BY <1>1, <2>1, <2>2, <2>3
<1> QED BY <1>1, <1>2, <1>3

\* The parts of LossInv, and what a write does to them: no acknowledged entry
\* leaves the file, and an entry in memory that does was of an earlier process.
LEMMA LossWrite ==
  ASSUME LogTypes, LossInv, NEW y \in Line, disk' = LinesWith(y)
  PROVE  /\ IsFiniteSet(Lost)
         /\ \A e \in acked : OnDisk(e) => OnDisk(e)'
         /\ \A e \in Entry : Seen(e) => OnDisk(e)' \/ e \in acked \/ Old(e)
         /\ ~cut => y \in Range(disk')
         /\ disk'[Len(disk')] = IF cut THEN Garbage ELSE y
         /\ disk'[Len(disk')] \in Range(disk')
<1>1. Lost \subseteq acked /\ IsFiniteSet(acked)
  BY DEF Lost, LossInv
<1>2. Garbage \in Line
  BY DEF Line
<1>3. /\ \A e \in Range(disk) :
           e \in Range(disk') \/ (cut /\ e = disk[Len(disk)])
      /\ ~cut => Range(disk') = Range(disk) \cup {y}
      /\ cut => disk'[Len(disk')] = Garbage
      /\ ~cut => disk'[Len(disk')] = y
  BY <1>2, WriteKeeps DEF LogTypes
<1>4. \A e \in acked : OnDisk(e) => OnDisk(e)'
  BY <1>3 DEF OnDisk, LossInv
<1>5. \A e \in Entry : Seen(e) => OnDisk(e)' \/ e \in acked \/ Old(e)
  BY <1>3 DEF OnDisk, LossInv
<1>6. disk' \in Seq(Line) /\ disk' # <<>>
  BY WriteTyped
<1>7. disk'[Len(disk')] \in Range(disk')
  BY <1>6 DEF Range
<1>8. IsFiniteSet(Lost)
  BY <1>1, FS_Subset
<1> QED BY <1>3, <1>4, <1>5, <1>7, <1>8

\* The invariant after a step, from what the step lost and what is cut.
LEMMA LossNext ==
  ASSUME TypeInv, TimeInv, LossInv, [MeteringNext]_meteringVars
  PROVE  LossInv'
<1>0. /\ LogTypes /\ LogSteps /\ TypeInv' /\ TimeInv'
      /\ tears \in Nat /\ acked \subseteq Entry /\ Garbage \notin Entry
  BY NextLog, NextTypeInv, TimeNext, GarbageAssumption DEF TypeInv, LogTypes
<1>1. \A e \in Entry : Old(e) => Old(e)'
  BY OldStays
<1>2. IsFiniteSet(Lost) /\ Cardinality(Lost) \in Nat
  <2>1. Lost \subseteq acked /\ IsFiniteSet(acked)
    BY DEF Lost, LossInv
  <2> QED BY <2>1, FS_Subset, FS_CardinalityType
<1>3. /\ IsFiniteSet(acked)
      /\ Cardinality(Lost) <= tears
      /\ cut => Cardinality(Lost) + 1 <= tears
  BY <1>0, <1>2 DEF LossInv
<1>4. ASSUME UNCHANGED <<disk, cut, recorded, acked, tears>> PROVE LossInv'
  <2>1. Lost' = Lost
    BY <1>4 DEF Lost, OnDisk
  <2>2. cut => /\ disk[Len(disk)] \notin acked
               /\ \A e \in Entry : e = disk[Len(disk)] /\ Seen(e) => Old(e)'
    BY <1>1 DEF LossInv
  <2>3. /\ \A e \in Entry : Seen(e) => OnDisk(e) \/ e \in acked \/ Old(e)'
        /\ \A e \in acked : Seen(e) \/ Old(e)'
    BY <1>0, <1>1 DEF LossInv
  <2> QED BY <1>2, <1>3, <1>4, <2>1, <2>2, <2>3 DEF LossInv, OnDisk, Seen
<1>5. ASSUME NEW p \in Worker, stage[p] = "record", Log(EntryOf(p)) PROVE LossInv'
  <2> DEFINE x == EntryOf(p)
  <2>1. x \in Entry /\ x \in Line /\ Garbage \in Line /\ ~Old(x)
    BY <1>5, EntryTyped, AppendNotOld DEF TypeInv, Line
  <2> HIDE DEF x
  <2>2. CASE Refused \/ AppendUnopened(x)
    BY <1>4, <2>2 DEF Refused, AppendUnopened, logVars
  <2>3. CASE AppendSeen(x)
    <3>1. /\ Seen(x) /\ acked' = acked \cup {x}
          /\ UNCHANGED <<disk, cut, recorded, tears>>
      BY <2>3 DEF AppendSeen
    <3>2. OnDisk(x) \/ x \in acked
      BY <2>1, <3>1 DEF LossInv
    <3>3. Lost' = Lost
      BY <3>1, <3>2 DEF Lost, OnDisk
    <3>4. IsFiniteSet(acked')
      BY <1>3, <3>1, FS_AddElement
    <3>5. cut => disk[Len(disk)] # x
      BY <2>1, <3>1 DEF LossInv
    <3>6. cut => /\ disk[Len(disk)] \notin acked'
                 /\ \A e \in Entry : e = disk[Len(disk)] /\ Seen(e) => Old(e)'
      BY <1>1, <3>1, <3>5 DEF LossInv
    <3>7. /\ \A e \in Entry : Seen(e) => OnDisk(e) \/ e \in acked' \/ Old(e)'
          /\ \A e \in acked' : Seen(e) \/ Old(e)'
      BY <1>0, <1>1, <3>1 DEF LossInv
    <3> QED BY <1>2, <1>3, <3>1, <3>3, <3>4, <3>6, <3>7 DEF LossInv, OnDisk, Seen
  <2>4. CASE AppendWritten(x)
    <3>1. /\ disk' = LinesWith(x) /\ cut' = FALSE /\ tears' = tears
          /\ acked' = acked \cup {x} /\ recorded' = Append(recorded, x)
      BY <2>4 DEF AppendWritten
    <3>2. Range(recorded') = Range(recorded) \cup {x}
      BY <1>0, <2>1, <3>1, AppendRange DEF LogTypes
    <3>3. /\ \A e \in acked : OnDisk(e) => OnDisk(e)'
          /\ \A e \in Entry : Seen(e) => OnDisk(e)' \/ e \in acked \/ Old(e)
          /\ ~cut => x \in Range(disk')
      BY <1>0, <2>1, <3>1, LossWrite
    <3>4. Lost' \subseteq Lost \cup {x} /\ (~cut => Lost' \subseteq Lost)
      BY <3>1, <3>3 DEF Lost, OnDisk
    <3>5. Cardinality(Lost') \in Nat /\ Cardinality(Lost') <= tears
      BY <1>0, <1>2, <1>3, <3>4, LostCount
    <3>6. IsFiniteSet(acked')
      BY <1>3, <3>1, FS_AddElement
    <3>7. /\ \A e \in Entry : Seen(e)' => OnDisk(e)' \/ e \in acked' \/ Old(e)'
          /\ \A e \in acked' : Seen(e)' \/ Old(e)'
      BY <1>0, <1>1, <3>1, <3>2, <3>3 DEF LossInv, Seen
    <3> QED BY <3>1, <3>5, <3>6, <3>7 DEF LossInv
  <2>5. CASE AppendShort(x)
    <3>1. /\ ~Seen(x) /\ cut' = TRUE /\ tears' = tears + 1
          /\ UNCHANGED <<acked, recorded>>
      BY <2>5 DEF AppendShort, TearTail
    <3>2. PICK y \in {x, Garbage} : disk' = LinesWith(y)
      BY <2>5, TearWrites DEF AppendShort
    <3>3. /\ \A e \in acked : OnDisk(e) => OnDisk(e)'
          /\ \A e \in Entry : Seen(e) => OnDisk(e)' \/ e \in acked \/ Old(e)
          /\ disk'[Len(disk')] \in {x, Garbage}
      BY <1>0, <2>1, <3>2, LossWrite
    <3>4. Lost' \subseteq Lost
      BY <3>1, <3>3 DEF Lost
    <3>5. Cardinality(Lost') \in Nat /\ Cardinality(Lost') + 1 <= tears'
      BY <1>0, <1>2, <1>3, <3>1, <3>4, LostCount
    <3>6. x \notin acked
      BY <2>1, <3>1 DEF LossInv
    <3>7. /\ disk'[Len(disk')] \notin acked'
          /\ \A e \in Entry : e = disk'[Len(disk')] /\ Seen(e)' => Old(e)'
      BY <1>0, <3>1, <3>3, <3>6 DEF Seen
    <3>8. /\ \A e \in Entry : Seen(e)' => OnDisk(e)' \/ e \in acked' \/ Old(e)'
          /\ \A e \in acked' : Seen(e)' \/ Old(e)'
      BY <1>0, <1>1, <3>1, <3>3 DEF LossInv, Seen
    <3> QED BY <1>3, <3>1, <3>5, <3>7, <3>8 DEF LossInv, Seen
  <2>6. CASE AppendUnsynced(x)
    <3>1. /\ disk' = LinesWith(x) /\ cut' = FALSE
          /\ UNCHANGED <<acked, recorded, tears>>
      BY <2>6 DEF AppendUnsynced
    <3>2. /\ \A e \in acked : OnDisk(e) => OnDisk(e)'
          /\ \A e \in Entry : Seen(e) => OnDisk(e)' \/ e \in acked \/ Old(e)
      BY <1>0, <2>1, <3>1, LossWrite
    <3>3. Lost' \subseteq Lost
      BY <3>1, <3>2 DEF Lost
    <3>4. Cardinality(Lost') \in Nat /\ Cardinality(Lost') <= tears
      BY <1>0, <1>2, <1>3, <3>3, LostCount
    <3>5. /\ \A e \in Entry : Seen(e)' => OnDisk(e)' \/ e \in acked' \/ Old(e)'
          /\ \A e \in acked' : Seen(e)' \/ Old(e)'
      BY <1>0, <1>1, <3>1, <3>2 DEF LossInv, Seen
    <3> QED BY <1>3, <3>1, <3>4, <3>5 DEF LossInv
  <2> QED BY <1>5, <2>2, <2>3, <2>4, <2>5, <2>6 DEF Log, x
<1>6. CASE CloseRecorder
  BY <1>4, <1>6 DEF CloseRecorder
<1>7. ASSUME Renew, recorded' = Readable(disk'), acked' = acked
      PROVE  /\ \A e \in Entry : OnDisk(e)' \/ e \in acked => Old(e)' \/ e.at > now
             /\ \A e \in Entry : Seen(e)' => OnDisk(e)'
  <2>1. now' = now + 1 /\ now \in Nat /\ \A q \in Worker : ~Busy(q)'
    BY <1>7 DEF Renew, AllReady, Busy, TypeInv, ProcTypes
  <2>2. \A e \in Entry : e.at \in Nat
    BY DEF Entry
  <2>3. disk' \in Seq(Line)
    BY <1>0 DEF TypeInv, LogTypes
  <2>4. Range(recorded') = Range(disk') \ {Garbage}
    BY <1>7, <2>3, ReadableTyped
  <2> QED BY <2>1, <2>2, <2>4 DEF Old, OnDisk, Seen
<1>8. \A e \in Entry : OnDisk(e)' \/ e \in acked => e.at \in Nat /\ e.at <= now
  <2> SUFFICES ASSUME NEW e \in Entry, OnDisk(e)' \/ e \in acked
               PROVE  e.at \in Nat /\ e.at <= now
    OBVIOUS
  <2>0. e.at \in Nat /\ now \in Nat
    BY DEF Entry, TypeInv, ProcTypes
  <2>1. ASSUME NEW p \in Worker, stage[p] = "record", e = EntryOf(p) PROVE e.at <= now
    BY <2>1, EntryTyped DEF TypeInv, TimeInv, Busy
  <2>2. \/ OnDisk(e) \/ Seen(e) \/ e \in acked
        \/ \E p \in Worker : stage[p] = "record" /\ e = EntryOf(p)
    BY <1>0, SourcesNext
  <2> QED BY <2>0, <2>1, <2>2 DEF TimeInv
<1>9. now \in Nat
  BY DEF TypeInv, ProcTypes
<1>10. ASSUME Renew, recorded' = Readable(disk'), acked' = acked
       PROVE  /\ \A e \in Entry : OnDisk(e)' \/ e \in acked => Old(e)'
              /\ \A e \in Entry : Seen(e)' => OnDisk(e)'
  BY <1>7, <1>8, <1>9, <1>10
<1>11. CASE Restart
  <2>1. /\ Renew /\ recorded' = Readable(disk')
        /\ UNCHANGED <<disk, cut, tears, acked>>
    BY <1>11 DEF Restart, Resume
  <2>2. /\ \A e \in Entry : OnDisk(e)' \/ e \in acked => Old(e)'
        /\ \A e \in Entry : Seen(e)' => OnDisk(e)'
    BY <1>10, <2>1
  <2>3. Lost' = Lost
    BY <2>1 DEF Lost, OnDisk
  <2>4. cut => disk[Len(disk)] \in Range(disk)
    BY <1>0 DEF LogTypes, Range
  <2>5. cut => /\ disk[Len(disk)] \notin acked
               /\ \A e \in Entry : e = disk[Len(disk)] => Old(e)'
    BY <2>1, <2>2, <2>4 DEF LossInv, OnDisk
  <2> QED BY <1>0, <1>2, <1>3, <2>1, <2>2, <2>3, <2>5 DEF LossInv
<1>12. ASSUME NEW p \in Worker, CrashAppending(p) PROVE LossInv'
  <2> DEFINE x == EntryOf(p)
  <2>1. x \in Entry /\ x \in Line /\ Garbage \in Line /\ ~Old(x) /\ ~Seen(x)
    BY <1>12, EntryTyped, AppendNotOld DEF CrashAppending, TypeInv, Line
  <2>2. /\ Renew /\ recorded' = Readable(disk') /\ acked' = acked
        /\ TearTail(x) \/ (disk' = LinesWith(x) /\ cut' = FALSE /\ UNCHANGED tears)
    BY <1>12 DEF CrashAppending, Resume
  <2> HIDE DEF x
  <2>3. PICK y \in {x, Garbage} : disk' = LinesWith(y)
    BY <2>2, TearWrites
  <2>4. /\ \A e \in Entry : OnDisk(e)' \/ e \in acked => Old(e)'
        /\ \A e \in Entry : Seen(e)' => OnDisk(e)'
    BY <1>10, <2>2
  <2>5. /\ \A e \in acked : OnDisk(e) => OnDisk(e)'
        /\ disk'[Len(disk')] \in {x, Garbage}
        /\ disk'[Len(disk')] \in Range(disk')
    BY <1>0, <2>1, <2>3, LossWrite
  <2>6. Lost' \subseteq Lost
    BY <2>2, <2>5 DEF Lost
  <2>7. Cardinality(Lost') \in Nat /\ Cardinality(Lost') <= Cardinality(Lost)
    BY <1>2, <2>6, LostCount
  <2>8. Cardinality(Lost') + (IF cut' THEN 1 ELSE 0) <= tears'
    <3>1. CASE TearTail(x)
      <4>1. cut' = TRUE /\ tears' = tears + 1
        BY <3>1 DEF TearTail
      <4> QED BY <1>0, <1>2, <1>3, <2>7, <4>1
    <3>2. CASE cut' = FALSE /\ UNCHANGED tears
      BY <1>0, <1>2, <1>3, <2>7, <3>2
    <3> QED BY <2>2, <3>1, <3>2
  <2>9. x \notin acked
    BY <2>1 DEF LossInv
  <2>10. /\ disk'[Len(disk')] \notin acked'
         /\ \A e \in Entry : e = disk'[Len(disk')] => Old(e)'
    BY <1>0, <2>2, <2>4, <2>5, <2>9 DEF OnDisk
  <2> QED BY <1>0, <1>3, <2>2, <2>4, <2>8, <2>10 DEF LossInv
<1> QED BY <1>0, <1>4, <1>5, <1>6, <1>11, <1>12 DEF LogSteps, logVars

\* However many writes are cut short and whoever appends after them, in this
\* process or in later ones: each costs one acknowledged entry at most
\* (record.go:63-71).
THEOREM LossBoundedHolds == MeteringSpec => []LossBounded
<1>1. TypeInv /\ TimeInv /\ [MeteringNext]_meteringVars => TimeInv'
  BY TimeNext
<1>2. TypeInv /\ TimeInv /\ LossInv /\ [MeteringNext]_meteringVars => LossInv'
  BY LossNext
<1>3. TypeInv /\ LossInv => LossBounded
  <2> SUFFICES ASSUME TypeInv, LossInv PROVE LossBounded
    OBVIOUS
  <2>1. Lost \subseteq acked /\ IsFiniteSet(acked) /\ tears \in Nat
    BY DEF Lost, LossInv, TypeInv, LogTypes
  <2>2. Cardinality(Lost) \in Nat
    BY <2>1, FS_Subset, FS_CardinalityType
  <2>3. Cardinality(Lost) <= tears
    BY <2>1, <2>2 DEF LossInv
  <2> QED BY <2>3 DEF LossBounded, Lost
<1>4. MeteringSpec => [](TypeInv /\ TimeInv /\ LossInv)
  BY <1>1, <1>2, TimeInit, LossInit, TypeInvHolds, PTL DEF MeteringSpec
<1> QED BY <1>3, <1>4, PTL

=============================================================================
