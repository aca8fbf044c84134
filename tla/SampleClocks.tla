----------------------------- MODULE SampleClocks -----------------------------
(***************************************************************************)
(* The nodes that count samples: ImpulseGenerator (src/src/nodes/source),  *)
(* which sounds every so many, and BitCrusher (src/src/nodes/effect),      *)
(* which holds one for so many.  Each by itself, sample by sample.         *)
(* Amplitudes, bit depths and the mix are left out.                        *)
(***************************************************************************)
EXTENDS Naturals

CONSTANTS Intervals, Factors, MaxAge

VARIABLES
  node,
  active, bypassed, oneShot, triggered, hasFired,   (* ImpulseGenerator      *)
  period,          (* intervalSamples, or downsampleFactor                   *)
  sampleCounter,
  holdSample,      (* BitCrusher: the age of the sample it holds             *)
  out,             (* "silent"; "counted" or "triggered" impulses            *)
  gap,             (* history: samples since the last impulse, or reset()    *)
  fired,           (* history: impulses since reset()                        *)
  disturbed        (* history: the period, or one-shot, changed since        *)

mode == <<active, bypassed, oneShot>>
clocksVars == <<node, mode, triggered, hasFired, period, sampleCounter, holdSample, out, gap, fired, disturbed>>

ClocksInit ==
  /\ node \in {"impulse", "crusher"}
  /\ active = (node # "impulse") /\ bypassed = FALSE /\ oneShot = FALSE
  /\ triggered = FALSE /\ hasFired = FALSE
  /\ period = 2 /\ sampleCounter = 0 /\ holdSample = 0
  /\ out = "silent" /\ gap = 0 /\ fired = 0 /\ disturbed = FALSE

-----------------------------------------------------------------------------
(* Faulty variants of definitions below, used by no action.                   *)
LateReached(count) == count > period
KeptOnTrigger == sampleCounter

Reached(count) == count >= period
CounterOnTrigger == 0

AtMost(n, limit) == IF n > limit THEN limit ELSE n

(* process() or generate() of a node that is bypassed or stopped.             *)
SkipSample ==
  /\ ~active \/ bypassed
  /\ out' = "silent"
  /\ UNCHANGED <<node, mode, triggered, hasFired, period, sampleCounter, holdSample, gap, fired, disturbed>>

Impulse(how, counter) ==
  /\ out' = how /\ sampleCounter' = counter /\ hasFired' = TRUE
  /\ gap' = 0 /\ fired' = AtMost(fired + 1, 2) /\ disturbed' = FALSE

NoImpulse(counter) ==
  /\ out' = "silent" /\ sampleCounter' = counter
  /\ gap' = AtMost(gap + 1, MaxAge)
  /\ UNCHANGED <<hasFired, fired, disturbed>>

TriggeredSample == triggered /\ triggered' = FALSE /\ Impulse("triggered", CounterOnTrigger)

CountedSample ==
  /\ ~triggered /\ (oneShot => ~hasFired)
  /\ IF Reached(sampleCounter + 1) THEN Impulse("counted", 0) ELSE NoImpulse(sampleCounter + 1)
  /\ UNCHANGED triggered

SpentSample == ~triggered /\ oneShot /\ hasFired /\ NoImpulse(sampleCounter) /\ UNCHANGED triggered

GenerateSample ==
  /\ node = "impulse" /\ active /\ ~bypassed
  /\ TriggeredSample \/ CountedSample \/ SpentSample
  /\ UNCHANGED <<node, mode, period, holdSample>>

(* BitCrusher: the counter at 0 takes the sample that is held.                *)
CrushSample ==
  /\ node = "crusher" /\ ~bypassed
  /\ holdSample' = IF sampleCounter = 0 THEN 0 ELSE AtMost(holdSample + 1, MaxAge)
  /\ sampleCounter' = IF Reached(sampleCounter + 1) THEN 0 ELSE sampleCounter + 1
  /\ disturbed' = (disturbed /\ sampleCounter # 0)
  /\ UNCHANGED <<node, mode, triggered, hasFired, period, out, gap, fired>>

ResetClocks ==
  /\ sampleCounter' = 0 /\ triggered' = FALSE /\ hasFired' = FALSE /\ holdSample' = 0
  /\ out' = "silent" /\ gap' = 0 /\ fired' = 0 /\ disturbed' = FALSE
  /\ UNCHANGED <<node, mode, period>>

(* The interval is taken as it is, 0 and all; the factor is at least 1.       *)
SetPeriod(n) ==
  /\ node = "crusher" => n > 0
  /\ period' = n /\ disturbed' = TRUE
  /\ UNCHANGED <<node, mode, triggered, hasFired, sampleCounter, holdSample, out, gap, fired>>

SetOneShot(on) ==
  /\ node = "impulse"
  /\ oneShot' = on /\ disturbed' = TRUE
  /\ UNCHANGED <<node, active, bypassed, triggered, hasFired, period, sampleCounter, holdSample, out, gap, fired>>

Trigger ==
  /\ node = "impulse" /\ triggered' = TRUE
  /\ UNCHANGED <<node, mode, hasFired, period, sampleCounter, holdSample, out, gap, fired, disturbed>>

StartStop(on) ==
  /\ node = "impulse" /\ active' = on
  /\ UNCHANGED <<node, bypassed, oneShot, triggered, hasFired, period, sampleCounter, holdSample, out, gap, fired, disturbed>>

SetBypassed(on) ==
  /\ bypassed' = on
  /\ UNCHANGED <<node, active, oneShot, triggered, hasFired, period, sampleCounter, holdSample, out, gap, fired, disturbed>>

ClocksNext ==
  \/ SkipSample \/ GenerateSample \/ CrushSample \/ ResetClocks \/ Trigger
  \/ \E n \in IF node = "impulse" THEN Intervals ELSE Factors : SetPeriod(n)
  \/ \E on \in BOOLEAN : SetOneShot(on) \/ StartStop(on) \/ SetBypassed(on)

-----------------------------------------------------------------------------
hasMoreData == active /\ (~oneShot \/ ~hasFired)

(* The impulses nobody triggered come one interval after the impulse before,  *)
(* triggered or not, stops and bypasses not counted: until the interval is up *)
(* the counter is the age of the last one.  In one-shot mode such an impulse  *)
(* is the first since reset(), and hasMoreData() does not turn false before.  *)
ImpulsesEven ==
  node = "impulse" =>
    /\ ~disturbed /\ (oneShot => ~hasFired) => gap = sampleCounter
    /\ ~disturbed => sampleCounter < AtMost(period, MaxAge) \/ (period = 0 /\ sampleCounter = 0)
    /\ oneShot /\ ~disturbed /\ out = "counted" => fired = 1
    /\ active /\ ~hasMoreData => fired > 0

(* What the crusher puts out is never older than the factor, and the counter  *)
(* knows its age; a new factor counts from the next sample it takes.          *)
HeldIsRecent ==
  node = "crusher" =>
    /\ sampleCounter > 0 => holdSample = sampleCounter - 1
    /\ ~disturbed => sampleCounter < period /\ holdSample < period
=============================================================================
