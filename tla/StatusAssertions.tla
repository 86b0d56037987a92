-------------------------- MODULE StatusAssertions --------------------------
(***************************************************************************)
(* WAIT and ASSERT of a scenario: the Status samples a source retains      *)
(* (StatusObservationReader), the handles opened on them                   *)
(* (StatusScenarioAssertions, input_simulator/scenario_assertions.py) and  *)
(* the comparison windows behind a handle (AssertionWindow,                *)
(* input_simulator/assertion.py).  Samples arrive out of order or never,   *)
(* the model may be reset between them, and a poll names a model step the  *)
(* driver read some time before.  What a sample says of an assertion is    *)
(* whether its value matches.  One scenario driver; feedback is taken by   *)
(* the thread that owns the source, so the two alternate.                  *)
(***************************************************************************)
EXTENDS Naturals, Sequences, FiniteSets, SequencesExt

CONSTANTS
  Specs,         \* compiled assertions, each begun at most once
  Handles,       \* the sets of assertions begun together
  ModeOf,        \* [Specs -> {"WAIT", "ASSERT", "EVENTUALLY"}]
  CountOf,       \* [Specs -> sample_count]
  TimeoutOf,     \* [Specs -> timeout_steps]
  Validity,      \* valid_for_ms of a Status
  ReaderRecords, \* max_records of the reader
  Records,       \* max_records of the assertions
  None, MaxSamples, MaxStep, MaxClock  \* bounds, for finite checking

ASSUME AssertionAssumption ==
  /\ Handles \subseteq SUBSET Specs
  /\ ModeOf \in [Specs -> {"WAIT", "ASSERT", "EVENTUALLY"}]
  /\ CountOf \in [Specs -> Nat \ {0}] /\ TimeoutOf \in [Specs -> Nat \ {0}]
  /\ {Validity, ReaderRecords, Records, MaxSamples, MaxStep, MaxClock} \subseteq Nat

VARIABLES
  monotonic,      \* the source's monotonic clock
  samples,   \* the reader's records, in the order of the receiver's sequence
  arrived,   \* sequence numbers that arrived
  highest,   \* _model_step_floor
  latest,    \* the Status the source goes by: [seq, step, until], or None
  overflow,  \* the reader's permanent failure
  entries,   \* [begun handle -> entry]
  recorded   \* comparisons recorded so far

assertionVars == <<monotonic, samples, arrived, highest, latest, overflow, entries, recorded>>

Steps == 0 .. MaxStep
LastSequence == IF samples = <<>> THEN 0 ELSE Last(samples).seq

\* The source may have had a Status before the reader was attached to it.
AssertionInit ==
  /\ latest \in {None, [seq |-> 0, step |-> 0, until |-> Validity]}
  /\ monotonic = 0 /\ samples = <<>> /\ arrived = {} /\ highest = 0
  /\ overflow = FALSE /\ entries = <<>> /\ recorded = 0

----------------------------------------------------------------------------
(* The source and its reader                                               *)

\* Fault: a sample overtaken by a newer one is kept at the end.
CapturesAny(n) == ~overflow
\* A sample overtaken by a newer one is not kept, and nothing is once the
\* history was too short.
Captures(n) == ~overflow /\ n > LastSequence

Status(n, step, good) ==
  /\ n \notin arrived /\ arrived' = arrived \cup {n}
  /\ highest' = IF step > highest THEN step ELSE highest
  /\ latest' = IF latest = None \/ n > latest.seq
               THEN [seq |-> n, step |-> step, until |-> monotonic + Validity] ELSE latest
  /\ LET full == Len(samples) >= ReaderRecords
     IN /\ overflow' = (overflow \/ (Captures(n) /\ full))
        /\ samples' = IF Captures(n) /\ ~full
                      THEN Append(samples, [seq |-> n, step |-> step, good |-> good,
                                            until |-> monotonic + Validity])
                      ELSE samples
  /\ UNCHANGED <<monotonic, entries, recorded>>

\* ObservedModelClock.require_step and StatusObservationReader.snapshot
Readable(step) ==
  /\ latest # None /\ monotonic < latest.until /\ latest.step >= highest
  /\ latest.step = step /\ ~overflow

Pass == monotonic < MaxClock /\ monotonic' = monotonic + 1
        /\ UNCHANGED <<samples, arrived, highest, latest, overflow, entries, recorded>>

----------------------------------------------------------------------------
(* A window: [state, run, last], fed the samples one by one                *)

Window == [state |-> "PENDING", run |-> 0, last |-> 0]
Deadline(s, start) == start + TimeoutOf[s]

\* A handle that fails stops where it is; the rest of the samples is not read.
Failing(e, why) == [e EXCEPT !.result = why]

\* Fault: a sample that does not match leaves the run as it is.
ComparedLoosely(s, w, x) ==
  [state |-> IF s \notin x.good /\ ModeOf[s] = "ASSERT" THEN "MISMATCH"
             ELSE IF s \in x.good /\ w.run + 1 >= CountOf[s] THEN "MATCHED" ELSE "PENDING",
   run |-> w.run + (IF s \in x.good THEN 1 ELSE 0), last |-> x.step]

Compared(s, w, x) ==
  LET run == IF s \in x.good THEN w.run + 1 ELSE 0
  IN [state |-> CASE s \notin x.good /\ ModeOf[s] = "ASSERT" -> "MISMATCH"
                  [] run >= CountOf[s] -> "MATCHED"
                  [] OTHER -> "PENDING",
      run |-> run, last |-> x.step]

\* AssertionWindow.observe, for one pending window of the entry
Observe(e, s, x) ==
  LET w == e.windows[s]
      next == Compared(s, w, x)
  IN CASE e.result # None \/ w.state # "PENDING" -> e
       [] e.result = None /\ w.state = "PENDING"
            /\ recorded + e.count + Cardinality(DOMAIN entries) >= Records
            -> Failing(e, "BUFFER_FULL")
       [] e.result = None /\ w.state = "PENDING"
            /\ recorded + e.count + Cardinality(DOMAIN entries) < Records
            -> IF x.step < w.last \/ x.step < e.start THEN Failing(e, "SCHEMA")
               ELSE [e EXCEPT !.windows[s] = next, !.count = @ + 1,
                              !.result = IF next.state = "MISMATCH" THEN "MISMATCH"
                                         ELSE @]

\* One retained sample for all windows of the handle
Feed(e, x) ==
  IF e.result # None THEN e
  ELSE IF monotonic >= x.until THEN Failing(e, "EXPIRED")
  ELSE FoldSeq(LAMBDA s, f : Observe(f, s, x), e, Reverse(SetToSeq(DOMAIN e.windows)))

\* Fault: every retained sample is read, also those of before the handle.
UnreadAll(e) == samples
Unread(e) == SelectSeq(samples, LAMBDA x : x.seq > e.seen)

\* Fault: the step of the deadline still counts.
LateAfter(e, step) == \E s \in DOMAIN e.windows :
                        e.windows[s].state = "PENDING" /\ step > Deadline(s, e.start)
Late(e, step) == \E s \in DOMAIN e.windows :
                   e.windows[s].state = "PENDING" /\ step >= Deadline(s, e.start)

\* What all samples of one poll make of the handle.
Read(e, step) ==
  LET fed == FoldSeq(LAMBDA x, f : Feed(f, x), e, Reverse(Unread(e)))
      all == \A s \in DOMAIN fed.windows : fed.windows[s].state = "MATCHED"
  IN IF fed.result # None THEN fed
     ELSE [fed EXCEPT
            !.seen = LastSequence,
            !.windows = [s \in DOMAIN @ |-> IF @[s].state = "PENDING"
                                            THEN [@[s] EXCEPT !.last = step] ELSE @[s]],
            !.result = IF all THEN "COMPLETE" ELSE None]

----------------------------------------------------------------------------
(* StatusScenarioAssertions.begin, begin_assertions and poll               *)

Begin(h, step) ==
  /\ h \notin DOMAIN entries /\ Readable(step)
  /\ \A g \in DOMAIN entries : g \cap h = {}
  /\ recorded + Cardinality(DOMAIN entries) + 1 <= Records
  /\ entries' = entries @@ (h :>
       [start |-> step, from |-> LastSequence, seen |-> LastSequence, count |-> 0,
        windows |-> [s \in h |-> Window], result |-> None])
  /\ UNCHANGED <<monotonic, samples, arrived, highest, latest, overflow, recorded>>

\* Anything wrong ends the handle; a verdict is never taken back.
Poll(h, step) ==
  LET e == entries[h]
      f == CASE ~Readable(step) -> Failing(e, "STATUS")
             [] Readable(step) /\ Late(e, step) -> Failing(e, "TIMEOUT")
             [] Readable(step) /\ ~Late(e, step) -> Read(e, step)
  IN /\ h \in DOMAIN entries /\ e.result = None
     /\ entries' = [entries EXCEPT ![h] = [f EXCEPT !.count = 0]]
     /\ recorded' = recorded + f.count
     /\ UNCHANGED <<monotonic, samples, arrived, highest, latest, overflow>>

AssertionNext ==
  \/ Pass
  \/ \E n \in 1 .. MaxSamples, step \in Steps, good \in SUBSET Specs : Status(n, step, good)
  \/ \E h \in Handles, step \in Steps : Begin(h, step) \/ Poll(h, step)

AssertionSpec == AssertionInit /\ [][AssertionNext]_assertionVars

----------------------------------------------------------------------------
(* Properties                                                              *)

\* The histories keep their shape and their bounds.
AssertionTypeOK ==
  /\ Len(samples) <= ReaderRecords /\ recorded + Cardinality(DOMAIN entries) <= Records
  /\ \A i, j \in DOMAIN samples : i < j => samples[i].seq < samples[j].seq
  /\ \A h \in DOMAIN entries :
       entries[h].seen \in 0 .. MaxSamples /\ entries[h].from <= entries[h].seen

\* The samples a handle was begun for: those of a later sequence.
Evidence(e) == SelectSeq(samples, LAMBDA x : x.seq > e.from)
GoodRun(xs, s, k) == \A i \in (k + 1 - CountOf[s]) .. k : i \in DOMAIN xs /\ s \in xs[i].good

\* A handle is told COMPLETE only on the evidence of the retained samples: for
\* each assertion sample_count of them in a row matched, inside its window, in
\* the order of the model's steps, and with ASSERT none before them missed.
CompleteIsShown ==
  \A h \in DOMAIN entries :
    entries[h].result = "COMPLETE" =>
      \A s \in h :
        LET e == entries[h]
            xs == Evidence(e)
        IN \E k \in CountOf[s] .. Len(xs) :
             /\ GoodRun(xs, s, k)
             /\ \A i \in 1 .. k :
                  /\ xs[i].step \in e.start .. (Deadline(s, e.start) - 1)
                  /\ i > 1 => xs[i - 1].step <= xs[i].step
                  /\ ModeOf[s] = "ASSERT" => s \in xs[i].good

\* A mismatch is told only of a retained sample that contradicts an ASSERT
\* before the assertion had matched.
MismatchIsShown ==
  \A h \in DOMAIN entries :
    entries[h].result = "MISMATCH" =>
      \E s \in h : /\ ModeOf[s] = "ASSERT"
                   /\ \E i \in DOMAIN Evidence(entries[h]) :
                        /\ s \notin Evidence(entries[h])[i].good
                        /\ \A k \in 1 .. i - 1 : ~GoodRun(Evidence(entries[h]), s, k)

\* While a handle is open no retained sample it read is beyond the step of the
\* Status it was polled with: the deadline cannot pass unnoticed inside a poll.
ReadWithinStep ==
  \A h \in DOMAIN entries :
    LET e == entries[h]
    IN e.result = None => \A i \in DOMAIN samples :
         samples[i].seq \in e.from + 1 .. e.seen
         => \A s \in h : samples[i].step < Deadline(s, e.start)

\* A verdict rests on the samples: for COMPLETE, for a mismatch and for a deadline.
AssertionSound == AssertionTypeOK /\ CompleteIsShown /\ MismatchIsShown /\ ReadWithinStep
============================================================================
