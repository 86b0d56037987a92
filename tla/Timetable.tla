------------------------------ MODULE Timetable ------------------------------
(***************************************************************************)
(* ScenarioPlan (scenario.py): a scenario is compiled to one stream of     *)
(* actions for each event, an arithmetic progression cut off by the stop   *)
(* or the end; two streams that would write one target at one step are     *)
(* found without enumerating steps; the actions of a window are merged     *)
(* through a heap.  A reference definition enumerates everything.          *)
(*                                                                         *)
(* An event is its type, its step and priority, and the fields of the type; *)
(* its index is its event_id.  Assertions, replays and negative cases are  *)
(* left out, and so are the limits on comparisons and on actions: reaching *)
(* one is an error in place of a plan or of the rest of the actions.       *)
(*                                                                         *)
(* WaveformSampler (waveform.py) gives the value of a waveform at a model  *)
(* step, and the bounds compile computes for it without looking at the     *)
(* steps in between.  Values and phases are integers.  A cycle has Cycle   *)
(* units of phase; sin is a triangle with the same stationary points,      *)
(* rising and falling between the same ones.                               *)
(*                                                                         *)
(* A definition introduced by "Fault:" is the definition after it with a   *)
(* plausible error in it; nothing uses it.                                 *)
(***************************************************************************)
EXTENDS Integers, Sequences, SequencesExt, FiniteSets, FiniteSetsExt

CONSTANTS
  Shapes,       \* for each event_id, events without step and priority (bound)
  FirstSteps, Priorities,
  Windows,      \* <<start_step, end_step>> of iter_actions
  LowValue, HighValue,  \* min and max of the target's row
  LastStep,     \* MAX_STEP
  Quarter       \* units of phase in a quarter of a cycle

ASSUME TimetableAssumption ==
  /\ Quarter \in Nat \ {0}
  /\ Len(Shapes) \in Nat \ {0} /\ LastStep \in Nat /\ FirstSteps \subseteq 0 .. LastStep
  /\ \A w \in Windows : w[1] <= w[2] /\ w[2] <= LastStep

VARIABLES
  events,       \* the scenario
  plan,         \* its state, and the streams in the order of the events
  heap,         \* iter_actions: what to go on with in each stream
  window,
  yielded

timetableVars == <<events, plan, heap, window, yielded>>

TimetableInit ==
  /\ events = <<>> /\ plan = [state |-> "draft", streams |-> <<>>]
  /\ heap = {} /\ window = <<0, 0>> /\ yielded = <<>>

-----------------------------------------------------------------------------
(* Waveforms *)

Cycle == 4 * Quarter
AtMost(a, b) == IF a <= b THEN a ELSE b
Ceiling(a, b) == -((-a) \div b)

\* sin, Quarter times as high.
Sine(phase) == LET p == phase % Cycle IN
  IF p <= Quarter THEN p ELSE IF p <= 3 * Quarter THEN 2 * Quarter - p ELSE p - Cycle

Oscillates(w) == w.kind \in {"SINE", "CHIRP"}
\* A chirp keeps the phase it has reached when its own time is over.
Phase(w, elapsed) ==
  w.phase + IF w.kind = "SINE" THEN w.from * elapsed
            ELSE LET t == AtMost(elapsed, w.steps) IN
                 w.from * t + ((w.to - w.from) * t * t) \div (2 * w.steps)

ValueAt(w, elapsed) ==
  CASE w.kind = "STEP" -> IF elapsed < w.steps THEN w.from ELSE w.to
    [] w.kind = "RAMP" -> IF elapsed >= w.steps THEN w.to
                          ELSE w.from + ((w.to - w.from) * elapsed) \div w.steps
    [] w.kind = "CONSTANT" -> w.from
    [] Oscillates(w) -> w.offset + w.amplitude * Sine(Phase(w, elapsed))

\* The stationary points the phase goes through: a crest at a quarter of a
\* cycle, a trough at three.
Passes(w, duration, point) ==
  Ceiling(Phase(w, 0) - point, Cycle) <= (Phase(w, duration) - point) \div Cycle
Ends(w, duration) == {ValueAt(w, 0), ValueAt(w, duration)}
\* Fault: the values at both ends are enough.
ExtremaOfEnds(w, duration) == Ends(w, duration)
Extrema(w, duration) ==
  Ends(w, duration) \cup
  (IF ~Oscillates(w) THEN {}
   ELSE {w.offset + side * w.amplitude * Quarter : side \in
           {s \in {1, -1} : Passes(w, duration, IF s = 1 THEN Quarter ELSE 3 * Quarter)}})

\* Ten samples in each cycle of the highest frequency.
Highest(w, duration) ==
  CASE w.kind = "SINE" -> w.from
    [] w.kind = "CHIRP" -> Max({w.from, w.from + ((w.to - w.from) * AtMost(duration, w.steps))
                                                 \div w.steps})
    [] OTHER -> 0
WaveformFits(w, duration, sampling, low, high) ==
  /\ Cycle >= 10 * Highest(w, duration) * sampling
  /\ \A v \in Extrema(w, duration) : low <= v /\ v <= high

-----------------------------------------------------------------------------
(* The plan *)

Ids == DOMAIN events
OfType(type) == {e \in Ids : events[e].type = type}

\* _key
Key(e) == <<events[e].at, events[e].priority, e>>
Earlier(k, l) == \/ k[1] < l[1]
                 \/ k[1] = l[1] /\ k[2] < l[2]
                 \/ k[1] = l[1] /\ k[2] = l[2] /\ k[3] < l[3]
Sorted == SetToSortSeq(Ids, LAMBDA d, e : Earlier(Key(d), Key(e)))
\* Of the plan: the start of a sender, its stop, the end.
StartOf(sender) == {e \in OfType("PERIODIC_START") : events[e].sender = sender}
StopOf(sender) == {e \in OfType("PERIODIC_STOP") : events[e].sender = sender}
EndCleanup == OfType("END_CLEANUP")

Regular ==
  /\ \A e \in EndCleanup, d \in Ids : d = e \/ Earlier(Key(d), Key(e))
  /\ \A e \in OfType("PERIODIC_START") :
       /\ StartOf(events[e].sender) = {e}
       /\ events[e].at + (events[e].count - 1) * events[e].period <= LastStep
  /\ \A e \in OfType("PERIODIC_STOP") :
       /\ StopOf(events[e].sender) = {e}
       /\ \E d \in StartOf(events[e].sender) :
            Earlier(Key(d), Key(e)) /\ events[d].link = events[e].link
  /\ \A e \in OfType("WAVEFORM") :
       /\ events[e].at + events[e].duration <= LastStep
       /\ WaveformFits(events[e].wave, events[e].duration, events[e].period, LowValue, HighValue)

-----------------------------------------------------------------------------
(* Streams *)

\* _Stream
Stream(e, first, period, count, base) ==
  [id |-> e, first |-> first, period |-> period, count |-> count, base |-> base]
LastOf(s) == s.first + (s.count - 1) * s.period
ActionOf(s, index) == [step |-> s.first + index * s.period, id |-> s.id,
                       ordinal |-> s.base + index]

\* Fault: a stream with nothing left stays, empty.
ClipEmpty(s, boundary) ==
  {[s EXCEPT !.count = Max({0, AtMost(s.count,
                                      (boundary[1] - 1 - s.first) \div s.period + 1)})]}
\* Fault: the actions at the step of the boundary go with it, whatever their
\* order.
ClipAtStep(s, boundary) ==
  LET last == boundary[1] - 1
      count == AtMost(s.count, (last - s.first) \div s.period + 1) IN
  IF count <= 0 THEN {} ELSE {[s EXCEPT !.count = count]}
\* _clip: an action at the step of the boundary stays if it comes before it.
Clip(s, boundary) ==
  LET before == Earlier(<<0, events[s.id].priority, s.id>>, <<0, boundary[2], boundary[3]>>)
      last == IF before THEN boundary[1] ELSE boundary[1] - 1
      count == AtMost(s.count, (last - s.first) \div s.period + 1) IN
  IF count <= 0 THEN {} ELSE {[s EXCEPT !.count = count]}

\* The streams of one event before they are cut off: a waveform whose time is
\* not a multiple of its sampling has a last sample of its own.
Raw(e) ==
  LET v == events[e] IN
  CASE v.type = "PERIODIC_START" -> <<Stream(e, v.at, v.period, v.count, 0)>>
    [] v.type = "WAVEFORM" ->
         LET count == v.duration \div v.period + 1 IN
         <<Stream(e, v.at, v.period, count, 0)>> \o
         (IF v.duration % v.period = 0 THEN <<>>
          ELSE <<Stream(e, v.at + v.duration, 1, 1, count)>>)
    [] OTHER -> <<Stream(e, v.at, 1, 1, 0)>>
\* The end, or the stop if that comes first.
Boundary(e) ==
  LET marks == {Key(d) : d \in EndCleanup \cup
                  (IF events[e].type = "PERIODIC_START" THEN StopOf(events[e].sender) ELSE {})} IN
  {k \in marks : \A l \in marks : l = k \/ Earlier(k, l)}
Cut(s) == IF events[s.id].type = "END_CLEANUP" \/ Boundary(s.id) = {} THEN <<s>>
          ELSE SetToSeq(UNION {Clip(s, k) : k \in Boundary(s.id)})
Streams == FlattenSeq([i \in DOMAIN Sorted |->
             FlattenSeq([j \in DOMAIN Raw(Sorted[i]) |-> Cut(Raw(Sorted[i])[j])])])

-----------------------------------------------------------------------------
(* Collisions *)

\* math.gcd
Gcd(m, n) == Max({d \in 1 .. AtMost(m, n) : m % d = 0 /\ n % d = 0})
\* Fault: the solution is not moved into the range of both streams.
MeetsAnywhere(s, t) ==
  LET high == AtMost(LastOf(s), LastOf(t)) IN
  /\ Max({s.first, t.first}) <= high
  /\ (t.first - s.first) % Gcd(s.period, t.period) = 0
\* _intersection: the first common step of two progressions, if it is one of
\* both.
Meets(s, t) ==
  LET low == Max({s.first, t.first})
      high == AtMost(LastOf(s), LastOf(t))
      divisor == Gcd(s.period, t.period)
      difference == t.first - s.first
      modulus == t.period \div divisor
      k == CHOOSE n \in 0 .. (modulus - 1) :
             ((s.period \div divisor) * n - difference \div divisor) % modulus = 0
      stride == s.period * modulus
      start == s.first + s.period * k
      first == start + Max({0, (low - start + stride - 1) \div stride}) * stride IN
  /\ low <= high /\ difference % divisor = 0 /\ first <= high

\* _collisions: the streams that write a target, by their first steps; each is
\* compared with those before it that are not over.
Writers(ss, target) == SetToSortSeq({i \in DOMAIN ss : target \in events[ss[i].id].targets},
                         LAMBDA i, j : \/ ss[i].first < ss[j].first
                                       \/ ss[i].first = ss[j].first /\ i < j)
Sweep(ss, target) ==
  FoldLeft(LAMBDA acc, i :
             LET active == {j \in acc.active : LastOf(ss[j]) >= ss[i].first} IN
             [active |-> active \cup {i},
              found |-> acc.found \/ \E j \in active : Meets(ss[i], ss[j])],
           [active |-> {}, found |-> FALSE], Writers(ss, target))
Collide(ss) == \E target \in UNION {events[e].targets : e \in Ids} : Sweep(ss, target).found

-----------------------------------------------------------------------------
(* Steps *)

AddEvent ==
  /\ plan.state = "draft" /\ Len(events) < Len(Shapes)
  /\ \E shape \in Shapes[Len(events) + 1], at \in FirstSteps, priority \in Priorities :
       events' = Append(events, [at |-> at, priority |-> priority] @@ shape)
  /\ UNCHANGED <<plan, heap, window, yielded>>

Compile ==
  /\ plan.state = "draft" /\ events # <<>>
  /\ plan' = IF ~Regular THEN [state |-> "irregular", streams |-> <<>>]
             ELSE IF Collide(Streams) THEN [state |-> "collision", streams |-> <<>>]
             ELSE [state |-> "compiled", streams |-> Streams]
  /\ UNCHANGED <<events, heap, window, yielded>>

\* iter_actions: the first action of each stream in the window.
Inspect(w) ==
  /\ plan.state = "compiled" /\ plan' = [plan EXCEPT !.state = "inspected"]
  /\ window' = w
  /\ LET entry(i) ==
           LET s == plan.streams[i] IN
           [number |-> i,
            index |-> Max({0, (w[1] - s.first + s.period - 1) \div s.period}),
            last |-> AtMost(s.count - 1, (w[2] - s.first) \div s.period)] IN
     heap' = {h \in {entry(i) : i \in DOMAIN plan.streams} : h.index <= h.last}
  /\ UNCHANGED <<events, yielded>>

HeapKey(h) ==
  LET s == plan.streams[h.number] IN
  <<ActionOf(s, h.index).step, events[s.id].priority, s.id, h.number>>
\* Fault: the heap is ordered by steps alone.
AboveByStep(g, h) == \/ HeapKey(g)[1] < HeapKey(h)[1]
                     \/ HeapKey(g)[1] = HeapKey(h)[1] /\ g.number >= h.number
Above(g, h) == \/ Earlier(HeapKey(g), HeapKey(h))
               \/ ~Earlier(HeapKey(h), HeapKey(g)) /\ g.number <= h.number
\* One yield: the next action of the stream takes the place of this one.
Yield ==
  /\ heap # {}
  /\ LET top == CHOOSE h \in heap : \A g \in heap : Above(h, g) IN
     /\ yielded' = Append(yielded, ActionOf(plan.streams[top.number], top.index))
     /\ heap' = (heap \ {top}) \cup
                (IF top.index < top.last THEN {[top EXCEPT !.index = @ + 1]} ELSE {})
  /\ UNCHANGED <<events, plan, window>>

TimetableNext == AddEvent \/ Compile \/ (\E w \in Windows : Inspect(w)) \/ Yield
TimetableSpec == TimetableInit /\ [][TimetableNext]_timetableVars

-----------------------------------------------------------------------------
(* The reference: every step of every event, one by one *)

Meant(e) ==
  LET v == events[e]
      steps == CASE v.type = "PERIODIC_START" -> {v.at + i * v.period : i \in 0 .. v.count - 1}
                 [] v.type = "WAVEFORM" -> {n \in v.at .. v.at + v.duration :
                                              (n - v.at) % v.period = 0 \/ n = v.at + v.duration}
                 [] OTHER -> {v.at}
      cuts == (EndCleanup \ {e}) \cup
              (IF v.type = "PERIODIC_START" THEN StopOf(v.sender) ELSE {}) IN
  {n \in steps : \A d \in cuts : Earlier(<<n, v.priority, e>>, Key(d))}
MeantActions == UNION {{[step |-> n, id |-> e, ordinal |-> Cardinality({m \in Meant(e) : m < n})] :
                          n \in Meant(e)} : e \in Ids}
Compiled == plan.state \in {"compiled", "inspected"}
TwoWriters == \E d, e \in Ids : d < e /\ events[d].targets \cap events[e].targets # {}
                                /\ Meant(d) \cap Meant(e) # {}

\* Types of the plan and its streams; the heap holds one action of a stream.
TimetableTypeOK ==
  /\ plan.state \in {"draft", "irregular", "collision", "compiled", "inspected"}
  /\ \A i \in DOMAIN plan.streams : plan.streams[i].id \in Ids /\ plan.streams[i].count > 0
  /\ \A g, h \in heap : g.number = h.number => g = h
  /\ Len(events) <= Len(Shapes)

\* ScenarioPlan.compile, _clip: the streams are the actions the scenario means:
\* none is missing, none is there that a stop or the end has cut off, none
\* twice, although nobody goes through the steps.
PlannedIsMeant ==
  LET ss == plan.streams
      of(i) == {ActionOf(ss[i], n) : n \in 0 .. ss[i].count - 1} IN
  Compiled => /\ UNION {of(i) : i \in DOMAIN ss} = MeantActions
              /\ \A i, j \in DOMAIN ss : i # j => of(i) \cap of(j) = {}

\* _collisions, _intersection: a plan is refused for a collision exactly if two
\* events do write one target at one step.
CollisionsAreReal ==
  /\ Compiled => ~TwoWriters
  /\ plan.state = "collision" => TwoWriters

\* iter_actions: what is yielded is the timetable of the window from its start
\* on, in the order of steps, priorities and event ids.
WindowInOrder ==
  plan.state = "inspected" =>
    LET inside == {a \in MeantActions : window[1] <= a.step /\ a.step <= window[2]}
        place(a) == <<a.step, events[a.id].priority, a.id>>
        all == SetToSortSeq(inside, LAMBDA a, b : Earlier(place(a), place(b))) IN
    /\ IsPrefix(yielded, all)
    /\ heap = {} => yielded = all

\* WaveformSampler: a waveform that was compiled has no value outside the range
\* of its target at any step, also at those that are not sampled.
WaveformInRange ==
  Compiled => \A e \in OfType("WAVEFORM"), n \in 0 .. LastStep :
    n <= events[e].duration => LowValue <= ValueAt(events[e].wave, n)
                               /\ ValueAt(events[e].wave, n) <= HighValue

\* What is computed without enumerating the steps is what enumerating gives.
TimetableSound ==
  TimetableTypeOK /\ PlannedIsMeant /\ CollisionsAreReal /\ WindowInOrder /\ WaveformInRange
=============================================================================
