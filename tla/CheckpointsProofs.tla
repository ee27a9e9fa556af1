-------------------------- MODULE CheckpointsProofs --------------------------
(***************************************************************************)
(* No interval of a container gets two peaks and no restored history is    *)
(* lost, for any number of VPAs, workers, usages and restarts, and any     *)
(* length of the interval.                                                 *)
(*                                                                         *)
(* The first is not inductive: a restart turns what is stored into what is *)
(* restored.  IInv adds when peaks end.  Those restored ended when the    *)
(* process started, those stored or about to be have ended now, a process's*)
(* own end at least one interval after its start, and the only one of them *)
(* that may not have ended yet is the one a checkpoint leaves out.         *)
(***************************************************************************)
EXTENDS CheckpointsProperties, FiniteSetTheorems, SequenceTheorems, TLAPS

Separated(S) == \A p, q \in S : p.end <= q.end => p = q \/ p.end + Interval <= q.end

EndBy(S, t) == \A p \in S : p.end <= t

\* What one container and its aggregation look like.
Own(c, S, t) ==
    /\ c.windowEnd = 0 => S = {}
    /\ c.windowEnd # 0 =>
        /\ t + Interval <= c.windowEnd
        /\ {p \in S : p.end = c.windowEnd} = {[end |-> c.windowEnd, usage |-> MaxPeak(c)]}
    /\ \A p \in S : t + Interval <= p.end /\ p.end <= c.windowEnd
    /\ Separated(S)

OwnPeaks == \A v \in VPAs : Own(containers[v], aggs[v], started)

StoredPeaks ==
    \A v \in VPAs : stored[v] # None =>
        EndBy(stored[v].peaks, now) /\ Separated(stored[v].peaks)

RestoredPeaks ==
    \A v \in VPAs : tracked[v] # None /\ tracked[v].initial # None =>
            EndBy(tracked[v].initial.peaks, started) /\ Separated(tracked[v].initial.peaks)

HeldPeaks ==
    \A w \in Workers : hands[w] # None =>
        /\ phase = "store" /\ tracked[hands[w].vpa] # None
        /\ EndBy(hands[w].saved.peaks, now) /\ Separated(hands[w].saved.peaks)

QueueTracked == phase = "store" => \A k \in 1..Len(queue) : tracked[queue[k]] # None

IInv == TypeOK /\ OwnPeaks /\ StoredPeaks /\ RestoredPeaks /\ HeldPeaks /\ QueueTracked

\* The end of the window of a sample lies within one interval after it.
LEMMA WindowLemma ==
    ASSUME NEW c \in Container, NEW ts \in Nat
    PROVE  /\ Window(c, ts) \in Nat
           /\ ts < Window(c, ts)
           /\ c.windowEnd # 0 /\ ts < c.windowEnd => Window(c, ts) = c.windowEnd
           /\ c.windowEnd = 0 => Window(c, ts) = ts + Interval
           /\ c.windowEnd # 0 /\ c.windowEnd <= ts =>
                c.windowEnd + Interval <= Window(c, ts) /\ Window(c, ts) <= ts + Interval
<1> DEFINE last == IF c.windowEnd = 0 THEN ts ELSE c.windowEnd
           d == ts - last
           k == d \div Interval
<1>1. Interval \in Nat \ {0} /\ last \in Nat
  BY CheckpointsAssumption DEF CheckpointsAssumption, Container
<1>2. CASE ts < last
  <2>1. Window(c, ts) = last
    BY <1>2 DEF Window
  <2> QED
    BY <1>1, <1>2, <2>1
<1>3. CASE last <= ts
  <2>1. d \in Nat
    BY <1>1, <1>3
  <2> HIDE DEF d
  <2>2. k \in Nat /\ Interval * k <= d /\ d < Interval * (k + 1)
    BY <1>1, <2>1
  <2>3. Interval * (k + 1) = Interval * k + Interval /\ Interval * k \in Nat
    BY <1>1, <2>2
  <2>4. Window(c, ts) = last + Interval * (k + 1)
    <3>1. ~(ts < last)
      BY <1>1, <1>3
    <3> QED
      BY <3>1 DEF Window, d
  <2>5. d = ts - last
    BY DEF d
  <2>6. Interval * k \in Nat /\ (c.windowEnd # 0 => last = c.windowEnd) /\ (c.windowEnd = 0 => last = ts)
    BY <2>3
  <2> DEFINE m == Interval * k
  <2>7. m \in Nat /\ m <= d /\ d < m + Interval /\ Window(c, ts) = last + (m + Interval)
    BY <2>2, <2>3, <2>4
  <2>8. c.windowEnd = 0 => k = 0
    <3> SUFFICES ASSUME c.windowEnd = 0 PROVE k = 0
      OBVIOUS
    <3>1. d = 0
      BY <1>1, <2>5, <2>6
    <3> QED
      BY <1>1, <2>2, <3>1
  <2>9. c.windowEnd = 0 => m = 0
    BY <1>1, <2>8
  <2> HIDE DEF m, k, last
  <2> QED
    BY <1>1, <1>3, <2>1, <2>5, <2>6, <2>7, <2>9
<1> QED
  BY <1>1, <1>2, <1>3

\* What a VPA's checkpoint merges has one peak per interval, restored and own.
LEMMA MergedLemma ==
    ASSUME IInv, NEW v \in VPAs, tracked[v] # None
    PROVE  /\ Merged(v) \subseteq Peaks
           /\ Separated(Merged(v))
           /\ tracked[v].initial # None => tracked[v].initial.peaks \cap aggs[v] = {}
<1>1. /\ tracked[v] \in Vpa /\ aggs[v] \subseteq Peaks
      /\ Interval \in Nat \ {0} /\ started \in Nat
  BY CheckpointsAssumption DEF IInv, TypeOK, CheckpointsAssumption
<1>2. Own(containers[v], aggs[v], started)
  BY DEF IInv, OwnPeaks
<1>3. CASE tracked[v].initial = None
  BY <1>1, <1>2, <1>3 DEF Merged, Own
<1>4. CASE tracked[v].initial # None
  <2> DEFINE R == tracked[v].initial.peaks
  <2>1. R \subseteq Peaks /\ Merged(v) = aggs[v] \cup R
    BY <1>1, <1>4 DEF Vpa, Checkpoint, Merged
  <2>2. EndBy(R, started) /\ Separated(R)
    BY <1>4 DEF IInv, RestoredPeaks
  <2> HIDE DEF R
  <2>3. \A p \in R, q \in aggs[v] : p.end + Interval <= q.end /\ ~(q.end <= p.end) /\ p # q
    <3> SUFFICES ASSUME NEW p \in R, NEW q \in aggs[v]
                 PROVE  p.end + Interval <= q.end /\ ~(q.end <= p.end) /\ p # q
      OBVIOUS
    <3>1. p.end \in Nat /\ q.end \in Nat /\ p.end <= started /\ started + Interval <= q.end
      BY <1>1, <1>2, <2>1, <2>2 DEF Peaks, EndBy, Own
    <3> QED
      BY <1>1, <3>1
  <2>4. Separated(Merged(v))
    BY <1>2, <2>1, <2>2, <2>3 DEF Separated, Own
  <2>5. R \cap aggs[v] = {}
    BY <2>3
  <2> QED
    BY <1>1, <2>1, <2>4, <2>5 DEF R
<1> QED
  BY <1>3, <1>4

\* A checkpoint holds peaks of intervals that have ended, one each.
LEMMA SavedLemma ==
    ASSUME IInv, NEW v \in VPAs, tracked[v] # None
    PROVE  /\ Saved(v) \in Checkpoint
           /\ EndBy(Saved(v).peaks, now)
           /\ Separated(Saved(v).peaks)
<1>1. /\ aggs[v] \subseteq Peaks /\ containers[v] \in Container /\ tracked[v] \in Vpa
      /\ Interval \in Nat \ {0} /\ now \in Nat /\ started \in Nat /\ started <= now
      /\ containers[v].windowEnd <= now + Interval
  BY CheckpointsAssumption DEF IInv, TypeOK, CheckpointsAssumption
<1>2. Own(containers[v], aggs[v], started)
  BY DEF IInv, OwnPeaks
<1>3. Merged(v) \subseteq Peaks /\ Separated(Merged(v))
  BY MergedLemma
<1>4. Saved(v).peaks = Merged(v) \ Current(v)
  BY DEF Saved
<1>5. ASSUME NEW p \in aggs[v], p \notin Current(v)
      PROVE  p.end <= now
  <2>1. p.end \in Nat /\ p.end <= containers[v].windowEnd /\ containers[v].windowEnd \in Nat
    BY <1>1, <1>2, <1>5 DEF Peaks, Own, Container
  <2>2. containers[v].windowEnd # 0
    BY <1>2, <1>5 DEF Own
  <2> DEFINE c == [end |-> containers[v].windowEnd, usage |-> MaxPeak(containers[v])]
  <2>3. {r \in aggs[v] : r.end = containers[v].windowEnd} = {c}
    BY <1>2, <2>2 DEF Own
  <2>4. CASE p.end = containers[v].windowEnd
    <3>1. p = c
      BY <1>5, <2>3, <2>4
    <3>2. ~(now < containers[v].windowEnd)
      BY <1>5, <3>1 DEF Current
    <3> QED
      BY <1>1, <2>1, <2>4, <3>2
  <2>5. CASE p.end # containers[v].windowEnd
    <3>1. c \in aggs[v] /\ c.end = containers[v].windowEnd
      BY <2>3
    <3>2. p.end + Interval <= containers[v].windowEnd
      BY <1>2, <1>5, <2>1, <2>5, <3>1 DEF Own, Separated
    <3> QED
      BY <1>1, <2>1, <3>2
  <2> QED
    BY <2>4, <2>5
<1>6. ASSUME NEW p \in Merged(v), p \notin aggs[v]
      PROVE  p.end <= now
  <2>1. tracked[v].initial # None /\ p \in tracked[v].initial.peaks
    BY <1>6 DEF Merged
  <2>2. p.end <= started /\ p.end \in Nat
    BY <1>3, <1>6, <2>1 DEF IInv, RestoredPeaks, EndBy, Peaks
  <2> QED
    BY <1>1, <2>2
<1>7. EndBy(Saved(v).peaks, now)
  BY <1>4, <1>5, <1>6 DEF EndBy
<1>8. Saved(v) \in Checkpoint
  BY <1>3 DEF Saved, Checkpoint
<1>9. Separated(Saved(v).peaks)
  BY <1>3, <1>4 DEF Separated
<1> QED
  BY <1>7, <1>8, <1>9

\* A window that shifts leaves all earlier peaks behind and starts with the sample.
LEMMA ShiftLemma ==
    ASSUME NEW c \in Container, NEW S \in SUBSET Peaks, NEW t \in Nat, Own(c, S, t),
           NEW c2 \in Container, NEW usage \in Nat \ {0},
           c2.windowEnd \in Nat \ {0}, t + Interval <= c2.windowEnd,
           c.windowEnd # 0 => c.windowEnd + Interval <= c2.windowEnd,
           MaxPeak(c2) = usage
    PROVE  Own(c2, S \cup {[end |-> c2.windowEnd, usage |-> usage]}, t)
<1> DEFINE new == [end |-> c2.windowEnd, usage |-> usage]
<1>1. Interval \in Nat \ {0} /\ c.windowEnd \in Nat
  BY CheckpointsAssumption DEF CheckpointsAssumption, Container
<1>2. ASSUME NEW p \in S
      PROVE  p.end + Interval <= c2.windowEnd /\ p.end < c2.windowEnd /\ p.end <= c2.windowEnd
  <2>1. p.end \in Nat /\ p.end <= c.windowEnd /\ c.windowEnd # 0
    BY DEF Own, Peaks
  <2> QED
    BY <1>1, <2>1
<1>3. new.end = c2.windowEnd
  OBVIOUS
<1>4. \A p \in S : p.end # c2.windowEnd
  <2> SUFFICES ASSUME NEW p \in S PROVE p.end # c2.windowEnd
    OBVIOUS
  <2> QED
    BY <1>2 DEF Peaks
<1>5. {p \in S \cup {new} : p.end = c2.windowEnd} = {new}
  BY <1>3, <1>4
<1>6. Separated(S \cup {new})
  <2> SUFFICES ASSUME NEW p \in S \cup {new}, NEW q \in S \cup {new}, p.end <= q.end, p # q
               PROVE  p.end + Interval <= q.end
    BY DEF Separated
  <2>1. CASE p \in S /\ q \in S
    BY <2>1 DEF Own, Separated
  <2>2. CASE p \in S /\ q = new
    BY <1>2, <1>3, <2>2
  <2>3. CASE p = new /\ q \in S
    <3>1. q.end < c2.windowEnd /\ c2.windowEnd <= q.end /\ q.end \in Nat
      BY <1>2, <1>3, <2>3 DEF Peaks
    <3> QED
      BY <3>1
  <2> QED
    BY <2>1, <2>2, <2>3
<1>7. \A p \in S \cup {new} : t + Interval <= p.end /\ p.end <= c2.windowEnd
  <2>1. t + Interval <= new.end /\ new.end <= c2.windowEnd
    BY <1>3
  <2>2. \A p \in S : t + Interval <= p.end
    BY DEF Own
  <2> QED
    BY <1>2, <2>1, <2>2
<1> QED
  BY <1>5, <1>6, <1>7 DEF Own

\* A larger sample in the same window takes the place of its peak.
LEMMA GrowLemma ==
    ASSUME NEW c \in Container, NEW S \in SUBSET Peaks, NEW t \in Nat, Own(c, S, t),
           NEW c2 \in Container, NEW usage \in Nat \ {0},
           c.windowEnd # 0, c2.windowEnd = c.windowEnd, MaxPeak(c2) = usage
    PROVE  Own(c2, (S \ {[end |-> c.windowEnd, usage |-> MaxPeak(c)]})
                     \cup {[end |-> c.windowEnd, usage |-> usage]}, t)
<1> DEFINE new == [end |-> c.windowEnd, usage |-> usage]
           old == [end |-> c.windowEnd, usage |-> MaxPeak(c)]
           R == S \ {old}
<1>1. Interval \in Nat \ {0} /\ c.windowEnd \in Nat
  BY CheckpointsAssumption DEF CheckpointsAssumption, Container
<1>2. {p \in S : p.end = c.windowEnd} = {old}
  BY DEF Own
<1>3. ASSUME NEW p \in R
      PROVE  /\ p \in S /\ p.end \in Nat /\ p.end # c.windowEnd
             /\ p.end + Interval <= c.windowEnd
  <2>1. p \in S /\ p.end \in Nat /\ p.end # c.windowEnd
    BY <1>2 DEF Peaks
  <2>2. old \in S /\ old.end = c.windowEnd /\ p # old
    BY <1>2
  <2>3. p.end <= c.windowEnd
    BY <2>1 DEF Own
  <2> QED
    BY <2>1, <2>2, <2>3 DEF Own, Separated
<1>4. new.end = c.windowEnd
  OBVIOUS
<1>5. {p \in R \cup {new} : p.end = c.windowEnd} = {new}
  BY <1>3, <1>4
<1>6. Separated(R \cup {new})
  <2> HIDE DEF new, R
  <2> SUFFICES ASSUME NEW p \in R \cup {new}, NEW q \in R \cup {new}, p.end <= q.end, p # q
               PROVE  p.end + Interval <= q.end
    BY DEF Separated
  <2>1. CASE p \in R /\ q \in R
    BY <1>3, <2>1 DEF Own, Separated
  <2>2. CASE p \in R /\ q = new
    BY <1>3, <1>4, <2>2
  <2>3. CASE p = new /\ q \in R
    <3>1. q.end \in Nat /\ q.end + Interval <= c.windowEnd /\ c.windowEnd <= q.end
      BY <1>3, <1>4, <2>3
    <3> QED
      BY <1>1, <3>1
  <2> QED
    BY <2>1, <2>2, <2>3
<1>7. \A p \in R \cup {new} : t + Interval <= p.end /\ p.end <= c.windowEnd
  <2>1. t + Interval <= new.end /\ new.end <= c.windowEnd
    BY <1>1, <1>4 DEF Own
  <2>2. \A p \in S : t + Interval <= p.end /\ p.end <= c.windowEnd
    BY DEF Own
  <2> QED
    BY <2>1, <2>2
<1>8. t + Interval <= c2.windowEnd
  BY DEF Own
<1> HIDE DEF new, old, R
<1>9. new = [end |-> c2.windowEnd, usage |-> MaxPeak(c2)]
  BY DEF new
<1>10. Own(c2, R \cup {new}, t)
  BY <1>5, <1>6, <1>7, <1>8, <1>9 DEF Own
<1> QED
  BY <1>10 DEF R, new, old

\* Adding a sample or an OOM keeps one peak per window, the largest, in the aggregation.
LEMMA SampleLemma ==
    ASSUME IInv, NEW v \in VPAs, NEW ts \in started..now, NEW usage \in Nat \ {0},
           NEW isOOM \in BOOLEAN, AddMemorySample(v, ts, usage, isOOM)
    PROVE  /\ containers' \in [VPAs -> Container]
           /\ aggs' \in [VPAs -> SUBSET Peaks]
           /\ \A u \in VPAs : /\ Own(containers'[u], aggs'[u], started)
                              /\ containers'[u].windowEnd <= now + Interval
<1> DEFINE c == containers[v]
           e == Window(c, ts)
           old == MaxPeak(c)
           shifts == e # c.windowEnd
           kept == IF shifts THEN [c EXCEPT !.memoryPeak = 0, !.oomPeak = 0] ELSE c
           isNew == shifts \/ (old # 0 /\ usage > old)
           replaced == IF shifts THEN {} ELSE {[end |-> e, usage |-> old]}
           c2 == [windowEnd |-> e, lastSample |-> ts,
                  memoryPeak |-> IF isNew /\ ~isOOM THEN usage ELSE kept.memoryPeak,
                  oomPeak |-> IF isNew /\ isOOM THEN usage ELSE kept.oomPeak]
           S2 == IF isNew THEN (aggs[v] \ replaced) \cup {[end |-> e, usage |-> usage]}
                 ELSE aggs[v]
<1>1. /\ containers \in [VPAs -> Container] /\ aggs \in [VPAs -> SUBSET Peaks]
      /\ c \in Container /\ aggs[v] \in SUBSET Peaks
      /\ Interval \in Nat \ {0} /\ now \in Nat /\ started \in Nat /\ started # 0 /\ ts \in Nat
      /\ started <= ts /\ ts <= now /\ c.windowEnd <= now + Interval
  BY CheckpointsAssumption DEF IInv, TypeOK, CheckpointsAssumption
<1>2. /\ containers' = [containers EXCEPT ![v] = c2]
      /\ aggs' = [aggs EXCEPT ![v] = S2]
  <2>1. containers' = [containers EXCEPT ![v] = c2]
    BY DEF AddMemorySample
  <2>2. aggs' = [aggs EXCEPT ![v] = S2]
    <3>1. CASE isNew
      BY <1>1, <3>1 DEF AddMemorySample
    <3>2. CASE ~isNew
      BY <1>1, <3>2 DEF AddMemorySample
    <3> QED
      BY <3>1, <3>2
  <2> QED
    BY <2>1, <2>2
<1>3. Own(c, aggs[v], started)
  BY DEF IInv, OwnPeaks
<1>4. /\ e \in Nat /\ e # 0 /\ ts < e /\ e <= now + Interval /\ started + Interval <= e
      /\ shifts /\ c.windowEnd # 0 => c.windowEnd + Interval <= e
      /\ ~shifts => c.windowEnd # 0
  <2>1. /\ e \in Nat
        /\ ts < e
        /\ c.windowEnd # 0 /\ ts < c.windowEnd => e = c.windowEnd
        /\ c.windowEnd = 0 => e = ts + Interval
        /\ c.windowEnd # 0 /\ c.windowEnd <= ts =>
             c.windowEnd + Interval <= e /\ e <= ts + Interval
    BY <1>1, WindowLemma
  <2>2. c.windowEnd \in Nat /\ (c.windowEnd # 0 => started + Interval <= c.windowEnd)
    BY <1>1, <1>3 DEF Own, Container
  <2> HIDE DEF c, e
  <2> QED
    BY <1>1, <2>1, <2>2
<1>5. c2 \in Container /\ c2.windowEnd = e
  <2>1. kept \in Container
    BY <1>1 DEF Container
  <2> HIDE DEF kept, isNew, c, e
  <2> QED
    BY <1>1, <1>4, <2>1 DEF Container
<1>6. S2 \in SUBSET Peaks
  <2>1. [end |-> e, usage |-> usage] \in Peaks
    BY <1>4 DEF Peaks
  <2> HIDE DEF isNew, replaced, e
  <2> QED
    BY <1>1, <2>1
<1>7. Own(c2, S2, started)
  <2>1. CASE shifts
    <3>1. S2 = aggs[v] \cup {[end |-> c2.windowEnd, usage |-> usage]}
      BY <1>5, <2>1
    <3>2. c2.memoryPeak = (IF isOOM THEN 0 ELSE usage) /\ c2.oomPeak = (IF isOOM THEN usage ELSE 0)
      BY <1>1, <2>1 DEF Container
    <3>3. MaxPeak(c2) = usage
      <4> HIDE DEF c2
      <4> QED
        BY <3>2 DEF MaxPeak, Larger
    <3> HIDE DEF c2, S2, c, e
    <3>4. c.windowEnd # 0 => c.windowEnd + Interval <= c2.windowEnd
      BY <1>4, <1>5, <2>1
    <3> QED
      BY <1>1, <1>3, <1>4, <1>5, <3>1, <3>3, <3>4, ShiftLemma
  <2>2. CASE ~shifts /\ old # 0 /\ usage > old
    <3>1. S2 = (aggs[v] \ {[end |-> c.windowEnd, usage |-> MaxPeak(c)]})
                 \cup {[end |-> c.windowEnd, usage |-> usage]}
      BY <2>2
    <3>2. /\ c2.memoryPeak = (IF isOOM THEN c.memoryPeak ELSE usage)
          /\ c2.oomPeak = (IF isOOM THEN usage ELSE c.oomPeak)
      BY <2>2
    <3>3. MaxPeak(c2) = usage
      <4>1. c.memoryPeak \in Nat /\ c.oomPeak \in Nat /\ usage > MaxPeak(c)
        BY <1>1, <2>2 DEF Container
      <4>2. c.memoryPeak < usage /\ c.oomPeak < usage
        BY <4>1 DEF MaxPeak, Larger
      <4> HIDE DEF c2, c
      <4> QED
        BY <3>2, <4>1, <4>2 DEF MaxPeak, Larger
    <3>4. c2.windowEnd = c.windowEnd /\ c.windowEnd # 0
      BY <1>4, <1>5, <2>2
    <3> HIDE DEF c2, S2, c, e
    <3> QED
      BY <1>1, <1>3, <1>5, <3>1, <3>3, <3>4, GrowLemma
  <2>3. CASE ~shifts /\ ~(old # 0 /\ usage > old)
    <3>1. S2 = aggs[v]
      BY <2>3
    <3>2. c2.memoryPeak = c.memoryPeak /\ c2.oomPeak = c.oomPeak /\ c2.windowEnd = c.windowEnd
      BY <1>5, <2>3
    <3> HIDE DEF c2, S2, c
    <3> QED
      BY <1>3, <3>1, <3>2 DEF Own, MaxPeak
  <2> QED
    BY <2>1, <2>2, <2>3
<1> HIDE DEF c, e, c2, S2
<1>8. ASSUME NEW u \in VPAs
      PROVE  Own(containers'[u], aggs'[u], started) /\ containers'[u].windowEnd <= now + Interval
  <2>1. CASE u = v
    BY <1>1, <1>2, <1>4, <1>5, <1>7, <2>1
  <2>2. CASE u # v
    <3>1. containers'[u] = containers[u] /\ aggs'[u] = aggs[u]
      BY <1>1, <1>2, <2>2
    <3>2. Own(containers[u], aggs[u], started) /\ containers[u].windowEnd <= now + Interval
      BY DEF IInv, OwnPeaks, TypeOK
    <3> QED
      BY <3>1, <3>2
  <2> QED
    BY <2>1, <2>2
<1>9. containers' \in [VPAs -> Container] /\ aggs' \in [VPAs -> SUBSET Peaks]
  BY <1>1, <1>2, <1>5, <1>6
<1> QED
  BY <1>8, <1>9

LEMMA InitLemma ==
    Init => IInv
<1> SUFFICES ASSUME Init PROVE IInv
  OBVIOUS
<1> USE CheckpointsAssumption DEF CheckpointsAssumption
<1>1. PICK s \in Scenarios : listed = s.listed /\ running = s.running /\ steps = s.steps
                             /\ tracked = [v \in VPAs |-> IF v \in s.listed THEN NewVpa ELSE None]
  BY DEF Init
<1>2. /\ stored = [v \in VPAs |-> None] /\ aggs = [v \in VPAs |-> {}]
      /\ containers = [v \in VPAs |-> NewContainer] /\ phase = "idle" /\ orphans = {}
      /\ queue = <<>> /\ next = 1 /\ expired = FALSE
      /\ hands = [w \in Workers |-> None] /\ returned = {} /\ now = 1 /\ started = 1
  BY DEF Init
<1>3. NewVpa \in Vpa /\ NewContainer \in Container /\ NewContainer.windowEnd = 0
      /\ NewVpa.initial = None
  BY DEF NewVpa, Vpa, NewContainer, Container
<1>4. TypeOK
  <2>1. listed \subseteq VPAs /\ running \subseteq VPAs /\ steps \in Budget
    BY <1>1
  <2>2. tracked \in [VPAs -> Vpa \cup {None}]
    BY <1>1, <1>3
  <2>3. queue \in Seq(VPAs) /\ Len(queue) = 0
    BY <1>2
  <2>4. \A v \in VPAs : containers[v].windowEnd <= now + Interval
    BY <1>2, <1>3
  <2>5. containers \in [VPAs -> Container] /\ aggs \in [VPAs -> SUBSET Peaks]
    BY <1>2, <1>3
  <2>6. stored \in [VPAs -> Checkpoint \cup {None}] /\ hands \in [Workers -> Write \cup {None}]
    BY <1>2
  <2>7. /\ phase \in Phases /\ expired \in BOOLEAN /\ returned \subseteq Workers
        /\ orphans \subseteq VPAs
    BY <1>2 DEF Phases
  <2>8. next \in 1..(Len(queue) + 1)
    <3>1. Len(queue) + 1 = 1 /\ next = 1
      BY <1>2, <2>3
    <3> QED
      BY <3>1
  <2>9. now \in Nat /\ started \in 1..now
    BY <1>2
  <2> QED
    BY <2>1, <2>2, <2>3, <2>4, <2>5, <2>6, <2>7, <2>8, <2>9 DEF TypeOK
<1>5. OwnPeaks
  BY <1>2, <1>3 DEF OwnPeaks, Own, Separated
<1>6. RestoredPeaks
  BY <1>1, <1>3 DEF RestoredPeaks
<1> QED
  BY <1>2, <1>4, <1>5, <1>6 DEF IInv, StoredPeaks, HeldPeaks, QueueTracked

\* After a restart nothing is in memory but what is stored, and all of that has ended.
LEMMA RestartLemma ==
    ASSUME IInv, Restart
    PROVE  IInv'
<1> USE CheckpointsAssumption DEF CheckpointsAssumption
<1>1. /\ tracked' = Loaded /\ aggs' = [v \in VPAs |-> {}]
      /\ containers' = [v \in VPAs |-> NewContainer] /\ phase' = "idle" /\ orphans' = {}
      /\ queue' = <<>> /\ next' = 1 /\ expired' = FALSE
      /\ hands' = [w \in Workers |-> None] /\ returned' = {}
      /\ started' = now /\ running' \in SUBSET running
      /\ listed' = listed /\ stored' = stored /\ now' = now
  BY DEF Restart
<1>2. steps' \in Budget
  BY DEF Restart, Spend, IInv, TypeOK, Budget
<1>3. NewContainer \in Container /\ NewContainer.windowEnd = 0
  BY DEF NewContainer, Container
<1>4. ASSUME NEW v \in VPAs, v \in listed
      PROVE  tracked'[v] \in Vpa /\ tracked'[v].initial = stored[v]
  <2>1. stored[v] \in Checkpoint \cup {None}
    BY DEF IInv, TypeOK
  <2> QED
    BY <1>1, <1>4, <2>1 DEF Loaded, NewVpa, Vpa
<1>5. ASSUME NEW v \in VPAs, v \notin listed
      PROVE  tracked'[v] = None
  BY <1>1, <1>5 DEF Loaded
<1>6. TypeOK'
  <2>1. tracked' \in [VPAs -> Vpa \cup {None}]
    <3>1. \A v \in VPAs : tracked'[v] \in Vpa \cup {None}
      BY <1>4, <1>5
    <3>2. tracked' = [v \in VPAs |-> tracked'[v]]
      BY <1>1 DEF Loaded
    <3> QED
      BY <3>1, <3>2
  <2>2. now \in Nat /\ now \in 1..now /\ stored \in [VPAs -> Checkpoint \cup {None}]
        /\ listed \subseteq VPAs /\ running \subseteq VPAs
    BY DEF IInv, TypeOK
  <2>3. queue' \in Seq(VPAs) /\ Len(queue') = 0
    BY <1>1
  <2>4. \A v \in VPAs : containers'[v].windowEnd <= now' + Interval
    BY <1>1, <1>3, <2>2
  <2>5. containers' \in [VPAs -> Container] /\ aggs' \in [VPAs -> SUBSET Peaks]
    BY <1>1, <1>3
  <2>6. /\ stored' \in [VPAs -> Checkpoint \cup {None}]
        /\ hands' \in [Workers -> Write \cup {None}]
    BY <1>1, <2>2
  <2>7. /\ phase' \in Phases /\ expired' \in BOOLEAN /\ returned' \subseteq Workers
        /\ orphans' \subseteq VPAs
    BY <1>1 DEF Phases
  <2>9. next' \in 1..(Len(queue') + 1)
    <3>1. Len(queue') + 1 = 1 /\ next' = 1
      BY <1>1, <2>3
    <3> QED
      BY <3>1
  <2>8. /\ now' \in Nat /\ started' \in 1..now'
        /\ listed' \subseteq VPAs /\ running' \subseteq VPAs
    BY <1>1, <2>2
  <2> QED
    BY <1>2, <2>1, <2>3, <2>4, <2>5, <2>6, <2>7, <2>8, <2>9 DEF TypeOK
<1>7. OwnPeaks'
  BY <1>1, <1>3 DEF OwnPeaks, Own, Separated
<1>8. RestoredPeaks'
  <2> SUFFICES ASSUME NEW v \in VPAs, tracked'[v] # None, tracked'[v].initial # None
               PROVE  EndBy(tracked'[v].initial.peaks, started')
                      /\ Separated(tracked'[v].initial.peaks)
    BY DEF RestoredPeaks
  <2>1. tracked'[v].initial = stored[v] /\ stored[v] # None
    BY <1>4, <1>5
  <2>2. EndBy(stored[v].peaks, now) /\ Separated(stored[v].peaks)
    BY <2>1 DEF IInv, StoredPeaks
  <2> QED
    BY <1>1, <2>1, <2>2
<1>9. StoredPeaks'
  BY <1>1 DEF IInv, StoredPeaks
<1> QED
  BY <1>1, <1>6, <1>7, <1>8, <1>9 DEF IInv, HeldPeaks, QueueTracked

LEMMA TickLemma ==
    ASSUME IInv, Tick
    PROVE  IInv'
<1> USE CheckpointsAssumption DEF CheckpointsAssumption
<1>1. UNCHANGED <<stores, memory, phase, pool, orphans, started>> /\ now' = now + 1
  BY DEF Tick
<1>2. now \in Nat /\ started \in 1..now /\ steps' \in Budget
  BY DEF Tick, Spend, IInv, TypeOK, Budget
<1>3. TypeOK'
  <2>1. \A v \in VPAs : containers[v].windowEnd \in Nat /\ containers[v].windowEnd <= now + Interval
    BY DEF IInv, TypeOK, Container
  <2>2. \A v \in VPAs : containers[v].windowEnd <= now' + Interval
    BY <1>1, <1>2, <2>1
  <2>3. now' \in Nat /\ started \in 1..now'
    BY <1>1, <1>2
  <2> QED
    BY <1>1, <1>2, <2>2, <2>3 DEF IInv, TypeOK, stores, memory, pool
<1>4. ASSUME NEW S \in SUBSET Peaks, EndBy(S, now)
      PROVE  EndBy(S, now')
  BY <1>1, <1>2, <1>4 DEF EndBy, Peaks
<1>5. StoredPeaks'
  <2> SUFFICES ASSUME NEW v \in VPAs, stored[v] # None
               PROVE  EndBy(stored[v].peaks, now') /\ Separated(stored[v].peaks)
    BY <1>1 DEF StoredPeaks, stores
  <2>1. stored[v].peaks \in SUBSET Peaks
    BY DEF IInv, TypeOK, Checkpoint
  <2> QED
    BY <1>4, <2>1 DEF IInv, StoredPeaks
<1>6. HeldPeaks'
  <2> SUFFICES ASSUME NEW w \in Workers, hands[w] # None
               PROVE  /\ phase = "store" /\ tracked[hands[w].vpa] # None
                      /\ EndBy(hands[w].saved.peaks, now') /\ Separated(hands[w].saved.peaks)
    BY <1>1 DEF HeldPeaks, pool, memory
  <2>1. hands[w].saved.peaks \in SUBSET Peaks
    BY DEF IInv, TypeOK, Write, Checkpoint
  <2> QED
    BY <1>4, <2>1 DEF IInv, HeldPeaks
<1>7. OwnPeaks' /\ RestoredPeaks' /\ QueueTracked'
  BY <1>1 DEF IInv, OwnPeaks, RestoredPeaks, QueueTracked, memory, pool
<1> QED
  BY <1>3, <1>5, <1>6, <1>7 DEF IInv

\* Steps that change neither memory nor what is stored or held.
LEMMA QuietLemma ==
    ASSUME IInv, TypeOK', UNCHANGED <<stored, memory, hands, clock>>,
           \/ phase' = phase /\ queue' = queue
           \/ phase' # "store" /\ \A w \in Workers : hands[w] = None
    PROVE  IInv'
<1>1. OwnPeaks' /\ StoredPeaks' /\ RestoredPeaks'
  BY DEF IInv, OwnPeaks, StoredPeaks, RestoredPeaks, memory, clock
<1>2. HeldPeaks'
  BY DEF IInv, HeldPeaks, memory, clock
<1>3. QueueTracked'
  BY DEF IInv, QueueTracked, memory
<1> QED
  BY <1>1, <1>2, <1>3 DEF IInv

LEMMA LoadVPAsLemma ==
    ASSUME IInv, LoadVPAs
    PROVE  IInv'
<1>1. /\ phase = "idle" /\ phase' = "metrics"
      /\ tracked' = [v \in VPAs |-> IF v \notin listed THEN None
                                    ELSE IF tracked[v] = None THEN NewVpa ELSE tracked[v]]
      /\ UNCHANGED <<stores, aggs, containers, pool, orphans, clock, steps>>
  BY DEF LoadVPAs
<1>2. NewVpa \in Vpa /\ NewVpa.initial = None
  BY DEF NewVpa, Vpa
<1>3. TypeOK'
  <2>1. \A v \in VPAs : tracked[v] \in Vpa \cup {None}
    BY DEF IInv, TypeOK
  <2>2. tracked' \in [VPAs -> Vpa \cup {None}]
    BY <1>1, <1>2, <2>1
  <2> QED
    BY <1>1, <2>2 DEF IInv, TypeOK, stores, pool, clock, Phases
<1>4. RestoredPeaks'
  BY <1>1, <1>2 DEF IInv, RestoredPeaks, clock
<1>5. HeldPeaks'
  BY <1>1 DEF IInv, HeldPeaks, pool
<1>6. OwnPeaks' /\ StoredPeaks' /\ QueueTracked'
  BY <1>1 DEF IInv, OwnPeaks, StoredPeaks, QueueTracked, stores, clock
<1> QED
  BY <1>3, <1>4, <1>5, <1>6 DEF IInv

LEMMA FeedLemma ==
    ASSUME IInv, NEW v \in VPAs, NEW ts \in started..now, NEW usage \in Usages,
           AddSample(v, ts, usage) \/ RecordOOM(v, ts, usage)
    PROVE  IInv'
<1>1. /\ phase \in {"metrics", "ooms"} /\ phase' \in {"metrics", "ooms"}
      /\ UNCHANGED <<stores, tracked, pool, orphans, clock>>
  BY DEF AddSample, RecordOOM
<1>2. steps' \in Budget
  <2>1. Spend("sample") \/ Spend("oom")
    BY DEF AddSample, RecordOOM
  <2>2. steps \in Budget
    BY DEF IInv, TypeOK
  <2> QED
    BY <2>1, <2>2 DEF Spend, Budget
<1>3. usage \in Nat \ {0} /\ containers[v].memoryPeak \in Nat
  BY CheckpointsAssumption DEF CheckpointsAssumption, IInv, TypeOK, Container
<1>4. \E u \in Nat \ {0}, b \in BOOLEAN : AddMemorySample(v, ts, u, b)
  <2>1. CASE AddSample(v, ts, usage)
    BY <1>3, <2>1 DEF AddSample
  <2>2. CASE RecordOOM(v, ts, usage)
    <3>1. Larger(usage, containers[v].memoryPeak) + 1 \in Nat \ {0}
      BY <1>3 DEF Larger
    <3> QED
      BY <2>2, <3>1 DEF RecordOOM
  <2> QED
    BY <2>1, <2>2
<1>5. /\ containers' \in [VPAs -> Container] /\ aggs' \in [VPAs -> SUBSET Peaks]
      /\ \A u \in VPAs : /\ Own(containers'[u], aggs'[u], started)
                         /\ containers'[u].windowEnd <= now + Interval
  BY <1>4, SampleLemma
<1>6. TypeOK'
  BY <1>1, <1>2, <1>5 DEF IInv, TypeOK, stores, pool, clock, Phases
<1>7. OwnPeaks'
  BY <1>1, <1>5 DEF OwnPeaks, clock
<1>8. HeldPeaks' /\ QueueTracked' /\ StoredPeaks' /\ RestoredPeaks'
  BY <1>1 DEF IInv, HeldPeaks, QueueTracked, StoredPeaks, RestoredPeaks, pool, stores, clock
<1> QED
  BY <1>6, <1>7, <1>8 DEF IInv

LEMMA StoreCheckpointsLemma ==
    ASSUME IInv, StoreCheckpoints
    PROVE  IInv'
<1>1. /\ phase' = "store" /\ queue' \in ToCheckpoint /\ next' = 1
      /\ hands' = [w \in Workers |-> None] /\ returned' = {}
      /\ tracked' = [v \in VPAs |-> IF tracked[v] = None THEN None
                                    ELSE [tracked[v] EXCEPT !.written = Rank(v)]]
      /\ UNCHANGED <<stores, aggs, containers, expired, orphans, clock, steps>>
  BY DEF StoreCheckpoints
<1>2. IsFiniteSet(VPAs) /\ Tracked \subseteq VPAs
  BY CheckpointsAssumption DEF CheckpointsAssumption, Tracked
<1>3. ASSUME NEW v \in VPAs, tracked[v] # None
      PROVE  /\ tracked'[v] # None /\ tracked'[v] \in Vpa
             /\ tracked'[v].initial = tracked[v].initial
  <2> DEFINE R == {u \in Tracked : 0 < tracked[u].written
                                   /\ tracked[u].written <= tracked[v].written}
  <2>1. Cardinality(R) \in Nat
    <3>1. IsFiniteSet(R)
      BY <1>2, FS_Subset
    <3> QED
      BY <3>1, FS_CardinalityType
  <2>2. Rank(v) \in Nat
    BY <2>1 DEF Rank
  <2>3. tracked[v] \in Vpa
    BY <1>3 DEF IInv, TypeOK
  <2>4. tracked'[v] = [tracked[v] EXCEPT !.written = Rank(v)]
    BY <1>1, <1>3
  <2>5. tracked'[v] \in Vpa /\ tracked'[v].initial = tracked[v].initial
    BY <2>2, <2>3, <2>4 DEF Vpa
  <2> QED
    BY <2>5, CheckpointsAssumption DEF CheckpointsAssumption
<1>4. Cardinality(Tracked) \in Nat
  BY <1>2, FS_Subset, FS_CardinalityType
<1>5. queue' \in [1..Cardinality(Tracked) -> Tracked]
  BY <1>1 DEF ToCheckpoint
<1>6. queue' \in Seq(VPAs) /\ Len(queue') \in Nat
      /\ \A k \in 1..Len(queue') : queue'[k] \in Tracked
  <2>1. queue' \in Seq(Tracked) /\ Len(queue') = Cardinality(Tracked)
    BY <1>4, <1>5
  <2>2. queue' \in Seq(VPAs)
    BY <1>2, <2>1, SeqMonotonic
  <2> QED
    BY <1>4, <1>5, <2>1, <2>2
<1>7. tracked' \in [VPAs -> Vpa \cup {None}]
  <2>1. \A v \in VPAs : tracked'[v] \in Vpa \cup {None}
    BY <1>1, <1>3
  <2>2. tracked' = [v \in VPAs |-> tracked'[v]]
    BY <1>1
  <2> QED
    BY <2>1, <2>2
<1>8. TypeOK'
  <2>1. next' \in 1..(Len(queue') + 1)
    BY <1>1, <1>6
  <2>2. hands' \in [Workers -> Write \cup {None}] /\ returned' \subseteq Workers
    BY <1>1
  <2> QED
    BY <1>1, <1>6, <1>7, <2>1, <2>2 DEF IInv, TypeOK, stores, clock, Phases
<1>9. RestoredPeaks'
  <2> SUFFICES ASSUME NEW v \in VPAs, tracked'[v] # None, tracked'[v].initial # None
               PROVE  EndBy(tracked'[v].initial.peaks, started')
                      /\ Separated(tracked'[v].initial.peaks)
    BY DEF RestoredPeaks
  <2>1. tracked[v] # None
    BY <1>1
  <2> QED
    BY <1>1, <1>3, <2>1 DEF IInv, RestoredPeaks, clock
<1>10. QueueTracked'
  BY <1>3, <1>6 DEF QueueTracked, Tracked
<1>11. OwnPeaks' /\ StoredPeaks' /\ HeldPeaks'
  BY <1>1 DEF IInv, OwnPeaks, StoredPeaks, HeldPeaks, stores, clock
<1> QED
  BY <1>8, <1>9, <1>10, <1>11 DEF IInv

LEMMA TakeLemma ==
    ASSUME IInv, NEW w \in Workers, Take(w)
    PROVE  IInv'
<1>1. /\ phase = "store" /\ hands[w] = None /\ next <= Len(queue) /\ next' = next + 1
      /\ UNCHANGED <<stores, memory, phase, queue, expired, orphans, clock, steps>>
  BY DEF Take
<1> DEFINE v == queue[next]
           x == [vpa |-> v, saved |-> Saved(v), stamp |-> Cardinality(VPAs) + next]
<1>2. next \in 1..Len(queue) /\ Len(queue) \in Nat /\ next \in Nat
  BY <1>1 DEF IInv, TypeOK
<1>3. v \in VPAs /\ tracked[v] # None
  <2>1. v \in VPAs
    BY <1>2 DEF IInv, TypeOK
  <2> QED
    BY <1>1, <1>2, <2>1 DEF IInv, QueueTracked
<1>4. /\ hands' = hands \/ hands' = [hands EXCEPT ![w] = x]
      /\ returned' \subseteq returned \cup {w}
  BY DEF Take, AfterVPA
<1>5. Saved(v) \in Checkpoint /\ EndBy(Saved(v).peaks, now) /\ Separated(Saved(v).peaks)
  BY <1>3, SavedLemma
<1>6. x \in Write
  <2>1. Cardinality(VPAs) \in Nat
    BY CheckpointsAssumption, FS_CardinalityType DEF CheckpointsAssumption
  <2>2. Cardinality(VPAs) + next \in Nat
    BY <1>2, <2>1
  <2> HIDE DEF v
  <2> QED
    BY <1>3, <1>5, <2>2 DEF Write
<1>7. x.vpa = v /\ x.saved = Saved(v)
  OBVIOUS
<1> HIDE DEF x, v
<1>8. hands \in [Workers -> Write \cup {None}] /\ returned \subseteq Workers
  BY DEF IInv, TypeOK
<1>9. TypeOK'
  <2>1. hands' \in [Workers -> Write \cup {None}] /\ returned' \subseteq Workers
    BY <1>4, <1>6, <1>8
  <2>2. next' \in 1..(Len(queue) + 1)
    BY <1>1, <1>2
  <2> QED
    BY <1>1, <2>1, <2>2 DEF IInv, TypeOK, stores, memory, clock
<1>10. HeldPeaks'
  <2> SUFFICES ASSUME NEW u \in Workers, hands'[u] # None
               PROVE  /\ phase = "store" /\ tracked[hands'[u].vpa] # None
                      /\ EndBy(hands'[u].saved.peaks, now) /\ Separated(hands'[u].saved.peaks)
    BY <1>1 DEF HeldPeaks, memory, clock
  <2>1. CASE hands'[u] = hands[u]
    BY <2>1 DEF IInv, HeldPeaks
  <2>2. CASE hands'[u] # hands[u]
    <3>1. hands'[u] = x
      BY <1>4, <1>8, <2>2
    <3> QED
      BY <1>1, <1>3, <1>5, <1>7, <3>1
  <2> QED
    BY <2>1, <2>2
<1>11. OwnPeaks' /\ StoredPeaks' /\ RestoredPeaks' /\ QueueTracked'
  BY <1>1 DEF IInv, OwnPeaks, StoredPeaks, RestoredPeaks, QueueTracked, stores, memory, clock
<1> QED
  BY <1>9, <1>10, <1>11 DEF IInv

LEMMA WriteLemma ==
    ASSUME IInv, NEW w \in Workers, CreateOrUpdateVpaCheckpoint(w)
    PROVE  IInv'
<1> DEFINE x == hands[w]
           changed == [stored EXCEPT ![x.vpa] = x.saved]
<1>1. /\ phase = "store" /\ x # None /\ expired' \in {expired, TRUE}
      /\ hands' = [hands EXCEPT ![w] = None] /\ returned' \subseteq returned \cup {w}
      /\ UNCHANGED <<listed, running, aggs, containers, phase, queue, next, orphans, clock>>
  BY DEF CreateOrUpdateVpaCheckpoint, AfterVPA
<1>2. /\ stored' = stored \/ stored' = changed
      /\ tracked' = tracked \/ tracked' = [tracked EXCEPT ![x.vpa].written = x.stamp]
      /\ steps' = steps \/ Spend("fail")
  BY DEF CreateOrUpdateVpaCheckpoint
<1>3. hands \in [Workers -> Write \cup {None}] /\ x \in Write
  BY <1>1 DEF IInv, TypeOK
<1>4. x.vpa \in VPAs /\ x.saved \in Checkpoint /\ x.stamp \in Nat
  BY <1>3 DEF Write
<1>5. tracked[x.vpa] # None /\ EndBy(x.saved.peaks, now) /\ Separated(x.saved.peaks)
  BY <1>1 DEF IInv, HeldPeaks
<1> HIDE DEF x
<1>6. stored \in [VPAs -> Checkpoint \cup {None}] /\ tracked \in [VPAs -> Vpa \cup {None}]
  BY DEF IInv, TypeOK
<1>7. \A v \in VPAs : stored'[v] = stored[v] \/ (v = x.vpa /\ stored'[v] = x.saved)
  BY <1>2, <1>4, <1>6
<1>8. ASSUME NEW v \in VPAs
      PROVE  /\ tracked[v] # None <=> tracked'[v] # None
             /\ tracked[v] # None => tracked'[v] \in Vpa /\ tracked'[v].initial = tracked[v].initial
  <2>1. CASE tracked'[v] = tracked[v]
    BY <1>6, <2>1
  <2>2. CASE tracked'[v] # tracked[v]
    <3>1. v = x.vpa /\ tracked'[v] = [tracked[v] EXCEPT !.written = x.stamp]
      BY <1>2, <1>4, <1>6, <2>2
    <3>2. tracked[v] \in Vpa
      BY <1>5, <1>6, <3>1
    <3>3. tracked'[v] \in Vpa /\ tracked'[v].initial = tracked[v].initial
      BY <1>4, <3>1, <3>2 DEF Vpa
    <3> QED
      BY <1>5, <3>1, <3>3, CheckpointsAssumption DEF CheckpointsAssumption
  <2> QED
    BY <2>1, <2>2
<1>9. TypeOK'
  <2>1. stored' \in [VPAs -> Checkpoint \cup {None}]
    BY <1>2, <1>4, <1>6
  <2>2. tracked' \in [VPAs -> Vpa \cup {None}]
    <3>1. \A v \in VPAs : tracked'[v] \in Vpa \cup {None}
      BY <1>8
    <3>2. tracked' = [v \in VPAs |-> tracked'[v]]
      BY <1>2, <1>6
    <3> QED
      BY <3>1, <3>2
  <2>3. hands' \in [Workers -> Write \cup {None}] /\ returned' \subseteq Workers /\ expired' \in BOOLEAN
    <3>1. hands' \in [Workers -> Write \cup {None}]
      BY <1>1, <1>3
    <3>2. returned \subseteq Workers /\ expired \in BOOLEAN
      BY DEF IInv, TypeOK
    <3> QED
      BY <1>1, <3>1, <3>2
  <2>4. steps' \in Budget
    BY <1>2 DEF IInv, TypeOK, Spend, Budget
  <2> QED
    BY <1>1, <2>1, <2>2, <2>3, <2>4 DEF IInv, TypeOK, clock
<1>10. StoredPeaks'
  <2> SUFFICES ASSUME NEW v \in VPAs, stored'[v] # None
               PROVE  EndBy(stored'[v].peaks, now) /\ Separated(stored'[v].peaks)
    BY <1>1 DEF StoredPeaks, clock
  <2> QED
    BY <1>5, <1>7 DEF IInv, StoredPeaks
<1>11. RestoredPeaks' /\ QueueTracked'
  <2>1. RestoredPeaks'
    BY <1>1, <1>8 DEF IInv, RestoredPeaks, clock
  <2>2. \A k \in 1..Len(queue) : queue[k] \in VPAs
    BY DEF IInv, TypeOK
  <2>3. QueueTracked'
    BY <1>1, <1>8, <2>2 DEF IInv, QueueTracked
  <2> QED
    BY <2>1, <2>3
<1>12. HeldPeaks'
  <2> SUFFICES ASSUME NEW u \in Workers, hands'[u] # None
               PROVE  /\ phase = "store" /\ tracked'[hands'[u].vpa] # None
                      /\ EndBy(hands'[u].saved.peaks, now) /\ Separated(hands'[u].saved.peaks)
    BY <1>1 DEF HeldPeaks, clock
  <2>1. hands'[u] = hands[u] /\ hands[u] # None
    BY <1>1, <1>3
  <2>2. hands[u].vpa \in VPAs /\ tracked[hands[u].vpa] # None
    BY <1>3, <2>1 DEF IInv, HeldPeaks, Write
  <2> QED
    BY <1>8, <2>1, <2>2 DEF IInv, HeldPeaks
<1>13. OwnPeaks'
  BY <1>1 DEF IInv, OwnPeaks, clock
<1> QED
  BY <1>9, <1>10, <1>11, <1>12, <1>13 DEF IInv

LEMMA DeleteCheckpointLemma ==
    ASSUME IInv, NEW v \in VPAs, DeleteCheckpoint(v)
    PROVE  IInv'
<1>1. /\ orphans' = orphans \ {v}
      /\ stored' = stored \/ stored' = [stored EXCEPT ![v] = None]
      /\ UNCHANGED <<listed, running, memory, phase, queue, next, hands, returned, clock>>
  BY DEF DeleteCheckpoint
<1>2. steps' \in Budget /\ expired' \in BOOLEAN
  <2>1. expired \in BOOLEAN /\ steps \in Budget
    BY DEF IInv, TypeOK
  <2>2. expired' \in {expired, TRUE}
    BY DEF DeleteCheckpoint
  <2>3. steps' = steps \/ Spend("fail")
    BY DEF DeleteCheckpoint
  <2>4. steps' \in Budget
    BY <2>1, <2>3 DEF Spend, Budget
  <2> QED
    BY <2>1, <2>2, <2>4
<1>3. stored \in [VPAs -> Checkpoint \cup {None}]
  BY DEF IInv, TypeOK
<1>4. stored' \in [VPAs -> Checkpoint \cup {None}]
      /\ \A u \in VPAs : stored'[u] # None => stored'[u] = stored[u]
  BY <1>1, <1>3
<1>5. TypeOK'
  BY <1>1, <1>2, <1>4 DEF IInv, TypeOK, memory, clock
<1>6. StoredPeaks'
  BY <1>1, <1>4 DEF IInv, StoredPeaks, clock
<1>7. OwnPeaks' /\ RestoredPeaks' /\ HeldPeaks' /\ QueueTracked'
  BY <1>1 DEF IInv, OwnPeaks, RestoredPeaks, HeldPeaks, QueueTracked, memory, clock
<1> QED
  BY <1>5, <1>6, <1>7 DEF IInv

LEMMA EndLemma ==
    ASSUME IInv,
           GarbageCollectCheckpoints \/ CheckpointsCollected \/ EndCycle
           \/ \E v \in VPAs : VPAChanges(v)
    PROVE  IInv'
<1>1. CASE GarbageCollectCheckpoints \/ EndCycle
  <2>1. /\ phase' \in {"idle", "collect"} /\ orphans' \subseteq VPAs
        /\ expired' \in BOOLEAN /\ steps' \in Budget
        /\ UNCHANGED <<stores, memory, queue, next, hands, returned, clock>>
    <3>1. orphans \subseteq VPAs /\ expired \in BOOLEAN /\ steps \in Budget
      BY DEF IInv, TypeOK
    <3>2. /\ phase' \in {"idle", "collect"} /\ orphans' \subseteq VPAs
          /\ UNCHANGED <<stores, memory, queue, next, hands, returned, clock>>
      BY <1>1, <3>1 DEF GarbageCollectCheckpoints, EndCycle, Missing
    <3>3. expired' \in {expired, TRUE, FALSE}
      BY <1>1 DEF GarbageCollectCheckpoints, EndCycle
    <3>4. steps' = steps \/ Spend("fail")
      BY <1>1 DEF GarbageCollectCheckpoints, EndCycle
    <3>5. steps' \in Budget
      BY <3>1, <3>4 DEF Spend, Budget
    <3> QED
      BY <3>1, <3>2, <3>3, <3>5
  <2>2. \A w \in Workers : hands[w] = None
    BY <1>1 DEF GarbageCollectCheckpoints, EndCycle, WorkersDone
  <2>3. TypeOK'
    BY <2>1 DEF IInv, TypeOK, stores, memory, clock, Phases
  <2> QED
    BY <2>1, <2>2, <2>3, QuietLemma DEF stores
<1>2. CASE CheckpointsCollected
  <2>1. /\ phase = "collect" /\ phase' = "idle" /\ orphans' = {} /\ expired' = FALSE
        /\ UNCHANGED <<stores, memory, queue, next, hands, returned, clock, steps>>
    BY <1>2 DEF CheckpointsCollected
  <2>2. \A w \in Workers : hands[w] = None
    BY <2>1 DEF IInv, HeldPeaks
  <2>3. TypeOK'
    BY <2>1 DEF IInv, TypeOK, stores, memory, clock, Phases
  <2> QED
    BY <2>1, <2>2, <2>3, QuietLemma DEF stores
<1>3. CASE \E v \in VPAs : VPAChanges(v)
  <2>1. PICK v \in VPAs : VPAChanges(v)
    BY <1>3
  <2>2. /\ listed' \subseteq VPAs /\ steps' \in Budget
        /\ UNCHANGED <<running, stored, memory, phase, pool, orphans, clock>>
    BY <2>1 DEF VPAChanges, Spend, IInv, TypeOK, Budget
  <2>3. TypeOK'
    BY <2>2 DEF IInv, TypeOK, memory, pool, clock
  <2> QED
    BY <2>2, <2>3, QuietLemma DEF pool
<1> QED
  BY <1>1, <1>2, <1>3

LEMMA StepLemma ==
    IInv /\ [Next]_vars => IInv'
<1> SUFFICES ASSUME IInv, [Next]_vars PROVE IInv'
  OBVIOUS
<1>1. CASE UNCHANGED vars
  <2>1. UNCHANGED <<stored, memory, hands, clock>> /\ phase' = phase /\ queue' = queue
    BY <1>1 DEF vars, stores, pool
  <2>2. TypeOK'
    BY <1>1 DEF IInv, TypeOK, vars, stores, memory, pool, clock
  <2> QED
    BY <2>1, <2>2, QuietLemma
<1>2. CASE Restart
  BY <1>2, RestartLemma
<1>3. CASE Tick
  BY <1>3, TickLemma
<1>4. CASE \E v \in VPAs, ts \in started..now, usage \in Usages :
                AddSample(v, ts, usage) \/ RecordOOM(v, ts, usage)
  BY <1>4, FeedLemma
<1>5. CASE LoadVPAs
  BY <1>5, LoadVPAsLemma
<1>6. CASE StoreCheckpoints
  BY <1>6, StoreCheckpointsLemma
<1>7. CASE \E w \in Workers : Take(w) \/ CreateOrUpdateVpaCheckpoint(w)
  BY <1>7, TakeLemma, WriteLemma
<1>8. CASE \E v \in VPAs : DeleteCheckpoint(v)
  BY <1>8, DeleteCheckpointLemma
<1>9. CASE GarbageCollectCheckpoints \/ CheckpointsCollected \/ EndCycle
           \/ \E v \in VPAs : VPAChanges(v)
  BY <1>9, EndLemma
<1> QED
  BY <1>1, <1>2, <1>3, <1>4, <1>5, <1>6, <1>7, <1>8, <1>9 DEF Next

LEMMA Invariance ==
    Spec => []IInv
<1>1. Init => IInv
  BY InitLemma
<1>2. IInv /\ [Next]_vars => IInv'
  BY StepLemma
<1> QED
  BY <1>1, <1>2, PTL DEF Spec

\* The state keeps its type; a window ends at most one interval from now.
THEOREM CheckpointsTypeCorrect ==
    Spec => []TypeOK
<1>1. IInv => TypeOK
  BY DEF IInv
<1> QED
  BY <1>1, Invariance, PTL

\* What a container would subtract is what its aggregation holds for the window.
THEOREM SubtractionsMatch ==
    Spec => []SubtractsWhatWasAdded
<1>1. IInv => SubtractsWhatWasAdded
  BY DEF IInv, OwnPeaks, Own, SubtractsWhatWasAdded, MaxPeak, Larger
<1> QED
  BY <1>1, Invariance, PTL

\* However often the process restarts, no two peaks of a VPA are of the same interval.
THEOREM OnePeak ==
    Spec => []OnePeakPerInterval
<1>1. IInv => OnePeakPerInterval
  BY MergedLemma DEF OnePeakPerInterval, Separated, Tracked
<1> QED
  BY <1>1, Invariance, PTL

-----------------------------------------------------------------------------
(* Restored history is kept.  What is stored of a restored VPA is covered  *)
(* by what a write would save (StoredCovered), and by what each write in   *)
(* hand will save (HeldCovered).  The latter survives the write of another *)
(* worker because no VPA is in the queue, or in hand, twice (TakenOnce).   *)

Covers(T, S) == \A p \in S : \E q \in T : q.end = p.end /\ q.usage >= p.usage

Restored(v) == tracked[v] # None /\ tracked[v].initial # None /\ stored[v] # None

StoredCovered == \A v \in VPAs : Restored(v) => Covers(Merged(v), stored[v].peaks)

HeldCovered ==
    \A w \in Workers, v \in VPAs : hands[w] # None /\ hands[w].vpa = v =>
        /\ hands[w].saved.peaks \subseteq Merged(v)
        /\ Restored(v) => Covers(hands[w].saved.peaks, stored[v].peaks)

TakenOnce ==
    phase = "store" =>
        /\ \A j, k \in 1..Len(queue) : queue[j] = queue[k] => j = k
        /\ \A w \in Workers : hands[w] # None =>
                \E k \in 1..Len(queue) : k < next /\ queue[k] = hands[w].vpa
        /\ \A w, x \in Workers : w # x /\ hands[w] # None /\ hands[x] # None =>
                hands[w].vpa # hands[x].vpa

KeptInv == StoredCovered /\ HeldCovered /\ TakenOnce

\* Peaks cover themselves.
LEMMA CoversItself ==
    ASSUME NEW S \in SUBSET Peaks, NEW T, S \subseteq T
    PROVE  Covers(T, S)
<1>1. \A p \in S : p.usage \in Nat
  BY DEF Peaks
<1> QED
  BY <1>1 DEF Covers

\* A sample leaves every earlier peak of the aggregation covered.
LEMMA SampleCovers ==
    ASSUME IInv, NEW v \in VPAs, NEW ts, NEW usage \in Nat, NEW isOOM,
           AddMemorySample(v, ts, usage, isOOM), NEW u \in VPAs
    PROVE  Covers(aggs'[u], aggs[u])
<1> DEFINE e == Window(containers[v], ts)
           old == MaxPeak(containers[v])
           shifts == e # containers[v].windowEnd
           new == [end |-> e, usage |-> usage]
           replaced == IF shifts THEN {} ELSE {[end |-> e, usage |-> old]}
           S2 == (aggs[v] \ replaced) \cup {new}
<1>1. aggs \in [VPAs -> SUBSET Peaks] /\ aggs[u] \subseteq Peaks
  BY DEF IInv, TypeOK
<1>2. \/ aggs' = aggs
      \/ (shifts \/ usage > old) /\ aggs' = [aggs EXCEPT ![v] = S2]
  BY DEF AddMemorySample
<1>3. CASE aggs'[u] = aggs[u]
  BY <1>1, <1>3, CoversItself
<1>4. CASE aggs'[u] # aggs[u]
  <2>1. u = v /\ aggs'[v] = S2 /\ (shifts \/ usage > old)
    BY <1>1, <1>2, <1>4
  <2>2. ASSUME NEW p \in aggs[v]
        PROVE  \E q \in S2 : q.end = p.end /\ q.usage >= p.usage
    <3>1. p.usage \in Nat
      BY <1>1, <2>1 DEF Peaks
    <3>2. CASE p \notin replaced
      <4>1. p \in S2
        BY <3>2
      <4> QED
        BY <3>1, <4>1
    <3>3. CASE p \in replaced
      <4>1. ~shifts /\ p.end = e /\ p.usage = old
        BY <3>3
      <4>2. new \in S2 /\ new.end = e /\ new.usage = usage
        OBVIOUS
      <4> HIDE DEF S2, new, e, old, shifts
      <4>3. new.usage >= p.usage
        BY <2>1, <3>1, <4>1, <4>2
      <4> QED
        BY <4>1, <4>2, <4>3
    <3> QED
      BY <3>2, <3>3
  <2> QED
    BY <2>1, <2>2 DEF Covers
<1> QED
  BY <1>3, <1>4

\* What holds of the peaks in memory and in hand.
LEMMA PeaksTyped ==
    ASSUME IInv
    PROVE  /\ \A v \in VPAs : stored[v] # None => stored[v].peaks \in SUBSET Peaks
           /\ \A v \in VPAs : tracked[v] # None => Merged(v) \in SUBSET Peaks
           /\ \A w \in Workers : hands[w] # None =>
                hands[w].vpa \in VPAs /\ hands[w].saved.peaks \in SUBSET Peaks
<1>1. \A v \in VPAs : stored[v] # None => stored[v].peaks \in SUBSET Peaks
  BY DEF IInv, TypeOK, Checkpoint
<1>2. \A v \in VPAs : tracked[v] # None => Merged(v) \in SUBSET Peaks
  BY MergedLemma
<1>3. \A w \in Workers : hands[w] # None =>
         hands[w].vpa \in VPAs /\ hands[w].saved.peaks \in SUBSET Peaks
  BY DEF IInv, TypeOK, Write, Checkpoint
<1> QED
  BY <1>1, <1>2, <1>3

LEMMA KeptInit ==
    Init => KeptInv
<1> SUFFICES ASSUME Init PROVE KeptInv
  OBVIOUS
<1>1. /\ stored = [v \in VPAs |-> None] /\ hands = [w \in Workers |-> None] /\ phase = "idle"
  BY DEF Init
<1> QED
  BY <1>1 DEF KeptInv, StoredCovered, HeldCovered, TakenOnce, Restored

LEMMA KeptRestart ==
    ASSUME IInv, Restart
    PROVE  KeptInv'
<1>1. /\ tracked' = Loaded /\ aggs' = [v \in VPAs |-> {}] /\ phase' = "idle"
      /\ hands' = [w \in Workers |-> None] /\ stored' = stored
  BY DEF Restart
<1>2. ASSUME NEW v \in VPAs, Restored(v)'
      PROVE  Covers(Merged(v), stored[v].peaks)'
  <2>1. tracked'[v] # None /\ tracked'[v].initial # None /\ stored[v] # None
    BY <1>1, <1>2 DEF Restored
  <2>2. tracked'[v].initial = stored[v]
    BY <1>1, <2>1 DEF Loaded, NewVpa
  <2>3. stored[v].peaks \in SUBSET Peaks
    BY <2>1, PeaksTyped
  <2>4. Merged(v)' = stored[v].peaks
    BY <1>1, <2>1, <2>2 DEF Merged
  <2>5. Covers(stored[v].peaks, stored[v].peaks)
    BY <2>3, CoversItself
  <2>6. stored'[v].peaks = stored[v].peaks
    BY <1>1
  <2> QED
    BY <2>4, <2>5, <2>6 DEF Covers
<1>3. StoredCovered'
  BY <1>2 DEF StoredCovered
<1> QED
  BY <1>1, <1>3 DEF KeptInv, HeldCovered, TakenOnce

\* Steps that touch neither aggregations nor what is in hand.
LEMMA KeptQuiet ==
    ASSUME IInv, KeptInv, UNCHANGED <<aggs, hands, queue, next>>,
           \A v \in VPAs : stored'[v] # None => stored'[v] = stored[v],
           \A v \in VPAs : tracked'[v] # None /\ tracked'[v].initial # None =>
                tracked'[v] = tracked[v],
           phase' = phase \/ phase' # "store",
           \/ tracked' = tracked
           \/ \A w \in Workers : hands[w] = None
    PROVE  KeptInv'
<1>1. ASSUME NEW v \in VPAs, Restored(v)'
      PROVE  /\ Restored(v) /\ stored'[v] = stored[v] /\ tracked'[v] = tracked[v]
             /\ Merged(v)' = Merged(v)
  <2>1. tracked'[v] # None /\ tracked'[v].initial # None /\ stored'[v] # None
    BY <1>1 DEF Restored
  <2>2. stored'[v] = stored[v] /\ tracked'[v] = tracked[v]
    BY <2>1
  <2> QED
    BY <2>1, <2>2 DEF Restored, Merged
<1>2. StoredCovered'
  <2> SUFFICES ASSUME NEW v \in VPAs, Restored(v)'
               PROVE  Covers(Merged(v), stored[v].peaks)'
    BY DEF StoredCovered
  <2> QED
    BY <1>1 DEF KeptInv, StoredCovered, Covers
<1>3. HeldCovered'
  <2> SUFFICES ASSUME NEW w \in Workers, NEW v \in VPAs, hands'[w] # None, hands'[w].vpa = v
               PROVE  /\ hands'[w].saved.peaks \subseteq Merged(v)'
                      /\ Restored(v)' => Covers(hands'[w].saved.peaks, stored'[v].peaks)
    BY DEF HeldCovered, Covers
  <2>1. hands'[w] = hands[w] /\ hands[w] # None /\ tracked' = tracked /\ hands[w].vpa = v
    OBVIOUS
  <2>2. Merged(v)' = Merged(v)
    BY <2>1 DEF Merged
  <2>3. /\ hands[w].saved.peaks \subseteq Merged(v)
        /\ Restored(v) => Covers(hands[w].saved.peaks, stored[v].peaks)
    BY <2>1 DEF KeptInv, HeldCovered
  <2>4. Restored(v)' => Covers(hands[w].saved.peaks, stored'[v].peaks)
    BY <1>1, <2>1, <2>3
  <2> QED
    BY <2>1, <2>2, <2>3, <2>4
<1>4. TakenOnce'
  BY DEF KeptInv, TakenOnce
<1> QED
  BY <1>2, <1>3, <1>4 DEF KeptInv

LEMMA KeptFeed ==
    ASSUME IInv, KeptInv, NEW v \in VPAs, NEW ts \in started..now, NEW usage \in Usages,
           AddSample(v, ts, usage) \/ RecordOOM(v, ts, usage)
    PROVE  KeptInv'
<1>1. /\ phase \in {"metrics", "ooms"} /\ phase' \in {"metrics", "ooms"}
      /\ UNCHANGED <<stored, tracked, hands>>
  BY DEF AddSample, RecordOOM, stores, pool
<1>2. \A w \in Workers : hands[w] = None
  BY <1>1 DEF IInv, HeldPeaks
<1>3. usage \in Nat /\ containers[v].memoryPeak \in Nat
  BY CheckpointsAssumption DEF CheckpointsAssumption, IInv, TypeOK, Container
<1>4. \E k \in Nat, b \in BOOLEAN : AddMemorySample(v, ts, k, b)
  <2>1. CASE AddSample(v, ts, usage)
    BY <1>3, <2>1 DEF AddSample
  <2>2. CASE RecordOOM(v, ts, usage)
    <3>1. Larger(usage, containers[v].memoryPeak) + 1 \in Nat
      BY <1>3 DEF Larger
    <3> QED
      BY <2>2, <3>1 DEF RecordOOM
  <2> QED
    BY <2>1, <2>2
<1>5. \A u \in VPAs : Covers(aggs'[u], aggs[u])
  BY <1>4, SampleCovers
<1>6. StoredCovered'
  <2> SUFFICES ASSUME NEW u \in VPAs, Restored(u)'
               PROVE  Covers(Merged(u)', stored[u].peaks)
    BY <1>1 DEF StoredCovered, Covers
  <2>1. Restored(u) /\ Covers(Merged(u), stored[u].peaks)
    BY <1>1 DEF KeptInv, StoredCovered, Restored
  <2>2. Merged(u) = aggs[u] \cup tracked[u].initial.peaks
        /\ Merged(u)' = aggs'[u] \cup tracked[u].initial.peaks
    BY <1>1, <2>1 DEF Restored, Merged
  <2>3. /\ stored[u].peaks \in SUBSET Peaks /\ Merged(u) \in SUBSET Peaks
        /\ aggs'[u] \in SUBSET Peaks
    <3>1. IInv'
      BY FeedLemma
    <3>2. aggs'[u] \in SUBSET Peaks
      BY <3>1 DEF IInv, TypeOK
    <3> QED
      BY <2>1, <3>2, PeaksTyped DEF Restored
  <2>4. ASSUME NEW p \in stored[u].peaks
        PROVE  \E r \in Merged(u)' : r.end = p.end /\ r.usage >= p.usage
    <3>1. PICK s \in Merged(u) : s.end = p.end /\ s.usage >= p.usage
      BY <2>1 DEF Covers
    <3>2. CASE s \in tracked[u].initial.peaks
      BY <2>2, <3>1, <3>2
    <3>3. CASE s \in aggs[u]
      <4>1. PICK r \in aggs'[u] : r.end = s.end /\ r.usage >= s.usage
        BY <1>5, <3>3 DEF Covers
      <4>2. p.usage \in Nat /\ s.usage \in Nat /\ r.usage \in Nat
        BY <2>3, <3>1, <4>1 DEF Peaks
      <4>3. r.usage >= p.usage
        BY <3>1, <4>1, <4>2
      <4> QED
        BY <2>2, <3>1, <4>1, <4>3
    <3> QED
      BY <2>2, <3>1, <3>2, <3>3
  <2> QED
    BY <2>4 DEF Covers
<1> QED
  BY <1>1, <1>2, <1>6 DEF KeptInv, HeldCovered, TakenOnce

\* Every tracked VPA is in the queue once.
LEMMA KeptStore ==
    ASSUME IInv, KeptInv, StoreCheckpoints
    PROVE  KeptInv'
<1>1. /\ queue' \in ToCheckpoint /\ hands' = [w \in Workers |-> None]
      /\ tracked' = [v \in VPAs |-> IF tracked[v] = None THEN None
                                    ELSE [tracked[v] EXCEPT !.written = Rank(v)]]
      /\ UNCHANGED <<stored, aggs>>
  BY DEF StoreCheckpoints, stores
<1> DEFINE n == Cardinality(Tracked)
<1>2. IsFiniteSet(Tracked) /\ n \in Nat
  <2>1. IsFiniteSet(VPAs) /\ Tracked \subseteq VPAs
    BY CheckpointsAssumption DEF CheckpointsAssumption, Tracked
  <2> QED
    BY <2>1, FS_Subset, FS_CardinalityType
<1>3. /\ queue' \in [1..n -> Tracked]
      /\ {queue'[k] : k \in DOMAIN queue'} = Tracked
  BY <1>1 DEF ToCheckpoint
<1>4. queue' \in Surjection(1..n, Tracked)
  BY <1>3 DEF Surjection
<1>5. IsFiniteSet(1..n) /\ Cardinality(1..n) = Cardinality(Tracked)
  <2>1. IsFiniteSet(1..n) /\ Cardinality(1..n) = (IF 1 > n THEN 0 ELSE n - 1 + 1)
    BY <1>2, FS_Interval
  <2> QED
    BY <1>2, <2>1
<1>6. queue' \in Injection(1..n, Tracked)
  BY <1>4, <1>5, FS_SurjSameCardinalityImpliesInj
<1>7. Len(queue') = n
  BY <1>2, <1>3
<1>8. \A j, k \in 1..Len(queue') : queue'[j] = queue'[k] => j = k
  BY <1>6, <1>7 DEF Injection, IsInjective
<1>9. TakenOnce' /\ HeldCovered'
  BY <1>1, <1>8 DEF TakenOnce, HeldCovered
<1>10. StoredCovered'
  <2> SUFFICES ASSUME NEW v \in VPAs, Restored(v)'
               PROVE  Covers(Merged(v), stored[v].peaks)'
    BY DEF StoredCovered
  <2>1. /\ tracked[v] # None /\ stored[v] # None /\ tracked'[v].initial # None
        /\ tracked'[v] = [tracked[v] EXCEPT !.written = Rank(v)]
    BY <1>1 DEF Restored
  <2>2. tracked[v] \in Vpa
    BY <2>1 DEF IInv, TypeOK
  <2>3. tracked'[v].initial = tracked[v].initial
    BY <2>1, <2>2 DEF Vpa
  <2>4. Merged(v)' = Merged(v)
    BY <1>1, <2>3 DEF Merged
  <2>5. Covers(Merged(v), stored[v].peaks)
    BY <2>1, <2>3 DEF KeptInv, StoredCovered, Restored
  <2> QED
    BY <1>1, <2>4, <2>5 DEF Covers
<1> QED
  BY <1>9, <1>10 DEF KeptInv

LEMMA KeptTake ==
    ASSUME IInv, KeptInv, NEW w \in Workers, Take(w)
    PROVE  KeptInv'
<1> DEFINE v == queue[next]
           x == [vpa |-> v, saved |-> Saved(v), stamp |-> Cardinality(VPAs) + next]
<1>1. /\ phase = "store" /\ next <= Len(queue) /\ next' = next + 1
      /\ hands' = hands \/ hands' = [hands EXCEPT ![w] = x]
      /\ UNCHANGED <<stored, aggs, tracked, phase, queue>>
  BY DEF Take, stores, memory
<1>2. next \in 1..Len(queue) /\ Len(queue) \in Nat /\ next \in Nat
  BY <1>1 DEF IInv, TypeOK
<1>3. v \in VPAs /\ tracked[v] # None
  <2>1. v \in VPAs
    BY <1>2 DEF IInv, TypeOK
  <2> QED
    BY <1>1, <1>2, <2>1 DEF IInv, QueueTracked
<1>4. x.vpa = v /\ x.saved = Saved(v)
  OBVIOUS
<1>5. Saved(v).peaks = Merged(v) \ Current(v)
  BY DEF Saved
<1>6. Restored(v) => Covers(Saved(v).peaks, stored[v].peaks)
  <2> SUFFICES ASSUME Restored(v), NEW p \in stored[v].peaks
               PROVE  \E q \in Saved(v).peaks : q.end = p.end /\ q.usage >= p.usage
    BY DEF Covers
  <2>1. PICK q \in Merged(v) : q.end = p.end /\ q.usage >= p.usage
    BY <1>3 DEF KeptInv, StoredCovered, Covers
  <2>2. p.end <= now /\ now \in Nat /\ p.end \in Nat
    <3>1. EndBy(stored[v].peaks, now) /\ stored[v].peaks \in SUBSET Peaks
      BY <1>3, PeaksTyped DEF IInv, StoredPeaks, Restored
    <3> QED
      BY <3>1 DEF EndBy, IInv, TypeOK, Peaks
  <2>3. q \notin Current(v)
    <3> SUFFICES ASSUME now < containers[v].windowEnd, q.end = containers[v].windowEnd
                 PROVE  FALSE
      BY DEF Current
    <3>1. containers[v].windowEnd \in Nat
      BY <1>3 DEF IInv, TypeOK, Container
    <3> QED
      BY <2>1, <2>2, <3>1
  <2> QED
    BY <1>5, <2>1, <2>3
<1>7. \A u \in VPAs : Merged(u)' = Merged(u) /\ Restored(u)' = Restored(u)
  BY <1>1 DEF Merged, Restored
<1> HIDE DEF x
<1>8. hands \in [Workers -> Write \cup {None}]
  BY DEF IInv, TypeOK
<1>9. ASSUME NEW u \in Workers, hands'[u] # None
      PROVE  \/ hands'[u] = hands[u]
             \/ u = w /\ hands'[u].vpa = v /\ hands'[u].saved = Saved(v)
                /\ hands' = [hands EXCEPT ![w] = x]
  BY <1>1, <1>4, <1>8
<1>10. HeldCovered'
  <2> SUFFICES ASSUME NEW u \in Workers, NEW z \in VPAs, hands'[u] # None, hands'[u].vpa = z
               PROVE  /\ hands'[u].saved.peaks \subseteq Merged(z)'
                      /\ Restored(z)' => Covers(hands'[u].saved.peaks, stored'[z].peaks)
    BY DEF HeldCovered, Covers
  <2>1. CASE hands'[u] = hands[u]
    <3>1. /\ hands[u].saved.peaks \subseteq Merged(z)
          /\ Restored(z) => Covers(hands[u].saved.peaks, stored[z].peaks)
      BY <2>1 DEF KeptInv, HeldCovered
    <3> HIDE DEF v
    <3> QED
      BY <1>1, <1>7, <2>1, <3>1
  <2>2. CASE hands'[u].vpa = v /\ hands'[u].saved = Saved(v)
    <3> HIDE DEF v
    <3>1. z = v
      BY <2>2
    <3> QED
      BY <1>1, <1>3, <1>5, <1>6, <1>7, <2>2, <3>1
  <2> QED
    BY <1>9, <2>1, <2>2
<1>11. TakenOnce'
  <2>1. /\ \A j, k \in 1..Len(queue) : queue[j] = queue[k] => j = k
        /\ \A u \in Workers : hands[u] # None =>
                \E k \in 1..Len(queue) : k < next /\ queue[k] = hands[u].vpa
        /\ \A u, y \in Workers : u # y /\ hands[u] # None /\ hands[y] # None =>
                hands[u].vpa # hands[y].vpa
    BY <1>1 DEF KeptInv, TakenOnce
  <2>2. \A u \in Workers : hands[u] # None => hands[u].vpa # v
    BY <1>2, <2>1
  <2>3. ASSUME NEW u \in Workers, hands'[u] # None
        PROVE  \E k \in 1..Len(queue) : k < next' /\ queue[k] = hands'[u].vpa
    <3>1. CASE hands'[u] = hands[u]
      <4>1. PICK k \in 1..Len(queue) : k < next /\ queue[k] = hands[u].vpa
        BY <2>1, <2>3, <3>1
      <4>2. k < next'
        BY <1>1, <1>2, <4>1
      <4> QED
        BY <3>1, <4>1, <4>2
    <3>2. CASE hands'[u].vpa = v
      <4>1. next < next'
        BY <1>1, <1>2
      <4> QED
        BY <1>2, <3>2, <4>1
    <3> QED
      BY <1>9, <2>3, <3>1, <3>2
  <2>4. ASSUME NEW u \in Workers, NEW y \in Workers, u # y, hands'[u] # None, hands'[y] # None
        PROVE  hands'[u].vpa # hands'[y].vpa
    <3>1. CASE hands'[u] = hands[u] /\ hands'[y] = hands[y]
      BY <2>1, <2>4, <3>1
    <3>2. CASE u = w /\ hands'[u].vpa = v
      <4>1. hands'[y] = hands[y]
        BY <1>9, <2>4, <3>2
      <4> QED
        BY <2>2, <2>4, <3>2, <4>1
    <3>3. CASE y = w /\ hands'[y].vpa = v
      <4>1. hands'[u] = hands[u]
        BY <1>9, <2>4, <3>3
      <4> QED
        BY <2>2, <2>4, <3>3, <4>1
    <3> QED
      BY <1>9, <2>4, <3>1, <3>2, <3>3
  <2>5. queue' = queue
    BY <1>1
  <2> QED
    BY <2>1, <2>3, <2>4, <2>5 DEF TakenOnce
<1>12. StoredCovered'
  BY <1>1, <1>7 DEF KeptInv, StoredCovered, Covers
<1> QED
  BY <1>10, <1>11, <1>12 DEF KeptInv

LEMMA KeptWrite ==
    ASSUME IInv, KeptInv, NEW w \in Workers, CreateOrUpdateVpaCheckpoint(w)
    PROVE  KeptInv'
<1> DEFINE x == hands[w]
<1>1. /\ phase = "store" /\ x # None /\ hands' = [hands EXCEPT ![w] = None]
      /\ UNCHANGED <<aggs, phase, queue, next>>
      /\ stored' = stored \/ stored' = [stored EXCEPT ![x.vpa] = x.saved]
      /\ tracked' = tracked \/ tracked' = [tracked EXCEPT ![x.vpa].written = x.stamp]
  BY DEF CreateOrUpdateVpaCheckpoint
<1>2. x.vpa \in VPAs /\ x.saved.peaks \in SUBSET Peaks
  BY <1>1, PeaksTyped
<1>3. /\ hands \in [Workers -> Write \cup {None}] /\ tracked \in [VPAs -> Vpa \cup {None}]
      /\ stored \in [VPAs -> Checkpoint \cup {None}] /\ tracked[x.vpa] # None
  BY <1>1 DEF IInv, TypeOK, HeldPeaks
<1>4. x.saved.peaks \subseteq Merged(x.vpa)
  BY <1>1, <1>2 DEF KeptInv, HeldCovered
<1> HIDE DEF x
<1>5. \A v \in VPAs : stored'[v] = stored[v] \/ (v = x.vpa /\ stored'[v] = x.saved)
  BY <1>1, <1>2, <1>3
<1>6. ASSUME NEW v \in VPAs
      PROVE  /\ tracked'[v] # None <=> tracked[v] # None
             /\ tracked[v] # None => tracked'[v].initial = tracked[v].initial
  <2>1. CASE tracked'[v] = tracked[v]
    BY <2>1
  <2>2. CASE tracked'[v] # tracked[v]
    <3>1. v = x.vpa /\ tracked'[v] = [tracked[v] EXCEPT !.written = x.stamp]
      BY <1>1, <1>2, <1>3, <2>2
    <3>2. tracked[v] # None /\ tracked[v] \in Vpa
      BY <1>3, <3>1
    <3>3. tracked'[v].initial = tracked[v].initial
      BY <3>1, <3>2 DEF Vpa
    <3>4. tracked'[v] # None
      <4>1. IInv'
        BY WriteLemma
      <4>2. x \in Write
        BY <1>1, <1>3 DEF x
      <4>3. tracked'[v] \in Vpa
        BY <3>1, <3>2, <4>2 DEF Vpa, Write
      <4> QED
        BY <4>3, CheckpointsAssumption DEF CheckpointsAssumption
    <3> QED
      BY <3>2, <3>3, <3>4
  <2> QED
    BY <2>1, <2>2
<1>7. \A v \in VPAs : tracked[v] # None => Merged(v)' = Merged(v)
  BY <1>1, <1>6 DEF Merged
<1>8. StoredCovered'
  <2> SUFFICES ASSUME NEW v \in VPAs, Restored(v)'
               PROVE  Covers(Merged(v)', stored'[v].peaks)
    BY DEF StoredCovered, Covers
  <2>1. tracked[v] # None /\ tracked[v].initial # None /\ stored'[v] # None
    BY <1>6 DEF Restored
  <2>2. CASE stored'[v] = stored[v]
    <3>1. Covers(Merged(v), stored[v].peaks)
      BY <2>1, <2>2 DEF KeptInv, StoredCovered, Restored
    <3> QED
      BY <1>7, <2>1, <2>2, <3>1
  <2>3. CASE v = x.vpa /\ stored'[v] = x.saved
    <3>1. Covers(Merged(v), x.saved.peaks)
      BY <1>2, <1>4, <2>3, CoversItself
    <3> QED
      BY <1>7, <2>1, <2>3, <3>1
  <2> QED
    BY <1>5, <2>2, <2>3
<1>9. ASSUME NEW u \in Workers, hands'[u] # None
      PROVE  /\ hands'[u] = hands[u] /\ hands[u] # None
             /\ u # w /\ hands[u].vpa \in VPAs
  BY <1>1, <1>3, <1>9, PeaksTyped
<1>10. TakenOnce'
  <2>1. /\ \A j, k \in 1..Len(queue) : queue[j] = queue[k] => j = k
        /\ \A u \in Workers : hands[u] # None =>
                \E k \in 1..Len(queue) : k < next /\ queue[k] = hands[u].vpa
        /\ \A u, y \in Workers : u # y /\ hands[u] # None /\ hands[y] # None =>
                hands[u].vpa # hands[y].vpa
    BY <1>1 DEF KeptInv, TakenOnce
  <2>2. \A u \in Workers : hands'[u] # None =>
                \E k \in 1..Len(queue) : k < next /\ queue[k] = hands'[u].vpa
    BY <1>9, <2>1
  <2>3. \A u, y \in Workers : u # y /\ hands'[u] # None /\ hands'[y] # None =>
                hands'[u].vpa # hands'[y].vpa
    BY <1>9, <2>1
  <2>4. queue' = queue /\ next' = next
    BY <1>1
  <2> QED
    BY <2>1, <2>2, <2>3, <2>4 DEF TakenOnce
<1>11. HeldCovered'
  <2> SUFFICES ASSUME NEW u \in Workers, NEW v \in VPAs, hands'[u] # None, hands'[u].vpa = v
               PROVE  /\ hands'[u].saved.peaks \subseteq Merged(v)'
                      /\ Restored(v)' => Covers(hands'[u].saved.peaks, stored'[v].peaks)
    BY DEF HeldCovered, Covers
  <2>1. hands'[u] = hands[u] /\ hands[u] # None /\ u # w /\ hands[u].vpa = v
    BY <1>9
  <2>2. tracked[v] # None
    BY <2>1 DEF IInv, HeldPeaks
  <2>3. /\ hands[u].saved.peaks \subseteq Merged(v)
        /\ Restored(v) => Covers(hands[u].saved.peaks, stored[v].peaks)
    BY <2>1 DEF KeptInv, HeldCovered
  <2>4. v # x.vpa
    BY <1>1, <2>1 DEF KeptInv, TakenOnce, x
  <2>5. stored'[v] = stored[v]
    BY <1>5, <2>1, <2>4
  <2>6. Restored(v)' => Restored(v)
    BY <1>6, <2>1, <2>5 DEF Restored
  <2>7. Merged(v)' = Merged(v)
    BY <1>7, <2>1, <2>2
  <2> QED
    BY <2>1, <2>3, <2>5, <2>6, <2>7
<1> QED
  BY <1>8, <1>10, <1>11 DEF KeptInv

LEMMA KeptStep ==
    IInv /\ KeptInv /\ [Next]_vars => KeptInv'
<1> SUFFICES ASSUME IInv, KeptInv, [Next]_vars PROVE KeptInv'
  OBVIOUS
<1>1. CASE UNCHANGED vars \/ Tick \/ \E v \in VPAs : VPAChanges(v)
  <2>1. UNCHANGED <<stored, tracked, aggs, hands, queue, next, phase>>
    BY <1>1 DEF vars, Tick, VPAChanges, stores, memory, pool
  <2> QED
    BY <2>1, KeptQuiet
<1>2. CASE GarbageCollectCheckpoints \/ CheckpointsCollected \/ EndCycle
  <2>1. UNCHANGED <<stored, tracked, aggs, hands, queue, next>> /\ phase' # "store"
    BY <1>2 DEF GarbageCollectCheckpoints, CheckpointsCollected, EndCycle, stores, memory
  <2> QED
    BY <2>1, KeptQuiet
<1>3. CASE LoadVPAs
  <2>1. /\ phase = "idle" /\ phase' = "metrics" /\ UNCHANGED <<stored, aggs, hands, queue, next>>
        /\ tracked' = [v \in VPAs |-> IF v \notin listed THEN None
                                      ELSE IF tracked[v] = None THEN NewVpa ELSE tracked[v]]
    BY <1>3 DEF LoadVPAs, stores, pool
  <2>2. \A v \in VPAs : tracked'[v] # None /\ tracked'[v].initial # None =>
            tracked'[v] = tracked[v]
    BY <2>1 DEF NewVpa
  <2>3. \A w \in Workers : hands[w] = None
    BY <2>1 DEF IInv, HeldPeaks
  <2> QED
    BY <2>1, <2>2, <2>3, KeptQuiet
<1>4. CASE \E v \in VPAs : DeleteCheckpoint(v)
  <2>1. PICK v \in VPAs : DeleteCheckpoint(v)
    BY <1>4
  <2>2. /\ UNCHANGED <<tracked, aggs, hands, queue, next, phase>>
        /\ stored' = stored \/ stored' = [stored EXCEPT ![v] = None]
    BY <2>1 DEF DeleteCheckpoint, memory
  <2>3. stored \in [VPAs -> Checkpoint \cup {None}]
    BY DEF IInv, TypeOK
  <2>4. \A u \in VPAs : stored'[u] # None => stored'[u] = stored[u]
    BY <2>2, <2>3
  <2> QED
    BY <2>2, <2>4, KeptQuiet
<1>5. CASE Restart
  BY <1>5, KeptRestart
<1>6. CASE \E v \in VPAs, ts \in started..now, usage \in Usages :
                AddSample(v, ts, usage) \/ RecordOOM(v, ts, usage)
  BY <1>6, KeptFeed
<1>7. CASE StoreCheckpoints
  BY <1>7, KeptStore
<1>8. CASE \E w \in Workers : Take(w) \/ CreateOrUpdateVpaCheckpoint(w)
  BY <1>8, KeptTake, KeptWrite
<1> QED
  BY <1>1, <1>2, <1>3, <1>4, <1>5, <1>6, <1>7, <1>8 DEF Next

\* No step loses restored history.
LEMMA KeepsStep ==
    IInv /\ KeptInv /\ [Next]_vars => Keeps
<1> SUFFICES ASSUME IInv, KeptInv, [Next]_vars, NEW v \in Tracked,
                    tracked[v].initial # None, stored[v] # None
             PROVE  IF stored'[v] = None THEN v \in orphans
                    ELSE Covers(stored'[v].peaks, stored[v].peaks)
  BY DEF Keeps, Covers
<1>1. v \in VPAs /\ tracked[v] # None
  BY DEF Tracked
<1>2. stored[v].peaks \in SUBSET Peaks
  BY <1>1, PeaksTyped
<1>3. stored \in [VPAs -> Checkpoint \cup {None}]
  BY DEF IInv, TypeOK
<1>4. CASE stored'[v] = stored[v]
  <2>1. Covers(stored[v].peaks, stored[v].peaks)
    BY <1>2, CoversItself
  <2> QED
    BY <1>4, <2>1
<1>5. CASE \E u \in VPAs : DeleteCheckpoint(u)
  <2>1. PICK u \in VPAs : DeleteCheckpoint(u)
    BY <1>5
  <2>2. u \in orphans /\ (stored' = stored \/ stored' = [stored EXCEPT ![u] = None])
    BY <2>1 DEF DeleteCheckpoint
  <2>3. stored'[v] = stored[v] \/ (v = u /\ stored'[v] = None)
    BY <1>1, <1>3, <2>2
  <2> QED
    BY <1>4, <2>2, <2>3
<1>6. CASE \E w \in Workers : CreateOrUpdateVpaCheckpoint(w)
  <2>1. PICK w \in Workers : CreateOrUpdateVpaCheckpoint(w)
    BY <1>6
  <2>2. /\ hands[w] # None
        /\ stored' = stored \/ stored' = [stored EXCEPT ![hands[w].vpa] = hands[w].saved]
    BY <2>1 DEF CreateOrUpdateVpaCheckpoint
  <2>3. stored'[v] = stored[v] \/ (v = hands[w].vpa /\ stored'[v] = hands[w].saved)
    BY <1>1, <1>3, <2>2
  <2>4. CASE v = hands[w].vpa /\ stored'[v] = hands[w].saved
    <3>1. Covers(hands[w].saved.peaks, stored[v].peaks)
      BY <1>1, <2>2, <2>4 DEF KeptInv, HeldCovered, Restored
    <3>2. hands[w].saved # None
      <4>1. hands[w] \in Write
        BY <2>2 DEF IInv, TypeOK
      <4> QED
        BY <4>1, CheckpointsAssumption DEF Write, CheckpointsAssumption
    <3> QED
      BY <2>4, <3>1, <3>2
  <2> QED
    BY <1>4, <2>3, <2>4
<1>7. CASE ~ \/ \E u \in VPAs : DeleteCheckpoint(u)
             \/ \E w \in Workers : CreateOrUpdateVpaCheckpoint(w)
  <2>1. stored' = stored
    BY <1>7 DEF Next, vars, Restart, Tick, VPAChanges, AddSample, RecordOOM, LoadVPAs,
                StoreCheckpoints, Take, GarbageCollectCheckpoints, CheckpointsCollected,
                EndCycle, stores
  <2> QED
    BY <1>4, <2>1
<1> QED
  BY <1>5, <1>6, <1>7

\* Whatever fails and whenever the process restarts, restored peaks stay stored.
THEOREM RestoredHistoryKept ==
    Spec => RestoredKept
<1>1. Init => KeptInv
  BY KeptInit
<1>2. IInv /\ KeptInv /\ [Next]_vars => KeptInv'
  BY KeptStep
<1>3. IInv /\ KeptInv /\ [Next]_vars => [Keeps]_vars
  BY KeepsStep
<1> QED
  BY <1>1, <1>2, <1>3, Invariance, PTL DEF Spec, RestoredKept
=============================================================================
