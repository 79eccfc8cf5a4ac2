------------------- MODULE StreamingWhisperEngine_proofs -------------------
(***************************************************************************)
(* What a pass erases, for every buffer, chunk, window, padding, list of   *)
(* speech segments and list of whisper's times.                            *)
(***************************************************************************)
EXTENDS StreamingWhisperEngine, SequenceTheorems, WellFoundedInduction, TLAPS

(***************************************************************************)
(* VadGate: the gate's mapping and its output for every buffer, every      *)
(* padding and every number of segments the detector may return.           *)
(***************************************************************************)
\* A set of naturals that is not empty has a least element, so the loop of
\* mapGatedToOriginalSamples() has a first segment to return at.
LEMMA LeastNatural ==
  ASSUME NEW T, T \subseteq Nat, T # {}
  PROVE  \E x \in T : \A y \in T : x <= y
  <1> DEFINE R == OpToRel(<, Nat)
  <1>1. IsWellFoundedOn(R, Nat)
    BY NatLessThanWellFounded
  <1>2. \A x, y \in Nat : <<y, x>> \in R <=> y < x
    BY DEF OpToRel
  <1> HIDE DEF R
  <1>3. PICK x \in T : \A y \in T : ~(<<y, x>> \in R)
    BY <1>1, WFMin
  <1>4. ASSUME NEW y \in T PROVE x <= y
    <2>1. ~(y < x)
      BY <1>2, <1>3, Zenon
    <2> QED
      BY <2>1
  <1> QED
    BY <1>4

\* FirstHit is a segment the loop stops at, and no earlier one is.
LEMMA FirstHitIsFirst ==
  ASSUME NEW m \in Seq(SegmentMapping), NEW g \in Nat, Hits(m, g) # {}
  PROVE  /\ FirstHit(m, g) \in 1..Len(m) /\ FirstHit(m, g) \in Hits(m, g)
         /\ \A k \in 1..Len(m) : k < FirstHit(m, g) => k \notin Hits(m, g)
  <1>1. Hits(m, g) \subseteq Nat /\ Hits(m, g) \subseteq 1..Len(m)
    BY DEF Hits
  <1>2. \E j \in Hits(m, g) : \A k \in Hits(m, g) : j <= k
    BY <1>1, LeastNatural
  <1>3. /\ FirstHit(m, g) \in Hits(m, g)
        /\ \A k \in Hits(m, g) : FirstHit(m, g) <= k
    BY <1>2, Zenon DEF FirstHit
  <1> QED
    BY <1>1, <1>3

\* A function on 1..n is a sequence of length n.
LEMMA FunctionIsSeq ==
  ASSUME NEW S, NEW n \in Nat, NEW f \in [1..n -> S]
  PROVE  f \in Seq(S) /\ Len(f) = n
  <1>1. f \in Seq(S)
    BY IsASeq
  <1>2. DOMAIN f = 1..n /\ DOMAIN f = 1..Len(f) /\ Len(f) \in Nat
    BY <1>1, LenProperties
  <1> QED
    BY <1>1, <1>2

\* What Keep appends: n samples from "from" on and a run of silence ...
Runs(s, from, n, gap) == s \o [k \in 1..n |-> from + k - 1] \o [k \in 1..gap |-> Silence]

\* ... and where each sample of the result r ends up.
Laid(s, from, n, gap, r) ==
  /\ r \in Seq(Nat \cup {Silence}) /\ Len(r) = Len(s) + n + gap
  /\ \A p \in 1..Len(s) : r[p] = s[p]
  /\ \A k \in 1..n : r[Len(s) + k] = from + k - 1
  /\ \A p \in 1..Len(r) : p > Len(s) + n => r[p] = Silence

\* Copying a segment keeps the samples before it in place.
LEMMA ConcatRuns ==
  ASSUME NEW s \in Seq(Nat \cup {Silence}), NEW from \in Nat, NEW n \in Nat, NEW gap \in Nat
  PROVE  Laid(s, from, n, gap, Runs(s, from, n, gap))
  <1> DEFINE V == Nat \cup {Silence}
             a == [k \in 1..n |-> from + k - 1]
             b == [k \in 1..gap |-> Silence]
             q == s \o a
             r == q \o b
  <1>1. a \in Seq(V) /\ Len(a) = n /\ b \in Seq(V) /\ Len(b) = gap
    <2>1. a \in [1..n -> V] /\ b \in [1..gap -> V]
      OBVIOUS
    <2> QED
      BY <2>1, IsASeq, LenProperties
  <1>2. /\ q \in Seq(V) /\ Len(q) = Len(s) + n
        /\ \A p \in 1..(Len(s) + n) : q[p] = IF p <= Len(s) THEN s[p] ELSE a[p - Len(s)]
    BY <1>1, ConcatProperties
  <1>3. /\ r \in Seq(V) /\ Len(r) = Len(q) + gap
        /\ \A p \in 1..(Len(q) + gap) : r[p] = IF p <= Len(q) THEN q[p] ELSE b[p - Len(q)]
    <2> HIDE DEF q, b, a, V
    <2>1. r = q \o b
      OBVIOUS
    <2>2. /\ q \o b \in Seq(V) /\ Len(q \o b) = Len(q) + Len(b)
          /\ \A p \in 1..(Len(q) + Len(b)) :
               (q \o b)[p] = IF p <= Len(q) THEN q[p] ELSE b[p - Len(q)]
      <3>1. q \in Seq(V) /\ b \in Seq(V)
        BY <1>1, <1>2
      <3> QED
        BY <3>1, ConcatProperties, Zenon
    <2>3. Len(b) = gap
      BY <1>1
    <2> QED
      BY <2>1, <2>2, <2>3, Zenon
  <1>4. Len(s) \in Nat
    BY LenProperties
  <1>5. \A p \in 1..Len(s) : r[p] = s[p]
    BY <1>2, <1>3, <1>4
  <1>6. \A k \in 1..n : r[Len(s) + k] = from + k - 1
    <2> TAKE k \in 1..n
    <2>1. r[Len(s) + k] = a[k]
      <3> HIDE DEF a, q
      <3>1. /\ Len(s) + k \in 1..(Len(s) + n) /\ ~(Len(s) + k <= Len(s))
            /\ Len(s) + k - Len(s) = k
        BY <1>4
      <3>2. q[Len(s) + k] = a[k]
        BY <1>2, <3>1
      <3>3. r[Len(s) + k] = q[Len(s) + k]
        <4>1. Len(s) + k \in 1..(Len(q) + gap) /\ Len(s) + k <= Len(q)
          BY <1>2, <1>4, <3>1
        <4> QED
          BY <1>3, <4>1
      <3> QED
        BY <3>2, <3>3
    <2> QED
      BY <2>1
  <1>7. \A p \in 1..Len(r) : p > Len(s) + n => r[p] = Silence
    BY <1>2, <1>3, <1>4
  <1>8. r = Runs(s, from, n, gap)
    BY DEF Runs
  <1> QED
    <2> HIDE DEF r, a, b, q
    <2> QED
      BY <1>2, <1>3, <1>5, <1>6, <1>7, <1>8 DEF Laid

\* The mapping divides the speech at any time, under the invariant of the loop.
LEMMA MappingSeparates ==
  ASSUME GateTypeOK, LoopSound, PartsSound, PartsOrdered, SamplesTraced,
         NEW g \in Nat, NEW p \in 1..Len(samples), samples[p] # Silence
  PROVE  p <= g <=> samples[p] < mapGatedToOriginalSamples(mapping, g, original_total)
  <1> DEFINE m == mapping
             gs(k) == m[k].gated_start
             ge(k) == m[k].gated_end
             os(k) == m[k].original_start
             oe(k) == m[k].original_end
             x == samples[p]
  <1>1. PICK i \in 1..Len(m) : CopiedBy(i, p)
    BY DEF SamplesTraced
  <1>2. Len(m) \in Nat /\ \A k \in 1..Len(m) : m[k] \in SegmentMapping
    BY LenProperties, ElementOfSeq DEF GateTypeOK
  <1>3. \A k \in 1..Len(m) : gs(k) \in Nat /\ ge(k) \in Nat /\ os(k) \in Nat /\ oe(k) \in Nat
    BY <1>2 DEF SegmentMapping
  <1>4. \A k \in 1..Len(m) : /\ gs(k) < ge(k) /\ oe(k) - os(k) = ge(k) - gs(k)
                             /\ oe(k) <= prev_seg_end
    BY DEF PartsSound
  <1>5. \A k, l \in 1..Len(m) : k < l => ge(k) <= gs(l) /\ oe(k) <= os(l)
    BY DEF PartsOrdered
  <1>6. gs(i) < p /\ p <= ge(i) /\ x = os(i) + (p - 1 - gs(i))
    BY <1>1 DEF CopiedBy
  <1>7. m # <<>>
    BY <1>1
  <1>8. \A k \in 1..Len(m) : k \in Hits(m, g) <=> (g < gs(k) \/ g < ge(k))
    BY DEF Hits
  <1>9. oe(Len(m)) <= original_total /\ original_total \in Nat /\ prev_seg_end \in Nat
    BY <1>1, <1>2, <1>3, <1>4, SMTT(30) DEF LoopSound, GateTypeOK
  <1>12. \A k, l \in 1..Len(m) : k <= l => oe(k) <= oe(l)
    <2> HIDE DEF m, gs, ge, os, oe
    <2> TAKE k, l \in 1..Len(m)
    <2>1. k \in Int /\ l \in Int
      BY <1>2
    <2>2. CASE k = l
      BY <1>3, <2>2
    <2>3. CASE k < l
      <3>1. oe(k) <= os(l)
        BY <1>5, <2>3
      <3>2. os(l) < oe(l)
        <4>1. gs(l) < ge(l) /\ oe(l) - os(l) = ge(l) - gs(l)
          BY <1>4
        <4> QED
          BY <1>3, <4>1, SMTT(30)
      <3> QED
        BY <1>3, <3>1, <3>2, SMTT(30)
    <2> QED
      BY <2>1, <2>2, <2>3
  <1>13. /\ x \in Nat /\ os(i) <= x /\ x < oe(i) /\ i \in Nat /\ p \in Nat
    <2> HIDE DEF m, gs, ge, os, oe, x
    <2>1. oe(i) - os(i) = ge(i) - gs(i)
      BY <1>1, <1>4
    <2>2. gs(i) \in Nat /\ ge(i) \in Nat /\ os(i) \in Nat /\ oe(i) \in Nat
      BY <1>1, <1>3
    <2> QED
      BY <1>1, <1>2, <1>6, <2>1, <2>2, LenProperties, SMTT(30) DEF GateTypeOK
  <1>10. CASE Hits(m, g) = {}
    <2>1. mapGatedToOriginalSamples(m, g, original_total) = oe(Len(m))
      BY <1>7, <1>9, <1>10 DEF mapGatedToOriginalSamples, Smaller
    <2> HIDE DEF m, gs, ge, os, oe, x
    <2>2. p <= g
      BY <1>1, <1>3, <1>6, <1>8, <1>10
    <2>3. oe(i) <= oe(Len(m)) /\ oe(i) \in Nat /\ oe(Len(m)) \in Nat
      BY <1>1, <1>2, <1>3, <1>12
    <2>5. x < oe(Len(m))
      BY <1>13, <2>3
    <2> QED
      BY <2>1, <2>2, <2>5 DEF m, x
  <1>11. CASE Hits(m, g) # {}
    <2> DEFINE j == FirstHit(m, g)
               v == mapGatedToOriginalSamples(m, g, original_total)
    <2>1. /\ j \in 1..Len(m) /\ j \in Hits(m, g)
          /\ \A k \in 1..Len(m) : k < j => k \notin Hits(m, g)
      BY <1>11, FirstHitIsFirst DEF GateTypeOK
    <2>2. v = IF g < gs(j) THEN IF j = 1 THEN 0 ELSE oe(j - 1) ELSE os(j) + (g - gs(j))
      BY <1>7, <1>11 DEF mapGatedToOriginalSamples
    <2> SUFFICES p <= g <=> x < v
      OBVIOUS
    <2> HIDE DEF m, gs, ge, os, oe, x, j, v
    <2>7. /\ gs(j) \in Nat /\ ge(j) \in Nat /\ os(j) \in Nat /\ oe(j) \in Nat
          /\ gs(j) < ge(j) /\ oe(j) - os(j) = ge(j) - gs(j)
      BY <1>3, <1>4, <2>1
    <2>8. g < ge(j) /\ j \in Nat
      BY <1>2, <1>8, <2>1, <2>7
    <2>9. p <= g => gs(i) < g
      BY <1>1, <1>3, <1>6, <1>13
    <2>3. /\ x \in Nat /\ os(i) <= x /\ x < oe(i) /\ i \in Nat /\ j \in Nat
          /\ (p <= g => gs(i) < g) /\ g < ge(j)
      BY <1>13, <2>8, <2>9
    <2>4. CASE i < j
      <3>1. p <= g
        BY <1>1, <1>3, <1>6, <1>8, <2>1, <2>4, SMTT(30)
      <3>2. CASE g < gs(j)
        <4>1. j - 1 \in 1..Len(m) /\ i <= j - 1 /\ v = oe(j - 1)
          BY <1>1, <1>2, <2>1, <2>2, <2>4, <3>2
        <4>2. oe(i) <= oe(j - 1)
          BY <1>1, <1>12, <4>1, Zenon
        <4>3. oe(i) \in Nat /\ oe(j - 1) \in Nat
          BY <1>1, <1>3, <4>1
        <4> QED
          BY <2>3, <3>1, <4>1, <4>2, <4>3
      <3>3. CASE ~(g < gs(j))
        <4>1. oe(i) <= os(j) /\ v >= os(j) /\ v \in Int
          BY <1>1, <1>3, <1>5, <2>1, <2>2, <2>4, <3>3, SMTT(30)
        <4> QED
          BY <1>1, <1>3, <2>1, <2>3, <3>1, <4>1, SMTT(30)
      <3> QED
        BY <3>2, <3>3
    <2>5. CASE i = j
      <3>1. CASE g < gs(j)
        <4>1. ~(p <= g)
          BY <1>1, <1>3, <2>3, <2>5, <3>1
        <4>2. v <= os(i) /\ v \in Int
          <5>1. CASE j = 1
            BY <1>1, <1>3, <2>2, <3>1, <5>1
          <5>2. CASE j # 1
            <6>1. j - 1 \in 1..Len(m) /\ j - 1 < i /\ v = oe(j - 1)
              BY <1>2, <2>1, <2>2, <2>5, <3>1, <5>2
            <6> QED
              BY <1>1, <1>3, <1>5, <6>1
          <5> QED
            BY <5>1, <5>2
        <4> QED
          BY <1>1, <1>3, <2>3, <4>1, <4>2
      <3>2. CASE ~(g < gs(j))
        <4>1. v = os(i) + (g - gs(i))
          BY <2>2, <2>5, <3>2
        <4> QED
          BY <1>1, <1>3, <1>6, <4>1, SMTT(30)
      <3> QED
        BY <3>1, <3>2
    <2>6. CASE j < i
      <3>1. ge(j) <= gs(i) /\ oe(j) <= os(i)
        BY <1>1, <1>5, <2>1, <2>6
      <3>2. ~(p <= g)
        BY <1>1, <1>3, <2>1, <2>3, <3>1, SMTT(30)
      <3>3. v <= os(i) /\ v \in Int
        <4>1. CASE g < gs(j) /\ j = 1
          BY <1>1, <1>3, <2>2, <4>1
        <4>2. CASE g < gs(j) /\ j # 1
          <5>1. j - 1 \in 1..Len(m) /\ j - 1 < i /\ v = oe(j - 1)
            BY <1>2, <2>1, <2>2, <2>3, <2>6, <4>2
          <5> QED
            BY <1>1, <1>3, <1>5, <5>1
        <4>3. CASE ~(g < gs(j))
          BY <1>1, <1>3, <2>2, <2>3, <2>7, <3>1, <4>3, SMTT(30)
        <4> QED
          BY <4>1, <4>2, <4>3
      <3> QED
        BY <1>1, <1>3, <2>3, <3>2, <3>3
    <2> QED
      BY <2>3, <2>4, <2>5, <2>6
  <1> QED
    BY <1>10, <1>11

\* One iteration: where the segment is cut, in numbers.
LEMMA CutFacts ==
  ASSUME GateTypeOK, LoopSound, NEW i \in 1..Len(segments)
  PROVE  /\ cs_to_samples(segments[i].t0) \in Nat /\ cs_to_samples(segments[i].t1) \in Nat
         /\ SegStart(segments[i]) \in Nat /\ SegEnd(segments[i]) \in Nat
         /\ prev_seg_end <= SegStart(segments[i])
         /\ cs_to_samples(segments[i].t0) <= Larger(SegStart(segments[i]), prev_seg_end) + Pad
         /\ SegStart(segments[i]) <= Larger(cs_to_samples(segments[i].t0), prev_seg_end)
         /\ SegEnd(segments[i]) <= original_total
         /\ cs_to_samples(segments[i].t1) <= SegEnd(segments[i])
  <1>1. segments[i].t0 \in Nat /\ segments[i].t1 \in Nat
    <2>1. segments[i] \in [t0 : Nat, t1 : Nat]
      BY ElementOfSeq DEF GateTypeOK
    <2> QED
      BY <2>1
  <1>2. original_total \in Nat /\ prev_seg_end \in Nat /\ Pad \in Nat
    BY GateConstants DEF GateConstants, GateTypeOK
  <1> QED
    BY <1>1, <1>2, SMTT(30) DEF cs_to_samples, SegStart, SegEnd, Smaller, Larger

\* The initial state satisfies the invariant.
LEMMA GateInitInv == GateInit => GateInv
  <1> SUFFICES ASSUME GateInit PROVE GateInv
    OBVIOUS
  <1>1. /\ mapping \in Seq(SegmentMapping) /\ segments \in Seq([t0 : Nat, t1 : Nat])
        /\ samples \in Seq(Nat \cup {Silence})
    BY EmptySeq DEF GateInit
  <1>2. vad_ctx \in BOOLEAN
    BY Zenon DEF GateInit
  <1> QED
    BY <1>1, <1>2 DEF GateInit, GateInv, GateTypeOK, SpeechKept

\* A buffer is taken in: the loop starts with nothing copied.
LEMMA BeginInv ==
  ASSUME GateInv, NEW total \in Totals, GateThrows(total) \/ GateDetects(total)
  PROVE  GateInv'
  <1>1. /\ mapping' = <<>> /\ original_total' = total /\ seg' = 1 /\ gated_cursor' = 0
        /\ prev_seg_end' = 0 /\ samples' = <<>> /\ total \in Nat
    BY GateConstants DEF GateConstants, GateThrows, GateDetects, Begin
  <1>2. vad_ctx' \in BOOLEAN
    BY Zenon DEF GateThrows, GateDetects, GateInv, GateTypeOK
  <1>3. mapping' \in Seq(SegmentMapping) /\ samples' \in Seq(Nat \cup {Silence})
    BY <1>1, EmptySeq
  <1>4. SpeechKept'
    BY <1>1 DEF SpeechKept
  <1>5. CASE GateThrows(total)
    BY <1>1, <1>2, <1>3, <1>4, <1>5 DEF GateThrows, Begin, GateInv, GateTypeOK
  <1>6. CASE GateDetects(total)
    <2>1. PICK n \in 0..MaxSegments :
            segments' \in [1..n -> [t0 : 0..total, t1 : 0..(total + 1)]]
      BY <1>6 DEF GateDetects, Detections
    <2>2. /\ \A i \in DOMAIN segments' : segments'[i].t0 < segments'[i].t1
          /\ \A i, j \in DOMAIN segments' : i < j => segments'[i].t0 <= segments'[j].t0
      BY <1>6 DEF GateDetects, Detections
    <2>3. n \in Nat
      BY GateConstants DEF GateConstants
    <2>4. segments' \in [1..n -> [t0 : Nat, t1 : Nat]]
      BY <1>1, <2>1
    <2>5. segments' \in Seq([t0 : Nat, t1 : Nat]) /\ Len(segments') = n
      BY <2>3, <2>4, FunctionIsSeq, Zenon
    <2>6. gate_pc' = "silence" \/ (gate_pc' = "loop" /\ n > 0)
      <3>1. CASE segments' = <<>>
        BY <1>6, <3>1 DEF GateDetects
      <3>2. CASE segments' # <<>>
        <4>1. n # 0
          BY <2>5, <3>2, EmptySeq
        <4> QED
          BY <1>6, <2>3, <3>2, <4>1 DEF GateDetects
      <3> QED
        BY <3>1, <3>2
    <2>7. \A i \in 1..n : segments'[i].t0 <= segments'[i].t1
      BY <2>2, <2>4
    <2>8. LoopSound'
      <3>1. DOMAIN segments' = 1..n
        BY <2>4
      <3>2. Len(samples') = 0
        BY <1>1, EmptySeq
      <3>3. \A i, j \in 1..n : i < j => segments'[i].t0 <= segments'[j].t0
        BY <2>2, <3>1, Zenon
      <3>4. 1 <= n + 1 /\ (gate_pc' = "loop" => 1 <= n) /\ 0 <= total
        BY <1>1, <2>3, <2>6
      <3> QED
        BY <1>1, <2>5, <2>7, <3>2, <3>3, <3>4, Zenon DEF LoopSound
    <2>9. PartsSound' /\ PartsOrdered' /\ SamplesTraced' /\ NothingLost'
      BY <1>1 DEF PartsSound, PartsOrdered, SamplesTraced, NothingLost
    <2>10. GateTypeOK'
      BY <1>1, <1>2, <1>3, <2>5, <2>6 DEF GateTypeOK
    <2> QED
      BY <1>4, <2>6, <2>8, <2>9, <2>10 DEF GateInv
  <1> QED
    BY <1>5, <1>6

\* The caller lets go of the result.
LEMMA ForgetInv ==
  ASSUME GateInv, GateForget
  PROVE  GateInv'
  <1>1. segments' \in Seq([t0 : Nat, t1 : Nat]) /\ samples' \in Seq(Nat \cup {Silence})
    BY EmptySeq DEF GateForget
  <1> QED
    BY <1>1 DEF GateForget, GateInv, GateTypeOK, SpeechKept

\* One iteration of the loop, whether the segment is copied or skipped: what it
\* copies, and that everything the segment claims is there afterwards.
LEMMA SegmentInv ==
  ASSUME GateInv, GateSegment
  PROVE  GateInv'
  <1> DEFINE from == SegStart(segments[seg])
             to == SegEnd(segments[seg])
             start(i) == cs_to_samples(segments[i].t0)
             end(i) == cs_to_samples(segments[i].t1)
             has(s, x) == \E p \in 1..Len(s) : s[p] = x
  <1>1. /\ GateTypeOK /\ SpeechKept /\ LoopSound /\ PartsSound /\ PartsOrdered
        /\ SamplesTraced /\ NothingLost /\ gate_pc = "loop"
    BY DEF GateInv, GateSegment
  <1>2. /\ seg \in 1..Len(segments) /\ seg \in Nat /\ seg > 0 /\ Len(segments) \in Nat
        /\ prev_seg_end \in Nat /\ gated_cursor \in Nat /\ original_total \in Nat
        /\ Len(samples) = gated_cursor /\ Len(mapping) \in Nat
    BY <1>1, LenProperties DEF GateTypeOK, LoopSound
  <1>3. /\ from \in Nat /\ to \in Nat /\ start(seg) \in Nat /\ end(seg) \in Nat
        /\ prev_seg_end <= from /\ to <= original_total /\ end(seg) <= to
        /\ from <= Larger(start(seg), prev_seg_end)
    BY <1>1, <1>2, CutFacts
  <1>4. /\ UNCHANGED <<vad_ctx, original_total, segments>> /\ seg' = seg + 1
        /\ gate_pc' \in {"loop", "speech", "silence"}
        /\ (gate_pc' = "loop" => seg < Len(segments))
    BY DEF GateSegment
  <1>5. \A i : start(i)' = start(i) /\ end(i)' = end(i)
    BY <1>4 DEF cs_to_samples
  <1>6. Keep(from, to) \/ Skip(from, to)
    BY DEF GateSegment
  <1> HIDE DEF from, to
  <1>7. GapAfter(seg) \in Nat
    BY GateConstants DEF GateConstants, GapAfter
  <1>8. ASSUME Keep(from, to)
        PROVE  /\ from < to /\ prev_seg_end' = to
               /\ samples' \in Seq(Nat \cup {Silence})
               /\ Len(samples') = gated_cursor + (to - from) + GapAfter(seg)
               /\ gated_cursor' = Len(samples')
               /\ \A p \in 1..Len(samples) : samples'[p] = samples[p]
               /\ \A k \in 1..(to - from) : samples'[gated_cursor + k] = from + k - 1
               /\ \A p \in 1..Len(samples') : p > gated_cursor + (to - from) => samples'[p] = Silence
    <2>1. from < to /\ to - from \in Nat
      BY <1>3, <1>8 DEF Keep
    <2>2. samples' = samples \o [k \in 1..(to - from) |-> from + k - 1]
                             \o [k \in 1..GapAfter(seg) |-> Silence]
      BY <1>8 DEF Keep
    <2>3. samples \in Seq(Nat \cup {Silence})
      BY <1>1 DEF GateTypeOK
    <2> DEFINE n == to - from
               r == samples'
    <2>4. /\ r \in Seq(Nat \cup {Silence}) /\ Len(r) = Len(samples) + n + GapAfter(seg)
          /\ \A p \in 1..Len(samples) : r[p] = samples[p]
          /\ \A k \in 1..n : r[Len(samples) + k] = from + k - 1
          /\ \A p \in 1..Len(r) : p > Len(samples) + n => r[p] = Silence
      <3>1. r = samples \o [k \in 1..n |-> from + k - 1] \o [k \in 1..GapAfter(seg) |-> Silence]
        BY <2>2
      <3>2. n \in Nat
        BY <2>1
      <3>3. from \in Nat
        BY <1>3
      <3>4. r = Runs(samples, from, n, GapAfter(seg))
        BY <3>1 DEF Runs
      <3> HIDE DEF n, r
      <3>5. Laid(samples, from, n, GapAfter(seg), r)
        BY <1>7, <2>3, <3>2, <3>3, <3>4, ConcatRuns, Zenon
      <3> QED
        BY <3>5 DEF Laid
    <2>5. prev_seg_end' = to /\ gated_cursor' = gated_cursor + (to - from) + GapAfter(seg)
      BY <1>8 DEF Keep, KeptEnd
    <2> QED
      BY <1>2, <2>1, <2>4, <2>5
  <1>9. \A x : has(samples, x) => has(samples', x)
    <2>1. CASE Keep(from, to)
      BY <1>2, <1>3, <1>7, <1>8, <2>1, SMTT(30)
    <2>2. CASE Skip(from, to)
      BY <2>2 DEF Skip
    <2> QED
      BY <1>6, <2>1, <2>2
  <1>10. prev_seg_end' \in Nat /\ prev_seg_end' <= original_total /\ to <= Larger(prev_seg_end', from)
         /\ prev_seg_end' <= Larger(prev_seg_end, to)
    <2>1. CASE Keep(from, to)
      BY <1>3, <1>8, <2>1 DEF Larger
    <2>2. CASE Skip(from, to)
      BY <1>1, <1>2, <1>3, <2>2 DEF Skip, LoopSound, Larger
    <2> QED
      BY <1>6, <2>1, <2>2
\* Everything from the segment's start on that is below "to" or was below
\* prev_seg_end has been copied, now or before.
  <1>11. ASSUME NEW x \in Nat, start(seg) <= x, x < Larger(prev_seg_end, to)
         PROVE  has(samples', x)
    <2>1. CASE x < prev_seg_end
      <3>1. seg > 1
        BY <1>1, <1>2, <2>1 DEF LoopSound
      <3>2. seg - 1 \in 1..Len(segments) /\ seg - 1 < seg
        BY <1>2, <3>1
      <3>3. start(seg - 1) <= start(seg) /\ start(seg - 1) \in Nat
        <4>1. segments[seg - 1].t0 <= segments[seg].t0
          BY <1>1, <1>2, <3>2 DEF LoopSound
        <4>2. segments[seg - 1] \in [t0 : Nat, t1 : Nat] /\ segments[seg] \in [t0 : Nat, t1 : Nat]
          BY <1>1, <1>2, <3>2, ElementOfSeq DEF GateTypeOK
        <4> QED
          BY <1>2, <4>1, <4>2 DEF cs_to_samples, Smaller
      <3>4. x \in start(seg - 1)..(prev_seg_end - 1)
        BY <1>2, <1>3, <1>11, <2>1, <3>3
      <3>5. has(samples, x)
        BY <1>1, <3>1, <3>4 DEF NothingLost
      <3> QED
        BY <1>9, <3>5
    <2>2. CASE ~(x < prev_seg_end)
      <3>1. from <= x /\ x < to
        BY <1>2, <1>3, <1>11, <2>2 DEF Larger
      <3>2. Keep(from, to)
        BY <1>3, <1>6, <3>1 DEF Skip
      <3> DEFINE k == x - from + 1
      <3>3. k \in 1..(to - from) /\ from + k - 1 = x
        BY <1>3, <3>1
      <3>4. samples'[gated_cursor + k] = x
        BY <1>8, <3>2, <3>3
      <3>5. gated_cursor + k \in 1..Len(samples')
        BY <1>2, <1>3, <1>7, <1>8, <3>2, <3>3, SMTT(30)
      <3> QED
        BY <3>4, <3>5
    <2> QED
      BY <2>1, <2>2
  <1>12. SpeechKept'
    <2> SUFFICES ASSUME NEW i \in 1..seg, NEW x \in start(i)..(end(i) - 1)
                 PROVE  has(samples', x)
      BY <1>2, <1>4, <1>5 DEF SpeechKept
    <2>1. CASE i = seg
      <3>1. x \in Nat /\ start(seg) <= x /\ x < Larger(prev_seg_end, to)
        BY <1>2, <1>3, <2>1 DEF Larger
      <3> QED
        BY <1>11, <3>1
    <2>2. CASE i # seg
      <3>1. i \in 1..(seg - 1)
        BY <1>2, <2>2
      <3>2. has(samples, x)
        BY <1>1, <3>1 DEF SpeechKept
      <3> QED
        BY <1>9, <3>2
    <2> QED
      BY <2>1, <2>2
  <1>13. NothingLost'
    <2> SUFFICES ASSUME NEW x, x \in start(seg)..(prev_seg_end' - 1)
                 PROVE  has(samples', x)
      <3>1. seg' - 1 = seg
        BY <1>2, <1>4
      <3> QED
        BY <1>5, <3>1 DEF NothingLost
    <2>1. x \in Nat /\ start(seg) <= x /\ x < Larger(prev_seg_end, to)
      <3> DEFINE last == prev_seg_end'
                 first == start(seg)
                 bound == Larger(prev_seg_end, to)
      <3>1. first \in Nat /\ last \in Nat /\ last <= bound /\ bound \in Nat
        BY <1>2, <1>3, <1>10 DEF Larger
      <3>2. x \in first..(last - 1)
        OBVIOUS
      <3> HIDE DEF first, last, bound
      <3>3. x \in Nat /\ first <= x /\ x < bound
        BY <3>1, <3>2
      <3> QED
        BY <3>3 DEF first, bound
    <2> QED
      BY <1>11, <2>1
  <1>14. Len(samples') = gated_cursor' /\ gated_cursor' \in Nat /\ samples' \in Seq(Nat \cup {Silence})
    <2>1. CASE Keep(from, to)
      BY <1>2, <1>3, <1>7, <1>8, <2>1
    <2>2. CASE Skip(from, to)
      BY <1>1, <1>2, <2>2 DEF Skip, GateTypeOK
    <2> QED
      BY <1>6, <2>1, <2>2
  <1>15. LoopSound'
    BY <1>1, <1>2, <1>4, <1>10, <1>14 DEF LoopSound
  <1>16. mapping' \in Seq(SegmentMapping) /\ PartsSound' /\ PartsOrdered' /\ SamplesTraced'
    <2>1. CASE Skip(from, to)
      <3>1. UNCHANGED <<mapping, samples, gated_cursor, prev_seg_end>>
        BY <2>1 DEF Skip
      <3>2. \A j, p : CopiedBy(j, p)' <=> CopiedBy(j, p)
        BY <3>1 DEF CopiedBy
      <3> QED
        BY <1>1, <3>1, <3>2 DEF GateTypeOK, PartsSound, PartsOrdered, SamplesTraced
    <2>2. CASE Keep(from, to)
      <3> DEFINE part == [gated_start |-> gated_cursor, gated_end |-> gated_cursor + (to - from),
                          original_start |-> from, original_end |-> to]
                 n == Len(mapping)
      <3>1. part \in SegmentMapping /\ from < to
        BY <1>2, <1>3, <1>8, <2>2 DEF SegmentMapping
      <3>2. mapping' = Append(mapping, part)
        BY <2>2 DEF Keep
      <3>3. /\ mapping' \in Seq(SegmentMapping) /\ Len(mapping') = n + 1
            /\ mapping'[n + 1] = part /\ \A j \in 1..n : mapping'[j] = mapping[j]
        BY <1>1, <3>1, <3>2, AppendProperties DEF GateTypeOK
      <3>4. \A j \in 1..n : mapping[j] \in SegmentMapping
        BY <1>1, ElementOfSeq DEF GateTypeOK
      <3>5. /\ part.gated_start = gated_cursor /\ part.gated_end = gated_cursor + (to - from)
            /\ part.original_start = from /\ part.original_end = to
        OBVIOUS
      <3>6. \A j \in 1..(n + 1) : j = n + 1 \/ j \in 1..n
        BY <1>2
      <3> HIDE DEF part, n
      <3>7. /\ prev_seg_end' = to /\ gated_cursor' = gated_cursor + (to - from) + GapAfter(seg)
        BY <1>8, <2>2
      <3>8. PartsSound'
        <4> SUFFICES ASSUME NEW j \in 1..(n + 1)
                     PROVE  /\ mapping'[j].gated_start < mapping'[j].gated_end
                            /\ mapping'[j].gated_end <= gated_cursor'
                            /\ mapping'[j].original_end <= prev_seg_end'
                            /\ mapping'[j].original_end - mapping'[j].original_start
                                 = mapping'[j].gated_end - mapping'[j].gated_start
          BY <3>3 DEF PartsSound
        <4>1. CASE j = n + 1
          BY <1>2, <1>3, <1>7, <3>1, <3>3, <3>5, <3>7, <4>1, SMTT(30)
        <4>2. CASE j \in 1..n
          <5>1. mapping[j] \in SegmentMapping /\ mapping'[j] = mapping[j]
            BY <3>3, <3>4, <4>2
          <5>2. /\ mapping[j].gated_start < mapping[j].gated_end
                /\ mapping[j].gated_end <= gated_cursor /\ mapping[j].original_end <= prev_seg_end
                /\ mapping[j].original_end - mapping[j].original_start
                     = mapping[j].gated_end - mapping[j].gated_start
            BY <1>1, <4>2 DEF PartsSound, n
          <5>3. gated_cursor <= gated_cursor' /\ prev_seg_end <= prev_seg_end'
            BY <1>2, <1>3, <1>7, <3>1, <3>7, SMTT(30)
          <5>4. mapping[j].gated_end \in Nat /\ mapping[j].original_end \in Nat
            BY <5>1 DEF SegmentMapping
          <5> QED
            BY <1>2, <1>10, <1>14, <5>1, <5>2, <5>3, <5>4, SMTT(30)
        <4> QED
          BY <3>6, <4>1, <4>2
      <3>9. PartsOrdered'
        <4> SUFFICES ASSUME NEW j \in 1..(n + 1), NEW k \in 1..(n + 1), j < k
                     PROVE  /\ mapping'[j].gated_end <= mapping'[k].gated_start
                            /\ mapping'[j].original_end <= mapping'[k].original_start
          BY <3>3 DEF PartsOrdered
        <4>1. j \in 1..n
          BY <1>2 DEF n
        <4>2. mapping[j] \in SegmentMapping /\ mapping'[j] = mapping[j]
          BY <3>3, <3>4, <4>1
        <4>3. CASE k = n + 1
          <5>1. mapping[j].gated_end <= gated_cursor /\ mapping[j].original_end <= prev_seg_end
            BY <1>1, <4>1 DEF PartsSound, n
          <5>2. mapping[j].gated_end \in Nat /\ mapping[j].original_end \in Nat
            BY <4>2 DEF SegmentMapping
          <5> QED
            BY <1>2, <1>3, <3>3, <3>5, <4>2, <4>3, <5>1, <5>2, SMTT(30)
        <4>4. CASE k \in 1..n
          <5>1. mapping'[k] = mapping[k]
            BY <3>3, <4>4
          <5> QED
            BY <1>1, <4>1, <4>2, <4>4, <5>1 DEF PartsOrdered, n
        <4> QED
          BY <3>6, <4>3, <4>4
      <3>10. SamplesTraced'
        <4> SUFFICES ASSUME NEW p \in 1..Len(samples'), samples'[p] # Silence
                     PROVE  \E j \in 1..(n + 1) : CopiedBy(j, p)'
          BY <3>3 DEF SamplesTraced
        <4>1. CASE p <= gated_cursor
          <5>1. p \in 1..Len(samples)
            BY <1>2, <1>14, <4>1
          <5>2. samples'[p] = samples[p]
            BY <1>8, <2>2, <5>1
          <5>3. PICK j \in 1..n : CopiedBy(j, p)
            BY <1>1, <5>1, <5>2 DEF SamplesTraced, n
          <5>4. CopiedBy(j, p)'
            BY <3>3, <5>2, <5>3 DEF CopiedBy
          <5> QED
            BY <1>2, <5>4 DEF n
        <4>2. CASE p > gated_cursor
          <5> DEFINE k == p - gated_cursor
          <5>1. p <= gated_cursor + (to - from)
            <6>1. \A q \in 1..Len(samples') : q > gated_cursor + (to - from) => samples'[q] = Silence
              BY <1>8, <2>2
            <6>2. ~(p > gated_cursor + (to - from))
              BY <6>1
            <6>3. p \in Int /\ gated_cursor \in Int /\ from \in Int /\ to \in Int
              BY <1>2, <1>3, <1>14
            <6> QED
              BY <6>2, <6>3
          <5>2. k \in 1..(to - from) /\ gated_cursor + k = p
            BY <1>2, <1>3, <1>14, <4>2, <5>1
          <5>3. samples'[p] = from + k - 1
            BY <1>8, <2>2, <5>2
          <5>4. PICK j \in 1..(n + 1) : j = n + 1
            BY <1>2 DEF n
          <5>5. /\ mapping'[j].gated_start = gated_cursor /\ mapping'[j].original_start = from
                /\ mapping'[j].gated_end = gated_cursor + (to - from)
            BY <3>3, <3>5, <5>4
          <5>6. from + k - 1 = from + (p - 1 - gated_cursor)
            BY <1>2, <1>3, <1>14
          <5>7. CopiedBy(j, p)'
            BY <4>2, <5>1, <5>3, <5>5, <5>6 DEF CopiedBy
          <5> QED
            BY <5>7
        <4> QED
          BY <1>2, <1>14, <4>1, <4>2
      <3> QED
        BY <3>3, <3>8, <3>9, <3>10
    <2> QED
      BY <1>6, <2>1, <2>2
  <1>17. GateTypeOK'
    <2>1. vad_ctx' \in BOOLEAN
      BY <1>1, <1>4, Zenon DEF GateTypeOK
    <2> QED
      BY <1>1, <1>2, <1>4, <1>10, <1>14, <1>16, <2>1, SMTT(30) DEF GateTypeOK
  <1> QED
    BY <1>4, <1>12, <1>13, <1>15, <1>16, <1>17 DEF GateInv

\* Every step of the gate keeps the invariant.
LEMMA GateStep ==
  ASSUME GateInv, [GateNext]_gateVars
  PROVE  GateInv'
  <1>1. CASE GateNext
    BY <1>1, BeginInv, SegmentInv, ForgetInv DEF GateNext
  <1>2. CASE UNCHANGED gateVars
    <2>1. vad_ctx' \in BOOLEAN
      BY <1>2, Zenon DEF gateVars, GateInv, GateTypeOK
    <2> QED
      BY <1>2, <2>1 DEF gateVars, GateInv, GateTypeOK, SpeechKept, LoopSound, PartsSound,
         PartsOrdered, SamplesTraced, CopiedBy, NothingLost, cs_to_samples
  <1> QED
    BY <1>1, <1>2

\* The loop of gate() keeps its invariant: the mapping's parts are disjoint and
\* in order in both buffers, each sample is traced to the part it came with,
\* and nothing between a segment's start and prev_seg_end is left out.
THEOREM GateSafe == GateSpec => []GateInv
  BY GateInitInv, GateStep, PTL DEF GateSpec

\* mapGatedToOriginalSamples() takes a time of the gated buffer to the offset
\* that divides the speech at the same place, for every buffer, padding and
\* list of segments.
THEOREM GateMapSeparates == GateSpec => []MapSeparates
  <1>1. GateInv => MapSeparates
    <2> SUFFICES ASSUME GateInv, NEW g \in 0..(Len(samples) + 1), NEW p \in 1..Len(samples),
                        samples[p] # Silence
                 PROVE  p <= g <=> samples[p] < mapGatedToOriginalSamples(mapping, g, original_total)
      BY DEF MapSeparates
    <2>1. gate_pc # "off"
      BY EmptySeq DEF GateInv
    <2>2. g \in Nat
      BY LenProperties DEF GateInv, GateTypeOK
    <2> QED
      BY <2>1, <2>2, MappingSeparates DEF GateInv
  <1> QED
    BY <1>1, GateSafe, PTL

\* Every sample the detector calls speech is in the gated buffer, clamped and
\* skipped segments included.
THEOREM GateSpeechKept == GateSpec => []SpeechKept
  <1>1. GateInv => SpeechKept
    BY DEF GateInv
  <1> QED
    BY <1>1, GateSafe, PTL

(***************************************************************************)
(* StreamingWhisperEngine                                                  *)
(***************************************************************************)

\* A bounded set of naturals that is not empty has a greatest element.
LEMMA GreatestBelow ==
  ASSUME NEW n \in Nat, NEW T, T \subseteq 1..n, T # {}
  PROVE  \E x \in T : \A y \in T : y <= x
  <1> DEFINE D == {n - i : i \in T}
  <1>1. D \subseteq Nat /\ D # {}
    <2>1. \A i \in T : n - i \in Nat
      OBVIOUS
    <2> QED
      BY <2>1
  <1>2. PICK d \in D : \A e \in D : d <= e
    BY <1>1, LeastNatural
  <1>3. PICK x \in T : d = n - x
    OBVIOUS
  <1>4. ASSUME NEW y \in T PROVE y <= x
    <2>1. d <= n - y
      BY <1>2
    <2>2. y \in Int /\ x \in Int
      OBVIOUS
    <2> HIDE DEF D
    <2> QED
      BY ONLY <1>3, <2>1, <2>2, n \in Nat
  <1> QED
    BY <1>4

\* commit_up_to_segment is a segment of the list, if it is not -1.
LEMMA CommitUpToInList ==
  ASSUME NEW n \in Nat, NEW s, DOMAIN s = 1..n, Len(s) = n, CommitUpTo(s) > 0
  PROVE  CommitUpTo(s) \in DOMAIN s
  <1>1. CASE force
    BY <1>1 DEF CommitUpTo
  <1>2. CASE ~force /\ Before(s) # {}
    <2>1. Before(s) \subseteq 1..n
      BY DEF Before
    <2>2. \E i \in Before(s) : \A j \in Before(s) : j <= i
      BY <1>2, <2>1, GreatestBelow
    <2>3. CommitUpTo(s) = CHOOSE i \in Before(s) : \A j \in Before(s) : j <= i
      BY <1>2 DEF CommitUpTo
    <2>4. CommitUpTo(s) \in Before(s)
      BY <2>2, <2>3, Zenon
    <2> QED
      BY <2>1, <2>4
  <1>3. CASE ~force /\ Before(s) = {}
    BY <1>3 DEF CommitUpTo
  <1> QED
    BY <1>1, <1>2, <1>3

\* Nothing is running at first.
LEMMA EngineInitInv == Init => EngineInv
  <1> SUFFICES ASSUME Init PROVE EngineInv
    OBVIOUS
  <1>1. GateInv
    BY GateInitInv DEF Init
  <1>2. vad_gate \in VadModes /\ dropping \in BOOLEAN /\ force \in BOOLEAN
    BY Zenon DEF Init
  <1>3. t1 \in Seq(Nat \ {0})
    BY EmptySeq DEF Init
  <1> QED
    BY <1>1, <1>2, <1>3, EngineConstants DEF EngineConstants, Init, GateInit, GateInv, EngineInv,
       TypeOK, CopyInBuffer, GateOfThePass, CommitSound

\* A step of the engine is a step of the gate, or leaves it alone: gate() is
\* only given the engine's own copy, and the copy fits the buffer.
LEMMA EngineStepIsGateStep ==
  ASSUME EngineInv, [Next]_vars
  PROVE  [GateNext]_gateVars
  <1>1. pc = "gate" => snapshot \in Totals
    BY EngineConstants DEF EngineConstants, EngineInv, TypeOK, CopyInBuffer
  <1>2. CASE GateRuns \/ GateFails
    BY <1>1, <1>2 DEF GateRuns, GateFails, GateNext
  <1>3. CASE NothingButSilence \/ WhisperFails \/ Commit
    BY <1>3 DEF NothingButSilence, WhisperFails, Commit, GateNext
  <1>4. CASE Decode
    BY <1>4 DEF Decode, GateNext
  <1>5. CASE ChunkDropped \/ (\E n \in Chunks : ChunkAdded(n)) \/ (\E f \in BOOLEAN : Snapshot(f))
             \/ EmptyEnd \/ Finished \/ UNCHANGED vars
    BY <1>5 DEF ChunkDropped, ChunkAdded, Snapshot, EmptyEnd, Finished, vars
  <1> QED
    BY <1>2, <1>3, <1>4, <1>5 DEF Next, PassStep

\* The end of a pass, by whatever way, leaves no pass behind.
LEMMA PassOverInv ==
  ASSUME EngineInv, GateInv', NEW p \in {"idle", "ended"}, PassOver(p), gate_pc' = "off",
         vad_gate' = vad_gate, size' \in 0..MaxBuffer, dropping' = dropping
  PROVE  EngineInv'
  <1>1. t1' \in Seq(Nat \ {0})
    BY EmptySeq DEF PassOver
  <1>2. /\ vad_gate' \in VadModes /\ dropping' \in BOOLEAN /\ force' \in BOOLEAN
    BY Zenon DEF EngineInv, TypeOK, PassOver
  <1>3. TypeOK'
    BY <1>1, <1>2, EngineConstants DEF EngineConstants, TypeOK, PassOver, GateInv
  <1> QED
    BY <1>3 DEF EngineInv, PassOver, CopyInBuffer, GateOfThePass, CommitSound

\* A chunk is dropped or appended, also while a pass is running.
LEMMA ChunkInv ==
  ASSUME EngineInv, GateInv', ChunkDropped \/ \E n \in Chunks : ChunkAdded(n)
  PROVE  EngineInv'
  <1>1. UNCHANGED <<vad_gate, pc, force, snapshot, t1, gateVars>>
    BY DEF ChunkDropped, ChunkAdded, passVars
  <1>2. /\ vad_gate' \in VadModes /\ force' \in BOOLEAN
    BY <1>1, Zenon DEF EngineInv, TypeOK
  <1>3. dropping' \in BOOLEAN
    BY Zenon DEF ChunkDropped, ChunkAdded
  <1>4. /\ size' \in 0..MaxBuffer /\ shift' \in Nat
        /\ pc # "idle" => size' + shift' >= size + shift
    <2>1. CASE ChunkDropped
      <3>1. size' = size /\ shift' = shift
        BY <2>1 DEF ChunkDropped, passVars
      <3>2. size \in 0..MaxBuffer /\ MaxBuffer \in Nat /\ shift \in Nat
        BY EngineConstants DEF EngineConstants, EngineInv, TypeOK
      <3> QED
        BY <3>1, <3>2
    <2>2. CASE \E n \in Chunks : ChunkAdded(n)
      <3>1. PICK n \in Chunks : ChunkAdded(n)
        BY <2>2
      <3>2. n \in Nat /\ MaxBuffer \in Nat /\ size \in 0..MaxBuffer /\ shift \in Nat
        BY EngineConstants DEF EngineConstants, EngineInv, TypeOK
      <3> QED
        BY <3>1, <3>2 DEF ChunkAdded, CutOff, Smaller
    <2> QED
      BY <2>1, <2>2
  <1>5. TypeOK'
    BY <1>1, <1>2, <1>3, <1>4 DEF EngineInv, TypeOK, GateInv
  <1>6. CopyInBuffer'
    <2>1. size \in Int /\ shift \in Int /\ snapshot \in Int /\ size' \in Int /\ shift' \in Int
      BY <1>4 DEF EngineInv, TypeOK
    <2>2. pc' = pc /\ snapshot' = snapshot
      BY <1>1
    <2>3. ASSUME pc \in {"gate", "decode", "commit"}
          PROVE  snapshot > 0 /\ size' + shift' >= snapshot
      <3>1. snapshot > 0 /\ size + shift >= snapshot
        BY <2>3 DEF EngineInv, CopyInBuffer
      <3>2. size' + shift' >= size + shift
        BY <1>4, <2>3
      <3> DEFINE a == size'
                 b == shift'
      <3>3. a \in Int /\ b \in Int /\ a + b >= size + shift
        BY <2>1, <3>2
      <3> HIDE DEF a, b
      <3>4. a + b >= snapshot
        BY <2>1, <3>1, <3>3
      <3> QED
        BY <3>1, <3>4 DEF a, b
    <2> QED
      BY <2>2, <2>3 DEF CopyInBuffer
  <1>7. GateOfThePass'
    BY <1>1 DEF EngineInv, GateOfThePass, gateVars
  <1>8. CommitSound'
    BY <1>1 DEF EngineInv, CommitSound, CommitUpTo, Before, decode_buf, gateVars
  <1> QED
    BY <1>5, <1>6, <1>7, <1>8 DEF EngineInv

\* A pass takes its copy.
LEMMA SnapshotInv ==
  ASSUME EngineInv, GateInv', NEW f \in BOOLEAN, Snapshot(f)
  PROVE  EngineInv'
  <1>1. /\ vad_gate' \in VadModes /\ force' \in BOOLEAN /\ dropping' \in BOOLEAN
    BY Zenon DEF EngineInv, TypeOK, Snapshot, bufferVars
  <1>2. UNCHANGED <<vad_gate, size, t1, gateVars>> /\ pc = "idle"
    BY DEF Snapshot, bufferVars
  <1>3. pc' = IF vad_gate THEN "gate" ELSE "decode"
    BY DEF Snapshot
  <1>4. TypeOK'
    BY <1>1, <1>2, <1>3 DEF EngineInv, TypeOK, GateInv, Snapshot
  <1>5. CopyInBuffer'
    BY <1>2 DEF EngineInv, TypeOK, CopyInBuffer, Snapshot
  <1>6. GateOfThePass'
    BY <1>2, <1>3 DEF EngineInv, GateOfThePass, gateVars
  <1> QED
    BY <1>3, <1>4, <1>5, <1>6 DEF EngineInv, CommitSound

\* gate() goes on.
LEMMA GateRunsInv ==
  ASSUME EngineInv, GateInv', GateRuns
  PROVE  EngineInv'
  <1>1. UNCHANGED <<vad_gate, size, dropping, pc, force, snapshot, shift, t1>> /\ pc = "gate"
    BY DEF GateRuns, bufferVars, passVars
  <1>2. /\ vad_gate' \in VadModes /\ force' \in BOOLEAN /\ dropping' \in BOOLEAN
    BY <1>1, Zenon DEF EngineInv, TypeOK
  <1>3. TypeOK'
    BY <1>1, <1>2 DEF EngineInv, TypeOK, GateInv
  <1>4. original_total' = snapshot
    <2>1. CASE GateDetects(snapshot)
      BY <2>1 DEF GateDetects, Begin
    <2>2. CASE GateSegment
      BY <2>2 DEF GateSegment, EngineInv, GateOfThePass
    <2> QED
      BY <2>1, <2>2 DEF GateRuns
  <1> QED
    BY <1>1, <1>3, <1>4 DEF EngineInv, CopyInBuffer, GateOfThePass, CommitSound

\* whisper returns segments and the pass commits some of them.
LEMMA DecodeCommitsInv ==
  ASSUME EngineInv, GateInv', CanDecode, NEW s \in Transcripts, CommitUpTo(s) > 0,
         t1' = s, pc' = "commit",
         UNCHANGED <<vad_gate, size, dropping, force, snapshot, shift, gateVars>>
  PROVE  EngineInv'
  <1> DEFINE V == 1..(Len(decode_buf) + Overshoot)
  <1>1. PICK n \in 0..MaxTexts : s \in [1..n -> V]
    BY DEF Transcripts
  <1>2. n \in Nat /\ Overshoot \in Nat
    BY EngineConstants DEF EngineConstants
  <1>3. s \in Seq(V) /\ Len(s) = n /\ DOMAIN s = 1..n
    BY <1>1, <1>2, FunctionIsSeq
  <1>4. s \in Seq(Nat \ {0})
    <2>1. V \subseteq Nat \ {0}
      OBVIOUS
    <2>2. s \in [1..n -> Nat \ {0}]
      BY <1>1, <2>1
    <2> QED
      BY <1>2, <2>2, FunctionIsSeq
  <1>5. /\ vad_gate' \in VadModes /\ force' \in BOOLEAN /\ dropping' \in BOOLEAN
    BY Zenon DEF EngineInv, TypeOK
  <1>6. TypeOK'
    BY <1>4, <1>5 DEF EngineInv, TypeOK, GateInv
  <1>7. GateOfThePass'
    BY DEF EngineInv, GateOfThePass, gateVars, CanDecode
  <1>8. CommitSound'
    <2>1. CommitUpTo(s) \in DOMAIN s
      BY <1>2, <1>3, CommitUpToInList
    <2>2. CommitUpTo(s)' = CommitUpTo(s)
      BY DEF CommitUpTo, Before, decode_buf, gateVars
    <2> QED
      BY <2>1, <2>2 DEF CommitSound, CommitUpTo, Before, decode_buf, gateVars
  <1> QED
    BY <1>6, <1>7, <1>8 DEF EngineInv, CopyInBuffer, CanDecode

\* What remains after a commit fits the buffer.
LEMMA RemainingInBuffer ==
  ASSUME EngineInv, pc = "commit", samples_to_erase \in Nat
  PROVE  Remaining \in 0..MaxBuffer
  <1>1. size \in 0..MaxBuffer /\ MaxBuffer \in Nat
    BY EngineConstants DEF EngineConstants, EngineInv, TypeOK
  <1> QED
    BY <1>1 DEF Remaining

\* The mapping's answer lies in the buffer it was made for.
LEMMA MappingInBuffer ==
  ASSUME GateTypeOK, LoopSound, PartsSound, NEW g \in Nat
  PROVE  /\ mapGatedToOriginalSamples(mapping, g, original_total) \in Nat
         /\ mapGatedToOriginalSamples(mapping, g, original_total) <= original_total
  <1> DEFINE m == mapping
             gs(k) == m[k].gated_start
             ge(k) == m[k].gated_end
             os(k) == m[k].original_start
             oe(k) == m[k].original_end
             v == mapGatedToOriginalSamples(m, g, original_total)
  <1>1. Len(m) \in Nat /\ \A k \in 1..Len(m) : m[k] \in SegmentMapping
    BY LenProperties, ElementOfSeq DEF GateTypeOK
  <1>2. \A k \in 1..Len(m) : gs(k) \in Nat /\ ge(k) \in Nat /\ os(k) \in Nat /\ oe(k) \in Nat
    BY <1>1 DEF SegmentMapping
  <1>3. original_total \in Nat /\ prev_seg_end \in Nat /\ prev_seg_end <= original_total
    BY DEF GateTypeOK, LoopSound
  <1>4. \A k \in 1..Len(m) : oe(k) <= prev_seg_end /\ oe(k) - os(k) = ge(k) - gs(k)
    BY DEF PartsSound
  <1>5. CASE m = <<>>
    BY <1>3, <1>5 DEF mapGatedToOriginalSamples
  <1>6. CASE m # <<>> /\ Hits(m, g) = {}
    <2>1. Len(m) \in 1..Len(m)
      BY <1>1, <1>6, EmptySeq DEF GateTypeOK
    <2>2. v = Smaller(oe(Len(m)), original_total)
      BY <1>6 DEF mapGatedToOriginalSamples
    <2> HIDE DEF m, gs, ge, os, oe, v
    <2> QED
      BY <1>2, <1>3, <2>1, <2>2 DEF Smaller, m, v
  <1>7. CASE m # <<>> /\ Hits(m, g) # {}
    <2> DEFINE j == FirstHit(m, g)
    <2>1. j \in 1..Len(m) /\ j \in Hits(m, g)
      BY <1>7, FirstHitIsFirst DEF GateTypeOK
    <2>2. v = IF g < gs(j) THEN IF j = 1 THEN 0 ELSE oe(j - 1) ELSE os(j) + (g - gs(j))
      BY <1>7 DEF mapGatedToOriginalSamples
    <2>3. g < gs(j) \/ g < ge(j)
      BY <2>1 DEF Hits
    <2> SUFFICES v \in Nat /\ v <= original_total
      OBVIOUS
    <2> HIDE DEF m, gs, ge, os, oe, v, j
    <2>4. CASE g < gs(j) /\ j = 1
      BY <1>3, <2>2, <2>4
    <2>5. CASE g < gs(j) /\ j # 1
      <3>1. j - 1 \in 1..Len(m) /\ v = oe(j - 1)
        BY <1>1, <2>1, <2>2, <2>5
      <3>2. oe(j - 1) \in Nat /\ oe(j - 1) <= prev_seg_end
        BY <1>2, <1>4, <3>1, Zenon
      <3> QED
        BY <1>3, <3>1, <3>2
    <2>6. CASE ~(g < gs(j))
      <3>1. /\ gs(j) \in Nat /\ ge(j) \in Nat /\ os(j) \in Nat /\ oe(j) \in Nat
            /\ oe(j) <= prev_seg_end /\ oe(j) - os(j) = ge(j) - gs(j)
        BY <1>2, <1>4, <2>1, Zenon
      <3>2. v = os(j) + (g - gs(j)) /\ g < ge(j)
        BY <2>2, <2>3, <2>6
      <3> QED
        BY <1>3, <2>6, <3>1, <3>2
    <2> QED
      BY <2>4, <2>5, <2>6
  <1> QED
    BY <1>5, <1>6, <1>7

\* What is erased, in numbers: a time of whisper's, or the offset it maps to.
LEMMA EraseFacts ==
  ASSUME EngineInv, pc = "commit"
  PROVE  /\ commit_t1 \in Nat /\ samples_to_erase \in Nat
         /\ vad_gate => samples_to_erase <= snapshot
  <1>1. commit_t1 \in Nat
    <2>1. t1 \in Seq(Nat \ {0}) /\ CommitUpTo(t1) \in DOMAIN t1
      BY DEF EngineInv, TypeOK, CommitSound
    <2>2. DOMAIN t1 = 1..Len(t1)
      BY <2>1, LenProperties
    <2>3. t1[CommitUpTo(t1)] \in Nat \ {0}
      BY <2>1, <2>2, ElementOfSeq
    <2> QED
      BY <2>3 DEF commit_t1
  <1>2. CASE vad_gate
    <2>1. gate_pc # "off" /\ original_total = snapshot
      BY <1>2 DEF EngineInv, GateOfThePass
    <2>2. GateTypeOK /\ LoopSound /\ PartsSound
      BY <2>1 DEF EngineInv, GateInv
    <2>3. /\ mapGatedToOriginalSamples(mapping, commit_t1, original_total) \in Nat
          /\ mapGatedToOriginalSamples(mapping, commit_t1, original_total) <= original_total
      BY <1>1, <2>2, MappingInBuffer
    <2> QED
      BY <1>1, <1>2, <2>1, <2>3 DEF samples_to_erase
  <1>3. CASE ~vad_gate
    BY <1>1, <1>3 DEF samples_to_erase
  <1> QED
    BY <1>2, <1>3

\* One step of the engine keeps its invariant.
LEMMA EngineStepInv ==
  ASSUME EngineInv, [Next]_vars
  PROVE  EngineInv'
  <1>1. GateInv'
    BY EngineStepIsGateStep, GateStep DEF EngineInv
  <1>2. size \in 0..MaxBuffer
    BY DEF EngineInv, TypeOK
  <1>3. CASE ChunkDropped \/ \E n \in Chunks : ChunkAdded(n)
    BY <1>1, <1>3, ChunkInv
  <1>4. CASE Snapshot(TRUE) \/ Snapshot(FALSE)
    BY <1>1, <1>4, SnapshotInv
  <1>5. CASE EmptyEnd
    <2>2. /\ UNCHANGED <<vad_gate, size, dropping, force, snapshot, shift, t1, gateVars>>
          /\ pc = "idle" /\ pc' = "ended"
      BY <1>5 DEF EmptyEnd, bufferVars
    <2>3. /\ vad_gate' \in VadModes /\ force' \in BOOLEAN /\ dropping' \in BOOLEAN
      BY <2>2, Zenon DEF EngineInv, TypeOK
    <2>4. TypeOK'
      BY <1>1, <2>2, <2>3 DEF EngineInv, TypeOK, GateInv
    <2> QED
      BY <1>1, <2>2, <2>4 DEF EngineInv, CopyInBuffer, GateOfThePass, CommitSound, gateVars
  <1>6. CASE GateRuns
    BY <1>1, <1>6, GateRunsInv
  <1>7. CASE GateFails
    <2>1. gate_pc' = "off"
      BY <1>7 DEF GateFails, GateThrows, Begin
    <2>2. PassOver("ended") /\ UNCHANGED <<vad_gate, size, dropping>>
      BY <1>7 DEF GateFails, PassThrows, bufferVars
    <2> QED
      BY <1>1, <1>2, <2>1, <2>2, PassOverInv
  <1>8. CASE NothingButSilence \/ WhisperFails
    <2>1. gate_pc' = "off" /\ UNCHANGED <<vad_gate, size, dropping>>
      BY <1>8 DEF NothingButSilence, WhisperFails, GateForget, bufferVars
    <2>2. PICK p \in {"idle", "ended"} : PassOver(p)
      BY <1>8 DEF NothingButSilence, WhisperFails, PassEnds, PassThrows
    <2> QED
      BY <1>1, <1>2, <2>1, <2>2, PassOverInv
  <1>9. CASE Decode
    <2>1. PICK s \in Transcripts :
            IF WantsCommit /\ CommitUpTo(s) > 0
            THEN t1' = s /\ pc' = "commit" /\ UNCHANGED <<force, snapshot, shift, gateVars>>
            ELSE PassEnds /\ GateForget
      BY <1>9 DEF Decode
    <2>2. UNCHANGED <<vad_gate, size, dropping>> /\ CanDecode
      BY <1>9 DEF Decode, bufferVars
    <2>3. CASE WantsCommit /\ CommitUpTo(s) > 0
      BY <1>1, <2>1, <2>2, <2>3, DecodeCommitsInv
    <2>4. CASE ~(WantsCommit /\ CommitUpTo(s) > 0)
      <3>1. gate_pc' = "off"
        BY <2>1, <2>4 DEF GateForget
      <3>2. PICK p \in {"idle", "ended"} : PassOver(p)
        BY <2>1, <2>4 DEF PassEnds
      <3> QED
        BY <1>1, <1>2, <2>2, <3>1, <3>2, PassOverInv
    <2> QED
      BY <2>3, <2>4
  <1>10. CASE Commit
    <2>1. gate_pc' = "off" /\ UNCHANGED <<vad_gate, dropping>> /\ size' = Remaining /\ pc = "commit"
      BY <1>10 DEF Commit, GateForget
    <2>2. PICK p \in {"idle", "ended"} : PassOver(p)
      BY <1>10 DEF Commit, PassEnds
    <2>3. size' \in 0..MaxBuffer
      BY <2>1, EraseFacts, RemainingInBuffer
    <2> QED
      BY <1>1, <2>1, <2>2, <2>3, PassOverInv
  <1>11. CASE Finished \/ UNCHANGED vars
    <2>1. UNCHANGED <<vad_gate, size, dropping, pc, force, snapshot, shift, t1, gateVars>>
      BY <1>11 DEF Finished, vars, bufferVars, passVars
    <2>2. /\ vad_gate' \in VadModes /\ force' \in BOOLEAN /\ dropping' \in BOOLEAN
      BY <2>1, Zenon DEF EngineInv, TypeOK
    <2>3. TypeOK'
      BY <1>1, <2>1, <2>2 DEF EngineInv, TypeOK, GateInv
    <2> QED
      BY <1>1, <2>1, <2>3 DEF EngineInv, CopyInBuffer, GateOfThePass, CommitSound, gateVars,
         CommitUpTo, Before, decode_buf
  <1> QED
    BY <1>3, <1>4, <1>5, <1>6, <1>7, <1>8, <1>9, <1>10, <1>11 DEF Next, PassStep

\* The engine keeps its invariant: while a pass runs its copy is in the buffer
\* but for what the cap cut off, and the gate works on that copy.
THEOREM EngineSafe == Spec => []EngineInv
  BY EngineInitInv, EngineStepInv, PTL DEF Spec

\* The engine uses the gate as the gate expects to be used, so what is proved
\* of the gate holds in the engine.
THEOREM EngineUsesGate == Spec => GateSpec
  <1>1. Init => GateInit
    BY DEF Init
  <1> QED
    BY <1>1, EngineSafe, EngineStepIsGateStep, PTL DEF Spec, GateSpec

\* Times map to offsets that divide the speech at the same place, in the engine.
THEOREM EngineMapSeparates == Spec => []MapSeparates
  BY EngineUsesGate, GateMapSeparates, PTL

\* The engine's gate keeps every sample of speech.
THEOREM EngineSpeechKept == Spec => []SpeechKept
  BY EngineUsesGate, GateSpeechKept, PTL

\* What whisper hears is in the copy.
LEMMA HeardInCopy ==
  ASSUME EngineInv, pc = "commit", NEW p \in DOMAIN decode_buf, decode_buf[p] # Silence
  PROVE  decode_buf[p] \in Nat /\ decode_buf[p] < snapshot /\ p \in Nat
  <1>1. CASE ~vad_gate
    <2>1. decode_buf = [q \in 1..snapshot |-> q - 1] /\ snapshot \in Nat
      BY <1>1, EngineConstants DEF EngineConstants, decode_buf, EngineInv, TypeOK
    <2> QED
      BY <2>1
  <1>2. CASE vad_gate
    <2>1. gate_pc # "off" /\ original_total = snapshot /\ decode_buf = samples
      BY <1>2 DEF EngineInv, GateOfThePass, decode_buf
    <2>2. GateTypeOK /\ LoopSound /\ PartsSound /\ SamplesTraced
      BY <2>1 DEF EngineInv, GateInv
    <2>3. p \in 1..Len(samples) /\ Len(samples) \in Nat
      BY <2>1, <2>2, LenProperties DEF GateTypeOK
    <2>4. PICK j \in 1..Len(mapping) : CopiedBy(j, p)
      BY <2>1, <2>2, <2>3 DEF SamplesTraced
    <2>5. mapping[j] \in SegmentMapping
      BY <2>2, ElementOfSeq DEF GateTypeOK
    <2>6. /\ mapping[j].gated_start \in Nat /\ mapping[j].gated_end \in Nat
          /\ mapping[j].original_start \in Nat /\ mapping[j].original_end \in Nat
      BY <2>5 DEF SegmentMapping
    <2>7. /\ mapping[j].original_end <= prev_seg_end
          /\ mapping[j].original_end - mapping[j].original_start
               = mapping[j].gated_end - mapping[j].gated_start
      BY <2>2 DEF PartsSound
    <2>8. prev_seg_end \in Nat /\ prev_seg_end <= original_total /\ original_total \in Nat
      BY <2>2 DEF LoopSound, GateTypeOK
    <2> DEFINE gs == mapping[j].gated_start
               ge == mapping[j].gated_end
               os == mapping[j].original_start
               oe == mapping[j].original_end
               x == samples[p]
    <2>9. gs < p /\ p <= ge /\ x = os + (p - 1 - gs)
      BY <2>4 DEF CopiedBy
    <2>10. gs \in Nat /\ ge \in Nat /\ os \in Nat /\ oe \in Nat /\ oe <= prev_seg_end
           /\ oe - os = ge - gs /\ p \in Nat
      BY <2>3, <2>6, <2>7
    <2> HIDE DEF gs, ge, os, oe, x
    <2>11. x \in Nat /\ x < original_total
      BY <2>8, <2>9, <2>10
    <2> QED
      BY <2>1, <2>10, <2>11 DEF x
  <1> QED
    BY <1>1, <1>2

\* A commit erases the audio of the committed text and nothing else of what
\* whisper heard, for every buffer, whatever arrived meanwhile.
THEOREM EnginePassSplits == Spec => PassSplits
  <1>1. ASSUME EngineInv, Commit, shift = 0,
               NEW p \in DOMAIN decode_buf, decode_buf[p] # Silence
        PROVE  force \/ p <= commit_t1 <=> decode_buf[p] < Front
    <2> DEFINE x == decode_buf[p]
               e == samples_to_erase
    <2>1. pc = "commit" /\ size' = Remaining
      BY <1>1 DEF Commit
    <2>2. /\ x \in Nat /\ x < snapshot /\ p \in Nat /\ commit_t1 \in Nat /\ e \in Nat
      BY <1>1, <2>1, HeardInCopy, EraseFacts
    <2>3. size \in Nat /\ snapshot \in Nat /\ snapshot <= size
      BY <1>1, <2>1, EngineConstants DEF EngineConstants, EngineInv, TypeOK, CopyInBuffer
    <2>4. p <= commit_t1 <=> x < e
      <3>1. CASE vad_gate
        <4>1. gate_pc # "off" /\ decode_buf = samples
          BY <1>1, <2>1, <3>1 DEF EngineInv, GateOfThePass, decode_buf
        <4>2. GateTypeOK /\ LoopSound /\ PartsSound /\ PartsOrdered /\ SamplesTraced
          BY <1>1, <4>1 DEF EngineInv, GateInv
        <4>3. p \in 1..Len(samples) /\ samples[p] # Silence
          BY <1>1, <4>1, <4>2, LenProperties DEF GateTypeOK
        <4>4. p <= commit_t1
                <=> samples[p] < mapGatedToOriginalSamples(mapping, commit_t1, original_total)
          BY <2>2, <4>2, <4>3, MappingSeparates
        <4> QED
          BY <3>1, <4>1, <4>4 DEF samples_to_erase
      <3>2. CASE ~vad_gate
        <4>1. decode_buf = [q \in 1..snapshot |-> q - 1] /\ e = commit_t1
          BY <3>2 DEF decode_buf, samples_to_erase
        <4> QED
          BY <1>1, <2>2, <2>3, <4>1
      <3> QED
        BY <3>1, <3>2
    <2> HIDE DEF x, e
    <2>5. Front = size - Remaining
      BY <1>1, <2>1, <2>3 DEF Front, Remaining
    <2>6. CASE force
      <3>1. Front = size
        BY <2>3, <2>5, <2>6 DEF Remaining
      <3> QED
        BY <2>2, <2>3, <2>6, <3>1 DEF x
    <2>7. CASE ~force
      <3>1. Front = IF e < size THEN e ELSE size
        BY <2>2, <2>3, <2>5, <2>7 DEF Remaining, e
      <3>2. x < Front <=> x < e
        BY <2>2, <2>3, <3>1
      <3> QED
        BY <2>4, <2>7, <3>2 DEF x
    <2> QED
      BY <2>6, <2>7
  <1>2. ASSUME EngineInv
        PROVE  (Commit /\ shift = 0) =>
                 \A p \in DOMAIN decode_buf : decode_buf[p] # Silence =>
                   (force \/ p <= commit_t1 <=> decode_buf[p] < Front)
    BY <1>1, <1>2
  <1> QED
    BY <1>2, EngineSafe, PTL DEF PassSplits

\* A pass with the gate erases nothing that came after its copy, however far
\* past the audio whisper puts its times.
THEOREM EngineNewAudioKept == Spec => NewAudioKept
  <1>1. ASSUME EngineInv, Commit, shift = 0, vad_gate, ~force
        PROVE  Front <= snapshot
    <2>1. pc = "commit" /\ size' = Remaining
      BY <1>1 DEF Commit
    <2>2. samples_to_erase \in Nat /\ samples_to_erase <= snapshot
      BY <1>1, <2>1, EraseFacts
    <2>3. size \in Nat /\ snapshot \in Nat
      BY <1>1, EngineConstants DEF EngineConstants, EngineInv, TypeOK
    <2> QED
      BY <1>1, <2>1, <2>2, <2>3 DEF Front, Remaining
  <1>2. ASSUME EngineInv
        PROVE  (Commit /\ shift = 0 /\ vad_gate /\ ~force) => Front <= snapshot
    BY <1>1, <1>2
  <1> QED
    BY <1>2, EngineSafe, PTL DEF NewAudioKept
=============================================================================
