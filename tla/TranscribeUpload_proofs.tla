------------------------ MODULE TranscribeUpload_proofs ------------------------
(***************************************************************************)
(* Proofs about the way of an upload: DecoderFreesAll, for every form, and *)
(* for every set of well-formed parts UploadSafe (the inductive invariant  *)
(* UploadInv), PartsReturned and UploadReachesModel.                       *)
(*                                                                         *)
(* The parser is proved with places: starts says where each part begins in *)
(* what was sent, EncodedFacts what stands at each place of a part, and    *)
(* FindPair which place find() returns, so PartParsed knows both ends of   *)
(* the headers and the data.  The decoder is proved with one sequence: the *)
(* output, the resampler and the codec one after the other.                *)
(***************************************************************************)
EXTENDS TranscribeUpload, SequenceTheorems, TLAPS

(***************************************************************************)
(* The decoder: what it has allocated                                      *)
(***************************************************************************)
\* The steps of the setup in their order.
LEMMA SetupOrder ==
  /\ InSetup <=> decode_pc \in {"avio", "open", "info", "stream", "decoder", "codec", "params",
                                "open2", "swr", "swr_init"}
  /\ NextStep("avio") = "open" /\ NextStep("open") = "info" /\ NextStep("info") = "stream"
  /\ NextStep("stream") = "decoder" /\ NextStep("decoder") = "codec" /\ NextStep("codec") = "params"
  /\ NextStep("params") = "open2" /\ NextStep("open2") = "swr" /\ NextStep("swr") = "swr_init"
  /\ NextStep("swr_init") = "loop"
<1>1. /\ Len(Setup) = 11
      /\ Setup[1] = "avio" /\ Setup[2] = "open" /\ Setup[3] = "info" /\ Setup[4] = "stream"
      /\ Setup[5] = "decoder" /\ Setup[6] = "codec" /\ Setup[7] = "params" /\ Setup[8] = "open2"
      /\ Setup[9] = "swr" /\ Setup[10] = "swr_init" /\ Setup[11] = "loop"
  BY DEF Setup
<1>2. InSetup <=> decode_pc \in {"avio", "open", "info", "stream", "decoder", "codec", "params",
                                 "open2", "swr", "swr_init"}
  <2>1. 1..(Len(Setup) - 1) = {1, 2, 3, 4, 5, 6, 7, 8, 9, 10}
    BY <1>1
  <2> QED
    BY <1>1, <2>1 DEF InSetup
<1>3. ASSUME NEW step, NEW k \in 1..10, Setup[k] = step,
             \A i \in 1..10 : Setup[i] = step => i = k
      PROVE  NextStep(step) = Setup[1 + k]
  <2>1. (CHOOSE i \in 1..(Len(Setup) - 1) : Setup[i] = step) = k
    <3>1. Len(Setup) - 1 = 10
      BY <1>1
    <3> QED
      BY <1>3, <3>1
  <2> QED
    BY <2>1 DEF NextStep
<1>4. \A i \in 1..10 : i \in {1, 2, 3, 4, 5, 6, 7, 8, 9, 10}
  OBVIOUS
<1>5. /\ NextStep("avio") = "open" /\ NextStep("open") = "info" /\ NextStep("info") = "stream"
      /\ NextStep("stream") = "decoder" /\ NextStep("decoder") = "codec"
  BY <1>1, <1>3, <1>4
<1>6. /\ NextStep("codec") = "params" /\ NextStep("params") = "open2" /\ NextStep("open2") = "swr"
      /\ NextStep("swr") = "swr_init" /\ NextStep("swr_init") = "loop"
  BY <1>1, <1>3, <1>4
<1> QED
  BY <1>2, <1>5, <1>6

\* The same for the state after a step.
LEMMA SetupOrderNext ==
  InSetup' <=> decode_pc' \in {"avio", "open", "info", "stream", "decoder", "codec", "params",
                               "open2", "swr", "swr_init"}
<1>1. /\ Len(Setup) = 11
      /\ Setup[1] = "avio" /\ Setup[2] = "open" /\ Setup[3] = "info" /\ Setup[4] = "stream"
      /\ Setup[5] = "decoder" /\ Setup[6] = "codec" /\ Setup[7] = "params" /\ Setup[8] = "open2"
      /\ Setup[9] = "swr" /\ Setup[10] = "swr_init"
  BY DEF Setup
<1>2. 1..(Len(Setup) - 1) = {1, 2, 3, 4, 5, 6, 7, 8, 9, 10}
  BY <1>1
<1> QED
  BY <1>1, <1>2 DEF InSetup

\* Every step of the decoder allocates and frees what its place says.
LEMMA HeldByStepStep ==
  ASSUME HeldByStep, HandleOrder, [Next]_vars
  PROVE  HeldByStep'
<1> USE DEF HeldByStep
<1>1. CASE StepSucceeds
  <2>1. /\ decode_pc \in {"avio", "open", "info", "stream", "decoder", "codec", "params", "open2",
                          "swr", "swr_init"}
        /\ decode_pc' = NextStep(decode_pc) /\ held' = Frees(decode_pc) \cup Acquires(decode_pc)
    BY <1>1, SetupOrder DEF StepSucceeds
  <2>2. CASE decode_pc # "swr_init"
    <3>1. InSetup' /\ decode_pc' \notin {"loop", "flush", "off", "returned", "threw"}
      BY <2>1, <2>2, SetupOrder, SetupOrderNext
    <3>2. held' = Frees(decode_pc')
      BY <2>1, <2>2, SetupOrder DEF Frees, Acquires
    <3> QED
      BY <3>1, <3>2
  <2>3. CASE decode_pc = "swr_init"
    <3>1. decode_pc' = "loop" /\ ~InSetup'
      BY <2>1, <2>3, SetupOrder, SetupOrderNext
    <3>2. held' = {"avio", "fmt", "codec", "swr", "pkt", "frame"}
      BY <2>1, <2>3 DEF Frees, Acquires
    <3> QED
      BY <3>1, <3>2
  <2> QED
    BY <2>2, <2>3
<1>2. CASE StepFails \/ EmptyInput
  <2>1. decode_pc' = "threw" /\ held' = {}
    BY <1>2, SetupOrder DEF StepFails, EmptyInput, Frees
  <2>2. ~InSetup'
    BY <2>1, SetupOrderNext
  <2> QED
    BY <2>1, <2>2
<1>3. CASE ReadEnds \/ OutOfMemory \/ Finish
  <2>1. \/ decode_pc = "loop" /\ decode_pc' = "flush" /\ held' = held
        \/ decode_pc' = "bad_alloc"
        \/ decode_pc' \in {"returned", "threw"} /\ decode_pc = "flush"
           /\ held' = held \ {"frame", "pkt", "swr", "codec", "fmt", "avio"}
    BY <1>3 DEF ReadEnds, OutOfMemory, Finish
  <2>2. ~InSetup'
    BY <2>1, SetupOrderNext
  <2> QED
    BY <2>1, <2>2
<1>4. ASSUME UNCHANGED <<decode_pc, held>> PROVE HeldByStep'
  BY <1>4, SetupOrder, SetupOrderNext
<1>5. CASE CheckFields
  <2>1. UNCHANGED <<decode_pc, held>> \/ (decode_pc' = "avio" /\ held' = held /\ pc = "fields")
    BY <1>5 DEF CheckFields, decoderVars
  <2>2. CASE decode_pc' = "avio" /\ held' = held /\ pc = "fields"
    <3>1. decode_pc = "off" /\ held' = {} /\ InSetup'
      BY <2>2, SetupOrderNext DEF HandleOrder
    <3> QED
      BY <2>2, <3>1 DEF Frees
  <2> QED
    BY <1>4, <2>1, <2>2
<1>6. CASE ReadOther \/ ReadAudio
  BY <1>4, <1>6 DEF ReadOther, ReadAudio
<1>7. CASE ClientAdds \/ ClientSends \/ Boundary \/ Parse \/ CheckDuration \/ UNCHANGED vars
  BY <1>4, <1>7 DEF ClientAdds, ClientSends, Boundary, Parse, CheckDuration, vars, decoderVars
<1>8. CASE Decode
  BY <1>1, <1>2, <1>3, <1>4, <1>6, <1>8 DEF Decode, DecoderStep, decoderVars
<1> QED
  BY <1>5, <1>7, <1>8 DEF Next, Answered

(***************************************************************************)
(* The decoder: frames through codec and resampler                         *)
(***************************************************************************)
\* A sequence is its first k elements and the rest.
LEMMA Split ==
  ASSUME NEW s \in Seq(Nat), NEW k \in 0..Len(s)
  PROVE  /\ SubSeq(s, 1, k) \in Seq(Nat) /\ SubSeq(s, k + 1, Len(s)) \in Seq(Nat)
         /\ SubSeq(s, 1, k) \o SubSeq(s, k + 1, Len(s)) = s
<1>1. Len(s) \in Nat /\ \A i \in 1..Len(s) : s[i] \in Nat
  OBVIOUS
<1>2. SubSeq(s, 1, k) \in Seq(Nat) /\ SubSeq(s, k + 1, Len(s)) \in Seq(Nat)
  <2>1. \A i \in 1..k : s[i] \in Nat
    BY <1>1
  <2>2. \A i \in (k + 1)..Len(s) : s[i] \in Nat
    BY <1>1
  <2> QED
    BY <1>1, <2>1, <2>2, SubSeqProperties
<1>3. SubSeq(s, 1, k) \o SubSeq(s, k + 1, Len(s)) = SubSeq(s, 1, Len(s))
  <2>1. 1 \in 1..(Len(s) + 1) /\ k \in (1 - 1)..Len(s) /\ Len(s) \in k..Len(s)
    BY <1>1
  <2> QED
    BY <2>1, ConcatAdjacentSubSeq
<1> QED
  BY <1>2, <1>3, SubSeqFull

\* Concatenation of frames is associative.
LEMMA Associative ==
  \A s, t, u \in Seq(Nat) : (s \o t) \o u = s \o (t \o u)
<1> SUFFICES ASSUME NEW s \in Seq(Nat), NEW t \in Seq(Nat), NEW u \in Seq(Nat)
             PROVE  (s \o t) \o u = s \o (t \o u)
  BY Zenon
<1>1. /\ (s \o t) \o u \in Seq(Nat) /\ s \o (t \o u) \in Seq(Nat)
      /\ Len((s \o t) \o u) = Len(s \o (t \o u))
  OBVIOUS
<1>2. ASSUME NEW i \in 1..Len((s \o t) \o u)
      PROVE  ((s \o t) \o u)[i] = (s \o (t \o u))[i]
  OBVIOUS
<1> DEFINE x == (s \o t) \o u
           y == s \o (t \o u)
<1>3. x = y
  <2>1. x \in Seq(Nat) /\ y \in Seq(Nat) /\ Len(x) = Len(y) /\ \A i \in 1..Len(x) : x[i] = y[i]
    BY <1>1, <1>2
  <2> HIDE DEF x, y
  <2> QED
    BY <2>1, SeqEqual
<1> QED
  BY <1>3

\* drain_swr() moves frames on and loses none.
LEMMA DrainKeeps ==
  ASSUME s16 \in Seq(Nat), resampler \in Seq(Nat), NEW frames \in Seq(Nat), drain_swr(frames)
  PROVE  /\ s16' \in Seq(Nat) /\ resampler' \in Seq(Nat)
         /\ s16' \o resampler' = (s16 \o resampler) \o frames
<1> DEFINE all == resampler \o frames
<1>1. all \in Seq(Nat) /\ Len(all) \in Nat
  OBVIOUS
<1>2. PICK k \in {Len(all), Len(all) - 1} :
        k >= 0 /\ s16' = s16 \o SubSeq(all, 1, k) /\ resampler' = SubSeq(all, k + 1, Len(all))
  BY Zenon DEF drain_swr
<1>k. k \in 0..Len(all)
  <2> HIDE DEF all
  <2> QED
    BY <1>1, <1>2
<1> DEFINE A == SubSeq(all, 1, k)
           B == SubSeq(all, k + 1, Len(all))
<1>3. A \in Seq(Nat) /\ B \in Seq(Nat) /\ A \o B = all
  <2> HIDE DEF all
  <2> QED
    BY <1>1, <1>k, Split
<1>4. s16' = s16 \o A /\ resampler' = B
  BY <1>2
<1> HIDE DEF A, B
<1>5. (s16 \o A) \o B = s16 \o (A \o B)
  BY <1>3, Associative, Zenon
<1>6. s16 \o all = (s16 \o resampler) \o frames
  BY Associative, Zenon
<1>7. s16 \o A \in Seq(Nat)
  BY <1>3
<1> QED
  BY <1>3, <1>4, <1>5, <1>6, <1>7

\* What was in the output, the resampler and frames is in the output, the
\* resampler and the codec afterwards, in the same order.
LEMMA TakenKeeps ==
  ASSUME s16 \in Seq(Nat), resampler \in Seq(Nat), codec_delay \in Nat,
         NEW frames \in Seq(Nat), Taken(frames)
  PROVE  /\ s16' \in Seq(Nat) /\ resampler' \in Seq(Nat) /\ inside' \in Seq(Nat)
         /\ (s16' \o resampler') \o inside' = (s16 \o resampler) \o frames
<1>1. CASE codec_delay <= Len(frames)
  <2>1. inside' = KeptBack(frames) /\ drain_swr(Ready(frames))
    BY <1>1 DEF Taken
  <2> DEFINE k == Len(frames) - codec_delay
  <2>2. k \in 0..Len(frames)
    BY <1>1
  <2>3. /\ Ready(frames) \in Seq(Nat) /\ KeptBack(frames) \in Seq(Nat)
        /\ Ready(frames) \o KeptBack(frames) = frames
    BY <2>2, Split DEF Ready, KeptBack
  <2>4. /\ s16' \in Seq(Nat) /\ resampler' \in Seq(Nat)
        /\ s16' \o resampler' = (s16 \o resampler) \o Ready(frames)
    BY <2>1, <2>3, DrainKeeps
  <2>5. s16 \o resampler \in Seq(Nat)
    OBVIOUS
  <2>6. ((s16 \o resampler) \o Ready(frames)) \o KeptBack(frames)
          = (s16 \o resampler) \o (Ready(frames) \o KeptBack(frames))
    BY <2>3, <2>5, Associative, Zenon
  <2> QED
    BY <2>1, <2>3, <2>4, <2>6
<1>2. CASE ~(codec_delay <= Len(frames))
  BY <1>2 DEF Taken
<1> QED
  BY <1>1, <1>2

\* cut is all, which is in order, without the m frames b behind the first n.
Cut(n, m, k, all, cut, b) ==
  /\ \A i \in 1..(n + m + k) : all[i] \in Nat
  /\ \A i, j \in 1..(n + m + k) : i < j => all[i] < all[j]
  /\ \A i \in 1..n : cut[i] = all[i]
  /\ \A i \in 1..m : b[i] = all[n + i]
  /\ \A i \in 1..k : cut[n + i] = all[n + m + i]

\* cut is in order and has what all has and b has not.
Rest(n, m, k, all, cut, b) ==
  /\ \A i \in 1..(n + k) : \E h \in 1..(n + m + k) : cut[i] = all[h]
  /\ \A i \in 1..(n + k) : \A j \in 1..m : cut[i] # b[j]
  /\ \A h \in 1..(n + m + k) :
       (\A j \in 1..m : all[h] # b[j]) => \E i \in 1..(n + k) : all[h] = cut[i]
  /\ \A i, j \in 1..(n + k) : i < j => cut[i] < cut[j]

\* What is left of frames in order when some in the middle are dropped: the
\* others, still in order.
LEMMA CutPlaces ==
  ASSUME NEW n \in Nat, NEW m \in Nat, NEW k \in Nat, NEW all, NEW cut, NEW b,
         Cut(n, m, k, all, cut, b)
  PROVE  Rest(n, m, k, all, cut, b)
<1> USE DEF Cut
<1> DEFINE from(i) == IF i <= n THEN i ELSE i + m
<1>1. \A i \in 1..(n + k) : from(i) \in 1..(n + m + k) /\ cut[i] = all[from(i)]
  <2> SUFFICES ASSUME NEW i \in 1..(n + k)
               PROVE  from(i) \in 1..(n + m + k) /\ cut[i] = all[from(i)]
    OBVIOUS
  <2>1. CASE i <= n
    BY <2>1
  <2>2. CASE i > n
    <3>1. i - n \in 1..k /\ n + (i - n) = i /\ n + m + (i - n) = i + m
      BY <2>2
    <3>2. cut[n + (i - n)] = all[n + m + (i - n)]
      BY <3>1
    <3> QED
      BY <2>2, <3>1, <3>2
  <2> QED
    BY <2>1, <2>2
<1>2. \A i, j \in 1..(n + k) : i < j => cut[i] < cut[j]
  <2>1. \A i, j \in 1..(n + k) : i < j => from(i) < from(j)
    OBVIOUS
  <2> HIDE DEF from
  <2> QED
    BY <1>1, <2>1
<1>3. ASSUME NEW i \in 1..(n + k), NEW j \in 1..m PROVE cut[i] # b[j]
  <2>1. b[j] = all[n + j] /\ n + j \in 1..(n + m + k)
    OBVIOUS
  <2>2. from(i) < n + j \/ n + j < from(i)
    OBVIOUS
  <2>3. from(i) \in 1..(n + m + k) /\ cut[i] = all[from(i)]
    BY <1>1
  <2> HIDE DEF from
  <2>4. all[from(i)] < all[n + j] \/ all[n + j] < all[from(i)]
    BY <2>1, <2>2, <2>3
  <2>5. all[from(i)] \in Nat /\ all[n + j] \in Nat
    BY <2>1, <2>3
  <2> QED
    BY <2>1, <2>3, <2>4, <2>5
<1>4. ASSUME NEW i \in 1..(n + m + k), \A j \in 1..m : all[i] # b[j]
      PROVE  \E h \in 1..(n + k) : all[i] = cut[h]
  <2>1. CASE i <= n
    <3>1. i \in 1..(n + k) /\ all[i] = cut[i]
      BY <2>1
    <3> QED
      BY <3>1
  <2>2. CASE i > n /\ i <= n + m
    <3>1. i - n \in 1..m /\ n + (i - n) = i
      BY <2>2
    <3>2. b[i - n] = all[n + (i - n)]
      BY <3>1
    <3> QED
      BY <1>4, <3>1, <3>2
  <2>3. CASE i > n + m
    <3>1. i - m \in 1..(n + k) /\ from(i - m) = i
      BY <2>3
    <3> HIDE DEF from
    <3>2. cut[i - m] = all[from(i - m)]
      BY <1>1, <3>1
    <3> QED
      BY <3>1, <3>2
  <2> QED
    BY <2>1, <2>2, <2>3
<1> HIDE DEF from
<1> QED
  BY <1>1, <1>2, <1>3, <1>4 DEF Rest

\* The same for concatenations.
LEMMA CutMiddle ==
  ASSUME NEW a \in Seq(Nat), NEW b \in Seq(Nat), NEW c \in Seq(Nat),
         \A i, j \in 1..Len((a \o b) \o c) : i < j => ((a \o b) \o c)[i] < ((a \o b) \o c)[j]
  PROVE  /\ {(a \o c)[i] : i \in 1..Len(a \o c)} =
              {((a \o b) \o c)[i] : i \in 1..Len((a \o b) \o c)} \ {b[i] : i \in DOMAIN b}
         /\ \A i, j \in 1..Len(a \o c) : i < j => (a \o c)[i] < (a \o c)[j]
<1> DEFINE n == Len(a)
           m == Len(b)
           k == Len(c)
           all == (a \o b) \o c
           cut == a \o c
<1>1. /\ n \in Nat /\ m \in Nat /\ k \in Nat /\ DOMAIN b = 1..m
      /\ Len(all) = n + m + k /\ Len(cut) = n + k
      /\ \A i \in 1..(n + m + k) : all[i] \in Nat
  <2>1. all \in Seq(Nat) /\ Len(all) = n + m + k
    OBVIOUS
  <2>2. \A i \in 1..Len(all) : all[i] \in Nat
    <3> HIDE DEF all, n, m, k
    <3> QED
      BY <2>1
  <2>3. n \in Nat /\ m \in Nat /\ k \in Nat /\ DOMAIN b = 1..m /\ Len(cut) = n + k
    OBVIOUS
  <2> HIDE DEF all, n, m, k, cut
  <2> QED
    BY <2>1, <2>2, <2>3
<1>2. /\ \A i \in 1..n : cut[i] = all[i]
      /\ \A i \in 1..m : b[i] = all[n + i]
      /\ \A i \in 1..k : cut[n + i] = all[n + m + i]
  OBVIOUS
<1>3. \A i, j \in 1..(n + m + k) : i < j => all[i] < all[j]
  BY <1>1
<1> HIDE DEF n, m, k, all, cut
<1>4. Rest(n, m, k, all, cut, b)
  <2>1. n \in Nat /\ m \in Nat /\ k \in Nat
    BY <1>1
  <2>2. Cut(n, m, k, all, cut, b)
    BY <1>1, <1>2, <1>3, Zenon DEF Cut
  <2> QED
    BY <2>1, <2>2, CutPlaces, Zenon
<1>5. /\ {cut[i] : i \in 1..Len(cut)} = {all[i] : i \in 1..Len(all)} \ {b[i] : i \in DOMAIN b}
      /\ \A i, j \in 1..Len(cut) : i < j => cut[i] < cut[j]
  <2>1. {cut[i] : i \in 1..(n + k)} = {all[i] : i \in 1..(n + m + k)} \ {b[i] : i \in 1..m}
    <3> DEFINE A == {all[i] : i \in 1..(n + m + k)}
               B == {b[i] : i \in 1..m}
               C == {cut[i] : i \in 1..(n + k)}
    <3>1. ASSUME NEW x \in C PROVE x \in A \ B
      <4>1. PICK i \in 1..(n + k) : x = cut[i]
        OBVIOUS
      <4>2. (\E h \in 1..(n + m + k) : x = all[h]) /\ \A j \in 1..m : x # b[j]
        BY <1>4, <4>1, Zenon DEF Rest
      <4> QED
        BY <4>2, Zenon
    <3>2. ASSUME NEW x \in A, x \notin B PROVE x \in C
      <4>1. PICK h \in 1..(n + m + k) : x = all[h]
        OBVIOUS
      <4>2. \A j \in 1..m : all[h] # b[j]
        BY <3>2, <4>1, Zenon
      <4>3. \E i \in 1..(n + k) : x = cut[i]
        BY <1>4, <4>1, <4>2, Zenon DEF Rest
      <4> QED
        BY <4>3, Zenon
    <3> HIDE DEF A, B, C
    <3>3. C = A \ B
      BY <3>1, <3>2
    <3> QED
      BY <3>3, Zenon DEF A, B, C
  <2>2. \A i, j \in 1..(n + k) : i < j => cut[i] < cut[j]
    BY <1>4 DEF Rest
  <2> QED
    BY <1>1, <2>1, <2>2
<1> QED
  BY <1>5 DEF all, cut

\* The last of the first n parts of a name is one of them, with its data.
LEMMA DataOfPart ==
  ASSUME WellFormed(Fields), Written, Parsed, parse_pc = "done", NEW name \in DOMAIN result
  PROVE  /\ result[name].data \in Seq(Symbols)
         /\ \A i \in 1..Len(result[name].data) :
              result[name].data[i][1] = "audio" => result[name].data[i] = <<"audio">>
<1>1. PICK n \in 0..Len(form) :
        Says(n) /\ \A m \in MeantNames(n) : \E i \in 1..n : LastPart(i, n, m)
  BY DEF Parsed
<1>2. name \in MeantNames(n) /\ result[name] = Meant(n, name)
  BY <1>1 DEF Says
<1> DEFINE i0 == CHOOSE i \in 1..n : LastPart(i, n, name)
<1>3. i0 \in 1..n
  <2>1. \E i \in 1..n : LastPart(i, n, name)
    BY <1>1, <1>2
  <2> QED
    BY <2>1
<1>4. form[i0] \in Fields
  <2> HIDE DEF i0
  <2>1. i0 \in 1..Len(form) /\ form \in Seq(Fields)
    BY <1>1, <1>3 DEF Written
  <2> QED
    BY <2>1
<1>5. result[name].data = form[i0].data
  BY <1>2 DEF Meant, Content
<1> HIDE DEF i0
<1> QED
  BY <1>4, <1>5 DEF WellFormed, WellFormedPart, Symbols

(***************************************************************************)
(* The decoder and the handler, step by step                               *)
(***************************************************************************)
\* Frames are lined up in order, through the codec, the resampler and the
\* output, whatever the codec keeps back and refuses and the resampler drops.
LEMMA FramesInOrderStep ==
  ASSUME WellFormed(Fields), Written, Parsed, FramesInOrder, HandleOrder, [Next]_vars
  PROVE  FramesInOrder'
<1> DEFINE all == s16 \o resampler \o inside
           heard == {i \in 1..Len(packets) : i < at /\ packets[i] = "audio"} \ corrupt
<1>1. /\ s16 \in Seq(Nat) /\ resampler \in Seq(Nat) /\ inside \in Seq(Nat)
      /\ at \in Nat /\ at > 0 /\ codec_delay \in Nat /\ corrupt \subseteq 1..(at - 1)
      /\ Len(packets) \in Nat /\ DOMAIN packets = 1..Len(packets)
  BY DEF FramesInOrder
<1>2. all \in Seq(Nat) /\ Len(all) \in Nat
  BY <1>1
<1>3. {all[i] : i \in 1..Len(all)} = heard /\ \A i, j \in 1..Len(all) : i < j => all[i] < all[j]
  BY DEF FramesInOrder
<1>0. ASSUME all' = all, heard' = heard,
             s16' \in Seq(Nat), resampler' \in Seq(Nat), inside' \in Seq(Nat),
             at' \in Nat \ {0}, codec_delay' \in Nat, corrupt' \subseteq 1..(at' - 1),
             Len(packets') \in Nat, DOMAIN packets' = 1..Len(packets')
      PROVE  FramesInOrder'
  <2>1. {all'[i] : i \in 1..Len(all')} = heard' /\ \A i, j \in 1..Len(all') : i < j => all'[i] < all'[j]
    <3> HIDE DEF all, heard
    <3> QED
      BY <1>0, <1>3
  <2> QED
    BY <1>0, <2>1 DEF FramesInOrder
<1>4. ASSUME UNCHANGED <<packets, at, codec_delay, inside, resampler, s16, corrupt>>
      PROVE  FramesInOrder'
  <2>1. all' = all /\ heard' = heard
    BY <1>4
  <2> HIDE DEF all, heard
  <2> QED
    BY <1>0, <1>1, <1>4, <2>1
<1>5. CASE ReadOther
  <2>1. /\ UNCHANGED <<packets, codec_delay, inside, resampler, s16, corrupt>>
        /\ at' = at + 1 /\ packets[at] # "audio"
    BY <1>5 DEF ReadOther
  <2>2. heard' = heard /\ all' = all
    BY <1>1, <2>1
  <2>3. at' \in Nat \ {0} /\ corrupt' \subseteq 1..(at' - 1)
    BY <1>1, <2>1
  <2> HIDE DEF all, heard
  <2> QED
    BY <1>0, <1>1, <2>1, <2>2, <2>3
<1>6. CASE ReadAudio
  <2>1. /\ UNCHANGED <<packets, codec_delay>> /\ at' = at + 1 /\ packets[at] = "audio"
        /\ at <= Len(packets) /\ at' \in Nat \ {0}
    BY <1>1, <1>6 DEF ReadAudio
  <2>2. CASE corrupt' = corrupt \cup {at} /\ UNCHANGED <<inside, resampler, s16>>
    <3>1. heard' = heard /\ all' = all
      BY <1>1, <2>1, <2>2
    <3>2. corrupt' \subseteq 1..(at' - 1)
      BY <1>1, <2>1, <2>2
    <3> HIDE DEF all, heard
    <3> QED
      BY <1>0, <1>1, <2>1, <2>2, <3>1, <3>2
  <2> DEFINE next == all \o <<at>>
             frames == Append(inside, at)
  <2>3. /\ next \in Seq(Nat) /\ {next[i] : i \in 1..Len(next)} = heard \cup {at}
        /\ \A i, j \in 1..Len(next) : i < j => next[i] < next[j]
    <3>0. next \in Seq(Nat)
      <4> HIDE DEF all
      <4> QED
        BY <1>1, <1>2
    <3>1. /\ Len(next) = Len(all) + 1 /\ next[Len(all) + 1] = at
          /\ \A i \in 1..Len(all) : next[i] = all[i]
      <4> HIDE DEF all
      <4> QED
        BY <1>1, <1>2
    <3>2. \A i \in 1..Len(all) : all[i] < at
      <4>1. \A i \in 1..Len(all) : all[i] \in heard
        BY <1>3
      <4> QED
        BY <4>1
    <3> HIDE DEF all, next, heard
    <3>3. \A i, j \in 1..Len(next) : i < j => next[i] < next[j]
      BY <1>2, <1>3, <3>1, <3>2
    <3>4. {next[i] : i \in 1..Len(next)} = heard \cup {at}
      BY <1>2, <1>3, <3>1
    <3> QED
      BY <3>0, <3>3, <3>4
  <2>4. frames \in Seq(Nat) /\ (s16 \o resampler) \o frames = next
    <3>1. frames = inside \o <<at>> /\ <<at>> \in Seq(Nat) /\ s16 \o resampler \in Seq(Nat)
      BY <1>1
    <3>2. (s16 \o resampler) \o (inside \o <<at>>) = ((s16 \o resampler) \o inside) \o <<at>>
      BY <1>1, <3>1, Associative, Zenon
    <3>3. frames \in Seq(Nat)
      BY <1>1
    <3>4. next = ((s16 \o resampler) \o inside) \o <<at>>
      OBVIOUS
    <3> HIDE DEF frames, next, all
    <3> QED
      BY <3>1, <3>2, <3>3, <3>4, Zenon
  <2>5. CASE Taken(frames)
    <3>1. /\ s16' \in Seq(Nat) /\ resampler' \in Seq(Nat) /\ inside' \in Seq(Nat) /\ all' = next
      <4> HIDE DEF frames
      <4> QED
        BY <1>1, <2>4, <2>5, TakenKeeps
    <3>2. UNCHANGED corrupt /\ heard' = heard \cup {at}
      BY <1>1, <2>1, <2>5 DEF Taken
    <3>3. corrupt' \subseteq 1..(at' - 1)
      BY <1>1, <2>1, <3>2
    <3>4. {all'[i] : i \in 1..Len(all')} = heard' /\ \A i, j \in 1..Len(all') : i < j => all'[i] < all'[j]
      <4> HIDE DEF all, heard, next
      <4> QED
        BY <2>3, <3>1, <3>2
    <3> QED
      BY <1>1, <2>1, <3>1, <3>3, <3>4 DEF FramesInOrder
  <2>6. CASE /\ codec_delay <= Len(inside) + 1
             /\ inside' = KeptBack(frames) /\ Dropped(Ready(frames)) /\ UNCHANGED resampler
    <3> DEFINE lost == {Ready(frames)[i] : i \in DOMAIN Ready(frames)}
    <3>1. /\ Ready(frames) \in Seq(Nat) /\ KeptBack(frames) \in Seq(Nat)
          /\ Ready(frames) \o KeptBack(frames) = frames
      <4>1. Len(frames) = Len(inside) + 1 /\ Len(frames) - codec_delay \in 0..Len(frames)
        BY <1>1, <2>6
      <4> HIDE DEF frames
      <4> QED
        BY <2>4, <4>1, Split DEF Ready, KeptBack
    <3>2. /\ corrupt' = corrupt \cup lost /\ all' = (s16 \o resampler) \o KeptBack(frames)
          /\ s16' = s16 /\ resampler' = resampler /\ inside' = KeptBack(frames)
      BY <2>6 DEF Dropped
    <3>3. next = ((s16 \o resampler) \o Ready(frames)) \o KeptBack(frames) /\ s16 \o resampler \in Seq(Nat)
      <4>1. s16 \o resampler \in Seq(Nat)
        BY <1>1
      <4> HIDE DEF next, frames
      <4>2. ((s16 \o resampler) \o Ready(frames)) \o KeptBack(frames)
              = (s16 \o resampler) \o (Ready(frames) \o KeptBack(frames))
        BY <3>1, <4>1, Associative, Zenon
      <4> QED
        BY <2>4, <3>1, <4>1, <4>2
    <3>4. /\ {all'[i] : i \in 1..Len(all')} = {next[i] : i \in 1..Len(next)} \ lost
          /\ \A i, j \in 1..Len(all') : i < j => all'[i] < all'[j]
      <4> DEFINE a == s16 \o resampler
                 b == Ready(frames)
                 c == KeptBack(frames)
      <4>1. /\ a \in Seq(Nat) /\ b \in Seq(Nat) /\ c \in Seq(Nat)
            /\ all' = a \o c /\ next = (a \o b) \o c
        BY <3>1, <3>2, <3>3
      <4>2. lost = {b[i] : i \in DOMAIN b}
        OBVIOUS
      <4> HIDE DEF all, next, frames, a, b, c, lost
      <4>3. \A i, j \in 1..Len((a \o b) \o c) : i < j => ((a \o b) \o c)[i] < ((a \o b) \o c)[j]
        BY <2>3, <4>1
      <4>4. /\ {(a \o c)[i] : i \in 1..Len(a \o c)} =
                 {((a \o b) \o c)[i] : i \in 1..Len((a \o b) \o c)} \ {b[i] : i \in DOMAIN b}
            /\ \A i, j \in 1..Len(a \o c) : i < j => (a \o c)[i] < (a \o c)[j]
        BY <4>1, <4>3, CutMiddle, Zenon
      <4> QED
        BY <4>1, <4>2, <4>4, Zenon
    <3>5. lost \subseteq 1..at
      <4>1. lost \subseteq {next[i] : i \in 1..Len(next)}
        <5> DEFINE pre == s16 \o resampler
                   b == Ready(frames)
                   c == KeptBack(frames)
        <5>1. pre \in Seq(Nat) /\ b \in Seq(Nat) /\ c \in Seq(Nat) /\ next = (pre \o b) \o c
          BY <3>1, <3>3
        <5>2. lost = {b[i] : i \in DOMAIN b}
          OBVIOUS
        <5> HIDE DEF next, frames, pre, b, c, lost
        <5>3. \A i \in 1..Len(b) : Len(pre) + i \in 1..Len(next) /\ next[Len(pre) + i] = b[i]
          BY <5>1
        <5>4. DOMAIN b = 1..Len(b)
          BY <5>1
        <5> QED
          BY <5>2, <5>3, <5>4
      <4>2. heard \cup {at} \subseteq 1..at
        BY <1>1
      <4> HIDE DEF next, heard, lost
      <4> QED
        BY <2>3, <4>1, <4>2
    <3>6. corrupt' \subseteq 1..(at' - 1) /\ heard' = (heard \cup {at}) \ lost
      <4> HIDE DEF lost
      <4> QED
        BY <1>1, <2>1, <3>2, <3>5
    <3>7. {all'[i] : i \in 1..Len(all')} = heard'
      <4> HIDE DEF all, heard, next, lost
      <4> QED
        BY <2>3, <3>4, <3>6
    <3>8. s16' \in Seq(Nat) /\ resampler' \in Seq(Nat) /\ inside' \in Seq(Nat)
      BY <1>1, <3>1, <3>2
    <3> QED
      BY <1>1, <2>1, <3>4, <3>6, <3>7, <3>8 DEF FramesInOrder
  <2> QED
    BY <1>6, <2>2, <2>5, <2>6 DEF ReadAudio, Retried
<1>7. CASE Finish
  <2>1. resampler' = <<>> /\ UNCHANGED <<packets, at, codec_delay, inside>>
    BY <1>7 DEF Finish, Flushed
  <2>2. CASE s16' = s16 \o resampler /\ UNCHANGED corrupt
    <3>1. s16' \in Seq(Nat) /\ resampler' \in Seq(Nat) /\ s16' \o resampler' = s16 \o resampler
      BY <1>1, <2>1, <2>2
    <3>2. all' = all /\ heard' = heard
      BY <2>1, <2>2, <3>1
    <3> HIDE DEF all, heard
    <3> QED
      BY <1>0, <1>1, <2>1, <2>2, <3>1, <3>2
  <2>3. CASE Dropped(resampler)
    <3> DEFINE lost == {resampler[i] : i \in DOMAIN resampler}
    <3>1. s16' = s16 /\ corrupt' = corrupt \cup lost
      BY <2>3 DEF Dropped
    <3>2. all' = s16 \o inside
      BY <1>1, <2>1, <3>1
    <3>3. /\ {all'[i] : i \in 1..Len(all')} = {all[i] : i \in 1..Len(all)} \ lost
          /\ \A i, j \in 1..Len(all') : i < j => all'[i] < all'[j]
      <4> DEFINE whole == (s16 \o resampler) \o inside
                 cut == s16 \o inside
      <4>1. all = whole /\ all' = cut
        BY <3>2
      <4>2. \A i, j \in 1..Len(whole) : i < j => whole[i] < whole[j]
        BY <1>3
      <4>3. /\ {cut[i] : i \in 1..Len(cut)} = {whole[i] : i \in 1..Len(whole)} \ lost
            /\ \A i, j \in 1..Len(cut) : i < j => cut[i] < cut[j]
        BY <1>1, <4>2, CutMiddle, Zenon
      <4> HIDE DEF all, whole, cut, lost
      <4> QED
        BY <4>1, <4>3, Zenon
    <3>4. lost \subseteq heard
      <4>1. lost = {resampler[i] : i \in 1..Len(resampler)}
        BY <1>1
      <4>2. \A i \in 1..Len(resampler) : Len(s16) + i \in 1..Len(all) /\ all[Len(s16) + i] = resampler[i]
        BY <1>1
      <4> HIDE DEF lost, all, heard
      <4> QED
        BY <1>3, <4>1, <4>2
    <3>5. corrupt' \subseteq 1..(at' - 1) /\ heard' = heard \ lost
      <4>1. heard \subseteq 1..(at - 1)
        BY <1>1
      <4>2. heard' = heard \ lost
        <5> HIDE DEF lost
        <5> QED
          BY <2>1, <3>1
      <4> HIDE DEF lost, heard
      <4> QED
        BY <1>1, <2>1, <3>1, <3>4, <4>1, <4>2
    <3>6. {all'[i] : i \in 1..Len(all')} = heard'
      <4> HIDE DEF all, heard, lost
      <4> QED
        BY <1>3, <3>3, <3>5
    <3>7. s16' \in Seq(Nat) /\ resampler' \in Seq(Nat) /\ inside' \in Seq(Nat)
      BY <1>1, <2>1, <3>1
    <3> QED
      BY <1>1, <2>1, <3>3, <3>5, <3>6, <3>7 DEF FramesInOrder
  <2> QED
    BY <1>7, <2>2, <2>3 DEF Finish, Flushed
<1>8. CASE CheckFields
  <2>1. CASE UNCHANGED decoderVars
    BY <1>4, <2>1 DEF decoderVars
  <2>2. CASE ~UNCHANGED decoderVars
    <3>1. /\ pc = "fields" /\ Has("file")
          /\ packets' = [i \in DOMAIN result["file"].data |-> result["file"].data[i][1]]
          /\ UNCHANGED <<at, codec_delay, inside, resampler, s16, corrupt>>
      BY <1>8, <2>2 DEF CheckFields
    <3>2. parse_pc = "done" /\ at = 1
      BY <3>1 DEF HandleOrder
    <3>3. result["file"].data \in Seq(Symbols)
      BY <3>1, <3>2, DataOfPart DEF Has
    <3>4. DOMAIN result["file"].data = 1..Len(result["file"].data) /\ Len(result["file"].data) \in Nat
      BY <3>3
    <3>5. DOMAIN packets' = 1..Len(packets') /\ Len(packets') \in Nat
      BY <3>1, <3>4
    <3>6. heard' = heard /\ all' = all
      BY <1>1, <3>1, <3>2, <3>5
    <3> HIDE DEF all, heard
    <3> QED
      BY <1>0, <1>1, <3>1, <3>5, <3>6
  <2> QED
    BY <2>1, <2>2
<1>9. CASE EmptyInput \/ StepSucceeds \/ StepFails \/ ReadEnds \/ OutOfMemory
  BY <1>4, <1>9 DEF EmptyInput, StepSucceeds, StepFails, ReadEnds, OutOfMemory, streamVars
<1>10. CASE ClientAdds \/ ClientSends \/ Boundary \/ Parse \/ CheckDuration \/ UNCHANGED vars
  BY <1>4, <1>10 DEF ClientAdds, ClientSends, Boundary, Parse, CheckDuration, vars, decoderVars
<1>11. CASE Decode
  BY <1>4, <1>5, <1>6, <1>7, <1>9, <1>11 DEF Decode, DecoderStep, decoderVars
<1> QED
  BY <1>8, <1>10, <1>11 DEF Next, Answered

\* handle() goes through its steps in order, and decodes what it parsed.
LEMMA HandleOrderStep ==
  ASSUME HandleOrder, [Next]_vars
  PROVE  HandleOrder'
<1> USE DEF HandleOrder, parserVars, decoderVars, uploadVars, clientVars, Has
<1>1. CASE ClientAdds \/ ClientSends
  BY <1>1 DEF ClientAdds, ClientSends
<1>2. CASE Boundary
  BY <1>2 DEF Boundary, Goto, extractBoundary
<1>3. CASE Parse
  <2>1. CASE ParserStep /\ UNCHANGED uploadVars /\ UNCHANGED decoderVars
    <3>1. boundary' = boundary
      BY <2>1 DEF ParserStep, ParseStart, ParseEnds, ParsePart
    <3> QED
      BY <1>3, <2>1, <3>1 DEF Parse
  <2>2. CASE UNCHANGED parserVars /\ UNCHANGED decoderVars /\ pc' = "400"
    BY <1>3, <2>2 DEF Parse
  <2>3. CASE parse_pc = "done" /\ UNCHANGED parserVars /\ UNCHANGED decoderVars /\ pc' = "fields"
    BY <1>3, <2>3 DEF Parse
  <2> QED
    BY <1>3, <2>1, <2>2, <2>3 DEF Parse, Goto
<1>4. CASE CheckFields
  <2>1. CASE UNCHANGED <<parserVars, decoderVars>> /\ pc' \in {"400", "413"}
    BY <2>1
  <2>2. CASE /\ pc = "fields" /\ Has("file") /\ Has("model") /\ pc' = "decode" /\ decode_pc' = "avio"
             /\ packets' = [i \in DOMAIN result["file"].data |-> result["file"].data[i][1]]
             /\ UNCHANGED parserVars
    BY <2>2
  <2> QED
    BY <1>4, <2>1, <2>2 DEF CheckFields, Goto
<1>5. CASE Decode
  <2>1. CASE DecoderStep /\ UNCHANGED uploadVars /\ UNCHANGED parserVars
    <3>1. /\ packets' = packets
          /\ decode_pc' = "returned" => resampler' = <<>>
      <4>1. ASSUME StepSucceeds PROVE decode_pc' # "returned"
        BY <4>1, SetupOrder DEF StepSucceeds
      <4> QED
        BY <2>1, <4>1, SetupOrder DEF DecoderStep, EmptyInput, StepSucceeds, StepFails, ReadOther, ReadAudio,
                     ReadEnds, OutOfMemory, Finish, Flushed, streamVars
    <3> QED
      BY <1>5, <2>1, <3>1 DEF Decode
  <2>2. CASE UNCHANGED <<parserVars, decoderVars>> /\ pc' = "400"
    BY <2>2
  <2>3. CASE UNCHANGED <<parserVars, decoderVars>> /\ decode_pc = "returned" /\ pc' = "duration"
    BY <1>5, <2>3 DEF Decode
  <2> QED
    BY <1>5, <2>1, <2>2, <2>3 DEF Decode, Goto
<1>6. CASE CheckDuration
  BY <1>6 DEF CheckDuration, Goto
<1>7. CASE UNCHANGED vars
  BY <1>7 DEF vars
<1> QED
  BY <1>1, <1>2, <1>3, <1>4, <1>5, <1>6, <1>7 DEF Next, Answered

(***************************************************************************)
(* The form as the client writes it, and find()                            *)
(***************************************************************************)
\* A line break is neither "--" nor a boundary.
LEMMA SymbolsDiffer ==
  /\ NL # Dashes /\ NL # Delim("b") /\ Dashes # Delim("b") /\ Delim("b") # Delim("b; more")
  /\ NL # Delim("b; more") /\ Dashes # Delim("b; more")
  /\ NL \in Symbols /\ Dashes \in Symbols /\ Delim("b") \in Symbols
<1>1. NL # Dashes /\ NL # Delim("b") /\ NL # Delim("b; more")
  BY DEF NL, Dashes, Delim
<1>2. Delim("b") # Delim("b; more")
  <2>1. Delim("b")[2] # Delim("b; more")[2]
    BY DEF Delim
  <2> QED
    BY <2>1, Zenon
<1>3. Dashes # Delim("b") /\ Dashes # Delim("b; more")
  <2>1. Len(Dashes) = 1 /\ Len(Delim("b")) = 2 /\ Len(Delim("b; more")) = 2 /\ 1 # 2
    BY DEF Dashes, Delim
  <2>2. ASSUME NEW s, NEW t, Len(s) = 1, Len(t) = 2 PROVE s # t
    BY <2>2
  <2> QED
    BY <2>1, <2>2, Zenon
<1>4. NL \in Symbols /\ Dashes \in Symbols /\ Delim("b") \in Symbols
  BY DEF Symbols, SymbolsOf
<1> QED
  BY <1>1, <1>2, <1>3, <1>4

\* One and two symbols of a sequence.
LEMMA ShortSubSeq ==
  ASSUME NEW S, NEW s \in Seq(S), NEW j \in 1..Len(s)
  PROVE  /\ SubSeq(s, j, j) = <<s[j]>>
         /\ j + 1 <= Len(s) => SubSeq(s, j, j + 1) = <<s[j], s[j + 1]>>
<1>0. Len(s) \in Nat /\ \A i \in 1..Len(s) : s[i] \in S
  OBVIOUS
<1>1. SubSeq(s, j, j) = <<s[j]>>
  <2> DEFINE u == SubSeq(s, j, j)
             v == <<s[j]>>
  <2>1. u \in Seq(S) /\ Len(u) = 1 /\ u[1] = s[j]
    BY SubSeqProperties
  <2>2. v \in Seq(S) /\ Len(v) = 1 /\ v[1] = s[j]
    OBVIOUS
  <2> HIDE DEF u, v
  <2>3. u = v
    BY <2>1, <2>2, SeqEqual
  <2> QED
    BY <2>3 DEF u, v
<1>2. ASSUME j + 1 <= Len(s) PROVE SubSeq(s, j, j + 1) = <<s[j], s[j + 1]>>
  <2> DEFINE u == SubSeq(s, j, j + 1)
             v == <<s[j], s[j + 1]>>
  <2>1. u \in Seq(S) /\ Len(u) = 2 /\ u[1] = s[j] /\ u[2] = s[j + 1]
    BY <1>0, <1>2, SubSeqProperties
  <2>2. v \in Seq(S) /\ Len(v) = 2 /\ v[1] = s[j] /\ v[2] = s[j + 1]
    BY <1>0, <1>2
  <2> HIDE DEF u, v
  <2>3. u = v
    BY <2>1, <2>2, SeqEqual
  <2> QED
    BY <2>3 DEF u, v
<1> QED
  BY <1>1, <1>2

\* What a concatenation of symbols holds.
LEMMA Concat ==
  ASSUME NEW s \in Seq(Symbols), NEW t \in Seq(Symbols)
  PROVE  /\ s \o t \in Seq(Symbols) /\ Len(s \o t) = Len(s) + Len(t)
         /\ Len(s) \in Nat /\ Len(t) \in Nat
         /\ \A i \in 1..Len(s) : (s \o t)[i] = s[i]
         /\ \A i \in 1..Len(t) : (s \o t)[Len(s) + i] = t[i]
  OBVIOUS

\* One part of the form, symbol by symbol.
LEMMA EncodedFacts ==
  ASSUME WellFormed(Fields), NEW f \in Fields
  PROVE  /\ Len(f.headers) \in Nat \ {0} /\ Len(f.data) \in Nat
         /\ f.headers \in Seq(Symbols) /\ f.data \in Seq(Symbols)
         /\ Encoded(f) \in Seq(Symbols)
         /\ Len(Encoded(f)) = 2 * Len(f.headers) + Len(f.data) + 4
         /\ Encoded(f)[1] = Delim("b") /\ Encoded(f)[2] = NL
         /\ \A i \in 1..(2 * Len(f.headers)) :
              Encoded(f)[i + 2] = IF i % 2 = 1 THEN f.headers[(i + 1) \div 2] ELSE NL
         /\ Encoded(f)[2 * Len(f.headers) + 3] = NL
         /\ \A i \in 1..Len(f.data) : Encoded(f)[2 * Len(f.headers) + 3 + i] = f.data[i]
         /\ Encoded(f)[2 * Len(f.headers) + Len(f.data) + 4] = NL
<1> DEFINE L == Len(f.headers)
           d == Len(f.data)
           a == <<Delim("b"), NL>>
           h == [i \in 1..(2 * L) |-> IF i % 2 = 1 THEN f.headers[(i + 1) \div 2] ELSE NL]
           b == <<NL>>
           D == f.data
<1>1. /\ f.headers \in Seq(Symbols) /\ D \in Seq(Symbols) /\ f.headers # <<>>
  BY DEF WellFormed, WellFormedPart, Symbols
<1>2. L \in Nat \ {0} /\ d \in Nat
  BY <1>1
<1>3. a \in Seq(Symbols) /\ b \in Seq(Symbols) /\ Len(a) = 2 /\ Len(b) = 1
      /\ a[1] = Delim("b") /\ a[2] = NL /\ b[1] = NL
  <2>1. ASSUME NEW S, NEW x \in S, NEW y \in S
        PROVE  /\ <<x, y>> \in Seq(S) /\ Len(<<x, y>>) = 2 /\ <<x, y>>[1] = x /\ <<x, y>>[2] = y
               /\ <<y>> \in Seq(S) /\ Len(<<y>>) = 1 /\ <<y>>[1] = y
    OBVIOUS
  <2> QED
    BY <2>1, SymbolsDiffer, Zenon
<1>4. h \in Seq(Symbols) /\ Len(h) = 2 * L
  <2>1. \A i \in 1..(2 * L) : i % 2 = 1 => (i + 1) \div 2 \in 1..L
    BY <1>2
  <2>2. \A i \in 1..(2 * L) : (IF i % 2 = 1 THEN f.headers[(i + 1) \div 2] ELSE NL) \in Symbols
    <3>1. \A k \in 1..L : f.headers[k] \in Symbols
      BY <1>1
    <3> HIDE DEF L
    <3> QED
      BY <2>1, <3>1, SymbolsDiffer
  <2>3. 2 * L \in Nat
    BY <1>2
  <2> HIDE DEF L
  <2> QED
    BY <2>2, <2>3
<1>5. Encoded(f) = (((a \o h) \o b) \o D) \o b
  BY DEF Encoded
<1>6. \A i \in 1..(2 * L) : h[i] = IF i % 2 = 1 THEN f.headers[(i + 1) \div 2] ELSE NL
  OBVIOUS
<1> HIDE DEF a, h, b, L, d
<1>7. Len(D) = d
  BY DEF d
<1> DEFINE w1 == a \o h
           w2 == w1 \o b
           w3 == w2 \o D
           w4 == w3 \o b
<1> DEFINE l == 2 * L
<1>l. l \in Nat /\ Len(h) = l
  BY <1>2, <1>4
<1> HIDE DEF l
<1>8. /\ w1 \in Seq(Symbols) /\ Len(w1) = l + 2 /\ w1[1] = Delim("b") /\ w1[2] = NL
      /\ \A i \in 1..l : w1[i + 2] = h[i]
  <2>0. /\ a \o h \in Seq(Symbols) /\ Len(a \o h) = Len(a) + Len(h)
        /\ \A i \in 1..Len(a) : (a \o h)[i] = a[i]
        /\ \A i \in 1..Len(h) : (a \o h)[Len(a) + i] = h[i]
    BY <1>3, <1>4, Concat, Zenon
  <2> HIDE DEF w1
  <2>1. \A i \in 1..l : w1[2 + i] = h[i]
    BY <1>l, <1>3, <1>4, <2>0 DEF w1
  <2>2. /\ w1 \in Seq(Symbols) /\ Len(w1) = 2 + l /\ w1[1] = a[1] /\ w1[2] = a[2]
    BY <1>l, <1>3, <1>4, <2>0 DEF w1
  <2> HIDE DEF w1
  <2> QED
    BY <1>l, <1>3, <2>1, <2>2
<1> HIDE DEF w1
<1>9. /\ w2 \in Seq(Symbols) /\ Len(w2) = l + 3 /\ w2[1] = Delim("b") /\ w2[2] = NL
      /\ \A i \in 1..l : w2[i + 2] = h[i]
      /\ w2[l + 3] = NL
  <2>0. /\ w1 \o b \in Seq(Symbols) /\ Len(w1 \o b) = Len(w1) + Len(b)
        /\ \A i \in 1..Len(w1) : (w1 \o b)[i] = w1[i]
        /\ \A i \in 1..Len(b) : (w1 \o b)[Len(w1) + i] = b[i]
    BY <1>3, <1>8, Concat, Zenon
  <2> HIDE DEF w2
  <2>1. /\ w2 \in Seq(Symbols) /\ Len(w2) = l + 3 /\ w2[(l + 2) + 1] = b[1]
        /\ \A i \in 1..(l + 2) : w2[i] = w1[i]
    BY <1>l, <1>3, <1>8, <2>0 DEF w2
  <2> HIDE DEF w2
  <2>2. (l + 2) + 1 = l + 3 /\ 1 \in 1..(l + 2) /\ 2 \in 1..(l + 2) /\ \A i \in 1..l : i + 2 \in 1..(l + 2)
    BY <1>l
  <2> QED
    BY <1>3, <1>8, <2>1, <2>2
<1> HIDE DEF w2
<1>10. /\ w3 \in Seq(Symbols) /\ Len(w3) = l + d + 3 /\ w3[1] = Delim("b") /\ w3[2] = NL
       /\ \A i \in 1..l : w3[i + 2] = h[i]
       /\ w3[l + 3] = NL
       /\ \A i \in 1..d : w3[l + 3 + i] = D[i]
  <2>0. /\ w2 \o D \in Seq(Symbols) /\ Len(w2 \o D) = Len(w2) + Len(D)
        /\ \A i \in 1..Len(w2) : (w2 \o D)[i] = w2[i]
        /\ \A i \in 1..Len(D) : (w2 \o D)[Len(w2) + i] = D[i]
    BY <1>1, <1>9, Concat, Zenon
  <2> HIDE DEF w3
  <2>1. /\ w3 \in Seq(Symbols) /\ Len(w3) = (l + 3) + d /\ \A i \in 1..d : w3[(l + 3) + i] = D[i]
        /\ \A i \in 1..(l + 3) : w3[i] = w2[i]
    BY <1>l, <1>1, <1>7, <1>9, <2>0 DEF w3
  <2> HIDE DEF w3
  <2>2. /\ (l + 3) + d = l + d + 3 /\ 1 \in 1..(l + 3) /\ 2 \in 1..(l + 3) /\ l + 3 \in 1..(l + 3)
        /\ \A i \in 1..l : i + 2 \in 1..(l + 3)
    BY <1>l, <1>2
  <2> QED
    BY <1>9, <2>1, <2>2
<1> HIDE DEF w3
<1>11. /\ w4 \in Seq(Symbols) /\ Len(w4) = l + d + 4 /\ w4[1] = Delim("b") /\ w4[2] = NL
       /\ \A i \in 1..l : w4[i + 2] = h[i]
       /\ w4[l + 3] = NL
       /\ \A i \in 1..d : w4[l + 3 + i] = D[i]
       /\ w4[l + d + 4] = NL
  <2>0. /\ w3 \o b \in Seq(Symbols) /\ Len(w3 \o b) = Len(w3) + Len(b)
        /\ \A i \in 1..Len(w3) : (w3 \o b)[i] = w3[i]
        /\ \A i \in 1..Len(b) : (w3 \o b)[Len(w3) + i] = b[i]
    BY <1>3, <1>10, Concat, Zenon
  <2> HIDE DEF w4
  <2>1. /\ w4 \in Seq(Symbols) /\ Len(w4) = (l + d + 3) + 1 /\ w4[(l + d + 3) + 1] = b[1]
        /\ \A i \in 1..(l + d + 3) : w4[i] = w3[i]
    BY <1>l, <1>2, <1>3, <1>10, <2>0 DEF w4
  <2> HIDE DEF w4
  <2>2. /\ (l + d + 3) + 1 = l + d + 4 /\ 1 \in 1..(l + d + 3) /\ 2 \in 1..(l + d + 3) /\ l + 3 \in 1..(l + d + 3)
        /\ \A i \in 1..l : i + 2 \in 1..(l + d + 3)
        /\ \A i \in 1..d : l + 3 + i \in 1..(l + d + 3)
    BY <1>l, <1>2
  <2> QED
    BY <1>3, <1>10, <2>1, <2>2
<1>12. Encoded(f) = w4
  BY <1>5 DEF w1, w2, w3
<1> QED
  BY <1>1, <1>2, <1>6, <1>11, <1>12 DEF L, d, l

\* body.find() of one symbol.
LEMMA FindOne ==
  ASSUME body \in Seq(Symbols), NEW x
  PROVE  /\ (\A j \in 1..Len(body) : body[j] # x) => find(<<x>>, 1) = npos
         /\ (body # <<>> /\ body[1] = x) => find(<<x>>, 1) = 1
<1> DEFINE S == {i \in 1..(Len(body) - Len(<<x>>) + 1) :
                   SubSeq(body, i, i + Len(<<x>>) - 1) = <<x>>}
<1>1. Len(<<x>>) = 1 /\ Len(body) \in Nat
  OBVIOUS
<1>2. \A j \in 1..Len(body) : (SubSeq(body, j, j) = <<x>>) <=> (body[j] = x)
  <2> SUFFICES ASSUME NEW j \in 1..Len(body)
               PROVE  (SubSeq(body, j, j) = <<x>>) <=> (body[j] = x)
    OBVIOUS
  <2>1. SubSeq(body, j, j) = <<body[j]>>
    BY ShortSubSeq
  <2> QED
    BY <2>1
<1>3. S = {i \in 1..Len(body) : body[i] = x}
  BY <1>1, <1>2
<1>4. find(<<x>>, 1) = IF S = {} THEN npos ELSE CHOOSE i \in S : \A j \in S : i <= j
  BY DEF find
<1> HIDE DEF S
<1>5. ASSUME \A j \in 1..Len(body) : body[j] # x PROVE find(<<x>>, 1) = npos
  BY <1>3, <1>4, <1>5
<1>6. ASSUME body # <<>>, body[1] = x PROVE find(<<x>>, 1) = 1
  <2>1. 1 \in S /\ \A j \in S : 1 <= j
    BY <1>1, <1>3, <1>6
  <2>2. \A i \in S : (\A j \in S : i <= j) => i = 1
    BY <1>1, <1>3, <2>1
  <2>3. (CHOOSE i \in S : \A j \in S : i <= j) = 1
    BY <2>1, <2>2
  <2> QED
    BY <1>4, <2>1, <2>3
<1> QED
  BY <1>5, <1>6

\* body.find() of two symbols that stand at c and at no place before.
LEMMA FindPair ==
  ASSUME body \in Seq(Symbols), NEW x, NEW y, NEW from \in Nat \ {0}, NEW c \in Nat, from <= c,
         \A j \in from..(c - 1) : j + 1 <= Len(body) => ~(body[j] = x /\ body[j + 1] = y),
         c + 1 <= Len(body) => body[c] = x /\ body[c + 1] = y
  PROVE  find(<<x, y>>, from) = IF c + 1 <= Len(body) THEN c ELSE npos
<1> DEFINE S == {i \in from..(Len(body) - Len(<<x, y>>) + 1) :
                   SubSeq(body, i, i + Len(<<x, y>>) - 1) = <<x, y>>}
<1>1. Len(<<x, y>>) = 2 /\ Len(body) \in Nat
  OBVIOUS
<1>2. ASSUME NEW j \in from..(Len(body) - 1)
      PROVE  (SubSeq(body, j, j + 1) = <<x, y>>) <=> (body[j] = x /\ body[j + 1] = y)
  <2>0. j \in 1..Len(body) /\ j + 1 <= Len(body)
    BY <1>1
  <2>1. SubSeq(body, j, j + 1) = <<body[j], body[j + 1]>>
    BY <2>0, ShortSubSeq
  <2> QED
    BY <2>1
<1>3. S = {i \in from..(Len(body) - 1) : body[i] = x /\ body[i + 1] = y}
  <2>1. from..(Len(body) - Len(<<x, y>>) + 1) = from..(Len(body) - 1)
    BY <1>1
  <2>2. \A i \in from..(Len(body) - 1) : i + Len(<<x, y>>) - 1 = i + 1
    BY <1>1
  <2> QED
    BY <1>2, <2>1, <2>2
<1>4. find(<<x, y>>, from) = IF S = {} THEN npos ELSE CHOOSE i \in S : \A j \in S : i <= j
  BY DEF find
<1> HIDE DEF S
<1>5. CASE c + 1 <= Len(body)
  <2>1. c \in S /\ \A j \in S : c <= j
    BY <1>1, <1>3, <1>5
  <2>2. \A i \in S : (\A j \in S : i <= j) => i = c
    BY <1>1, <1>3, <2>1
  <2>3. (CHOOSE i \in S : \A j \in S : i <= j) = c
    BY <2>1, <2>2
  <2> QED
    BY <1>4, <1>5, <2>1, <2>3
<1>6. CASE ~(c + 1 <= Len(body))
  <2>1. S = {}
    BY <1>1, <1>3, <1>6
  <2> QED
    BY <1>4, <1>6, <2>1
<1> QED
  BY <1>5, <1>6

(***************************************************************************)
(* Where a part of the form begins and ends                                *)
(***************************************************************************)
\* A run of a sequence that agrees with t symbol by symbol is t.
LEMMA SameSubSeq ==
  ASSUME NEW S, NEW s \in Seq(S), NEW t \in Seq(S), NEW k \in Nat \ {0},
         k + Len(t) - 1 <= Len(s), \A i \in 1..Len(t) : s[k + i - 1] = t[i]
  PROVE  SubSeq(s, k, k + Len(t) - 1) = t
<1> DEFINE m == k + Len(t) - 1
           u == SubSeq(s, k, m)
<1>1. Len(t) \in Nat /\ Len(s) \in Nat
  OBVIOUS
<1>2. \A i \in k..m : s[i] \in S
  BY <1>1
<1>3. k \in 1..(Len(s) + 1) /\ m \in (k - 1)..Len(s)
  BY <1>1
<1>4. u \in Seq(S) /\ Len(u) = Len(t) /\ \A i \in 1..Len(t) : u[i] = s[k + i - 1]
  BY <1>1, <1>2, <1>3, SubSeqProperties
<1> HIDE DEF u
<1>5. u = t
  BY <1>4, SeqEqual
<1> QED
  BY <1>5 DEF u

\* A part takes at least four symbols, the first of which is the boundary.
LEMMA EncodedLength ==
  ASSUME WellFormed(Fields), NEW f \in Fields
  PROVE  Len(Encoded(f)) \in Nat /\ Len(Encoded(f)) >= 4 /\ Encoded(f)[1] = Delim("b")
<1> DEFINE l == 2 * Len(f.headers)
           d == Len(f.data)
<1>1. /\ Len(f.headers) \in Nat \ {0} /\ d \in Nat /\ Len(Encoded(f)) = l + d + 4
      /\ Encoded(f)[1] = Delim("b")
  BY EncodedFacts, Zenon
<1>2. l \in Nat
  BY <1>1
<1> HIDE DEF l, d
<1> QED
  BY <1>1, <1>2

\* Where a part begins in the form, there is a boundary.
LEMMA BoundaryAtStart ==
  ASSUME WellFormed(Fields), Written, pc # "client", NEW m \in 1..(Len(form) + 1)
  PROVE  /\ starts[m] \in Nat \ {0} /\ starts[m] + 1 <= Len(sent)
         /\ sent[starts[m]] = Delim("b")
         /\ m = Len(form) + 1 => sent[starts[m] + 1] = Dashes /\ Len(sent) = starts[m] + 2
<1>0. /\ Len(form) \in Nat /\ starts \in Seq(Nat) /\ Len(starts) = Len(form) + 1 /\ Len(sent) \in Nat
      /\ form \in Seq(Fields) /\ starts[1] = 1
  BY DEF Written
<1>w. ASSUME NEW i \in 1..Len(form)
      PROVE  /\ form[i] \in Fields /\ starts[i] \in Nat
             /\ starts[i + 1] = starts[i] + Len(Encoded(form[i])) /\ starts[i + 1] <= Len(sent) + 1
             /\ \A k \in 1..Len(Encoded(form[i])) : sent[starts[i] + k - 1] = Encoded(form[i])[k]
  <2>1. form[i] \in Fields /\ starts[i] \in Nat
    BY <1>0
  <2> QED
    BY <2>1 DEF Written
<1>1. starts[m] \in Nat \ {0}
  <2>1. CASE m = 1
    BY <1>0, <2>1
  <2>2. CASE m # 1
    <3> DEFINE i == m - 1
    <3>1. i \in 1..Len(form) /\ m = i + 1
      BY <1>0, <2>2
    <3> HIDE DEF i
    <3>2. starts[m] = starts[i] + Len(Encoded(form[i])) /\ form[i] \in Fields /\ starts[i] \in Nat
      BY <1>w, <3>1
    <3>3. Len(Encoded(form[i])) \in Nat /\ Len(Encoded(form[i])) >= 4
      BY <3>2, EncodedLength
    <3> QED
      BY <3>2, <3>3
  <2> QED
    BY <2>1, <2>2
<1>2. CASE m = Len(form) + 1
  <2>1. Closing[1] = Delim("b") /\ Closing[2] = Dashes
    BY DEF Closing
  <2>2. Len(sent) = starts[m] + 2 /\ \A k \in 1..3 : sent[starts[m] + k - 1] = Closing[k]
    BY <1>2 DEF Written
  <2>3. starts[m] + 1 - 1 = starts[m] /\ starts[m] + 2 - 1 = starts[m] + 1 /\ 1 \in 1..3 /\ 2 \in 1..3
    BY <1>1
  <2>4. sent[starts[m]] = Delim("b") /\ sent[starts[m] + 1] = Dashes
    BY <2>1, <2>2, <2>3
  <2> QED
    BY <1>1, <1>2, <2>2, <2>4
<1>3. CASE m # Len(form) + 1
  <2>0. m \in 1..Len(form)
    BY <1>0, <1>3
  <2>1. form[m] \in Fields
    BY <1>w, <2>0
  <2> DEFINE e == Encoded(form[m])
  <2>2. /\ starts[m + 1] = starts[m] + Len(e) /\ starts[m + 1] <= Len(sent) + 1
        /\ \A k \in 1..Len(e) : sent[starts[m] + k - 1] = e[k]
    BY <1>w, <2>0
  <2>3. Len(e) \in Nat /\ Len(e) >= 4 /\ e[1] = Delim("b")
    BY <2>1, EncodedLength
  <2> HIDE DEF e
  <2>a. 1 \in 1..Len(e) /\ starts[m] + 1 - 1 = starts[m]
    BY <1>1, <2>3
  <2>4. sent[starts[m]] = e[1]
    BY <2>2, <2>a
  <2> QED
    BY <1>0, <1>1, <1>3, <2>2, <2>3, <2>4
<1> QED
  BY <1>2, <1>3

\* A part of the form in sent, symbol by symbol.
LEMMA PartInSent ==
  ASSUME WellFormed(Fields), Written, pc # "client", NEW n \in 0..(Len(form) - 1)
  PROVE  \E f \in Fields : \E st, l \in Nat \ {0} : \E d \in Nat :
           /\ f = form[n + 1] /\ st = starts[n + 1] /\ l = 2 * Len(f.headers) /\ d = Len(f.data)
           /\ sent[st + 1] = NL
           /\ \A i \in 1..l : sent[st + 1 + i] = IF i % 2 = 1 THEN f.headers[(i + 1) \div 2] ELSE NL
           /\ sent[st + l + 2] = NL
           /\ \A i \in 1..d : sent[st + l + 2 + i] = f.data[i]
           /\ sent[st + l + d + 3] = NL
           /\ starts[n + 2] = st + l + d + 4
<1> DEFINE f == form[n + 1]
           st == starts[n + 1]
           l == 2 * Len(f.headers)
           d == Len(f.data)
           e == Encoded(f)
<1>0. form \in Seq(Fields) /\ Len(form) \in Nat
  BY DEF Written
<1>1. n \in Nat /\ n + 1 \in 1..Len(form) /\ n + 1 \in 1..(Len(form) + 1) /\ n + 1 + 1 = n + 2
  BY <1>0
<1>2. f \in Fields
  BY <1>0, <1>1
<1>3. st \in Nat \ {0}
  BY <1>1, BoundaryAtStart
<1>4. starts[n + 2] = st + Len(e) /\ \A k \in 1..Len(e) : sent[st + k - 1] = e[k]
  BY <1>1 DEF Written
<1>5. /\ Len(f.headers) \in Nat \ {0} /\ d \in Nat
      /\ Len(e) = l + d + 4 /\ e[2] = NL
      /\ \A i \in 1..l : e[i + 2] = IF i % 2 = 1 THEN f.headers[(i + 1) \div 2] ELSE NL
      /\ e[l + 3] = NL
      /\ \A i \in 1..d : e[l + 3 + i] = f.data[i]
      /\ e[l + d + 4] = NL
  BY <1>2, EncodedFacts
<1>6. l \in Nat \ {0}
  <2>1. Len(f.headers) \in Nat \ {0}
    BY <1>5
  <2> QED
    BY <2>1
<1>n. st \in Nat /\ l \in Nat /\ d \in Nat
  BY <1>3, <1>5, <1>6
<1>e. Len(e) = l + d + 4 /\ d \in Nat
  BY <1>5
<1>8. f = form[n + 1] /\ st = starts[n + 1] /\ l = 2 * Len(f.headers) /\ d = Len(f.data)
  OBVIOUS
<1> HIDE DEF f, st, l, d, e
<1>7. /\ sent[st + 1] = e[2]
      /\ \A i \in 1..l : sent[st + 1 + i] = e[i + 2]
      /\ sent[st + l + 2] = e[l + 3]
      /\ \A i \in 1..d : sent[st + l + 2 + i] = e[l + 3 + i]
      /\ sent[st + l + d + 3] = e[l + d + 4]
  <2>1. \A k, j : k \in 1..(l + d + 4) /\ st + k - 1 = j => sent[j] = e[k]
    BY <1>e, <1>4
  <2>2. 2 \in 1..(l + d + 4) /\ st + 2 - 1 = st + 1
    BY <1>n
  <2>3. ASSUME NEW i \in 1..l PROVE i + 2 \in 1..(l + d + 4) /\ st + (i + 2) - 1 = st + 1 + i
    BY <1>n
  <2>4. l + 3 \in 1..(l + d + 4) /\ st + (l + 3) - 1 = st + l + 2
    BY <1>n
  <2>5. ASSUME NEW i \in 1..d PROVE l + 3 + i \in 1..(l + d + 4) /\ st + (l + 3 + i) - 1 = st + l + 2 + i
    BY <1>n
  <2>6. l + d + 4 \in 1..(l + d + 4) /\ st + (l + d + 4) - 1 = st + l + d + 3
    BY <1>n
  <2>8. sent[st + 1] = e[2] /\ sent[st + l + 2] = e[l + 3] /\ sent[st + l + d + 3] = e[l + d + 4]
    BY <2>1, <2>2, <2>4, <2>6, Zenon
  <2>9. \A i \in 1..l : sent[st + 1 + i] = e[i + 2]
    BY <2>1, <2>3, Zenon
  <2>10. \A i \in 1..d : sent[st + l + 2 + i] = e[l + 3 + i]
    BY <2>1, <2>5, Zenon
  <2> QED
    BY <2>8, <2>9, <2>10, Zenon
<1>10. starts[n + 2] = st + l + d + 4
  BY <1>n, <1>e, <1>4
<1>9. /\ sent[st + 1] = NL
      /\ \A i \in 1..l : sent[st + 1 + i] = IF i % 2 = 1 THEN f.headers[(i + 1) \div 2] ELSE NL
      /\ sent[st + l + 2] = NL
      /\ \A i \in 1..d : sent[st + l + 2 + i] = f.data[i]
      /\ sent[st + l + d + 3] = NL
      /\ starts[n + 2] = st + l + d + 4
  BY <1>5, <1>7, <1>10, Zenon
<1> WITNESS f \in Fields
<1> WITNESS st \in Nat \ {0}, l \in Nat \ {0}
<1> WITNESS d \in Nat
<1> QED
  BY <1>8, <1>9, Zenon

(***************************************************************************)
(* parse() of one part                                                     *)
(***************************************************************************)
\* No two line breaks follow each other in the headers of a part.
LEMMA HeadersUnbroken ==
  ASSUME WellFormed(Fields), NEW f \in Fields, NEW l \in Nat \ {0}, l = 2 * Len(f.headers),
         NEW s, \A i \in 1..l : s[i] = IF i % 2 = 1 THEN f.headers[(i + 1) \div 2] ELSE NL,
         NEW i \in 1..(l - 1)
  PROVE  ~(s[i] = NL /\ s[i + 1] = NL)
<1> DEFINE L == Len(f.headers)
<1>1. f.headers \in Seq(Symbols) /\ \A k \in DOMAIN f.headers : f.headers[k] # NL
  BY DEF WellFormed, WellFormedPart, Symbols
<1>2. L \in Nat /\ \A k \in 1..L : f.headers[k] # NL
  BY <1>1
<1>3. i \in 1..l /\ i + 1 \in 1..l
  OBVIOUS
<1>4. CASE i % 2 = 1
  <2>1. (i + 1) \div 2 \in 1..L
    BY <1>2, <1>4
  <2>2. s[i] = f.headers[(i + 1) \div 2]
    BY <1>3, <1>4
  <2> QED
    BY <1>2, <2>1, <2>2
<1>5. CASE i % 2 # 1
  <2>1. (i + 1) % 2 = 1 /\ ((i + 1) + 1) \div 2 \in 1..L
    BY <1>2, <1>5
  <2>2. s[i + 1] = f.headers[((i + 1) + 1) \div 2]
    BY <1>3, <2>1
  <2> QED
    BY <1>2, <2>1, <2>2
<1> QED
  BY <1>4, <1>5

\* parse() takes a part as it was meant, or throws.
LEMMA PartParsed ==
  ASSUME WellFormed(Fields), Written, Received, pc # "client", boundary = "b",
         NEW n \in 0..Len(form), pos = starts[n + 1] + 1, ParsePart
  PROVE  \/ ParseThrows
         \/ /\ n < Len(form) /\ pos' = starts[n + 2] + 1 /\ parse_pc' = parse_pc
            /\ result' = IF form[n + 1].name = "" THEN result
                         ELSE WithField(form[n + 1].name, Content(form[n + 1]))
<1>0. /\ Len(form) \in Nat /\ body \in Seq(Symbols) /\ Len(body) \in Nat
      /\ \A i \in 1..Len(body) : body[i] = sent[i]
  <2>1. Len(form) \in Nat
    BY DEF Written
  <2>2. body \in Seq(Symbols) /\ \A i \in 1..Len(body) : body[i] = sent[i]
    BY DEF Received
  <2> QED
    BY <2>1, <2>2
<1>l. Len(body) \in Nat
  BY <1>0
<1>1. CASE n = Len(form)
  <2>1. starts[n + 1] \in Nat \ {0} /\ sent[starts[n + 1] + 1] = Dashes
    BY <1>0, <1>1, BoundaryAtStart
  <2>2. pos \in 1..Len(body) /\ body[pos] = NL
    <3>1. pos <= Len(body) /\ body[pos] = NL
      BY DEF ParsePart
    <3> QED
      BY <1>l, <2>1, <3>1
  <2>3. body[pos] = Dashes
    BY <1>0, <2>1, <2>2
  <2> QED
    BY <2>2, <2>3, SymbolsDiffer
<1>2. CASE n # Len(form)
  <2>0. n \in 0..(Len(form) - 1) /\ n + 2 \in 1..(Len(form) + 1) /\ n < Len(form)
    BY <1>0, <1>2
  <2>1. PICK f \in Fields : \E st, l \in Nat \ {0} : \E d \in Nat :
           /\ f = form[n + 1] /\ st = starts[n + 1] /\ l = 2 * Len(f.headers) /\ d = Len(f.data)
           /\ sent[st + 1] = NL
           /\ \A i \in 1..l : sent[st + 1 + i] = IF i % 2 = 1 THEN f.headers[(i + 1) \div 2] ELSE NL
           /\ sent[st + l + 2] = NL
           /\ \A i \in 1..d : sent[st + l + 2 + i] = f.data[i]
           /\ sent[st + l + d + 3] = NL
           /\ starts[n + 2] = st + l + d + 4
    BY <2>0, PartInSent, Zenon
  <2>2. PICK st \in Nat \ {0}, l \in Nat \ {0}, d \in Nat :
           /\ f = form[n + 1] /\ st = starts[n + 1] /\ l = 2 * Len(f.headers) /\ d = Len(f.data)
           /\ sent[st + 1] = NL
           /\ \A i \in 1..l : sent[st + 1 + i] = IF i % 2 = 1 THEN f.headers[(i + 1) \div 2] ELSE NL
           /\ sent[st + l + 2] = NL
           /\ \A i \in 1..d : sent[st + l + 2 + i] = f.data[i]
           /\ sent[st + l + d + 3] = NL
           /\ starts[n + 2] = st + l + d + 4
    BY <2>1, Zenon
  <2>e. /\ f = form[n + 1] /\ st = starts[n + 1] /\ l = 2 * Len(f.headers) /\ d = Len(f.data)
        /\ starts[n + 2] = st + l + d + 4
    BY <2>2
  <2>3. sent[starts[n + 2]] = Delim("b")
    BY <2>0, BoundaryAtStart
  <2>b. ASSUME NEW i, i \in 1..Len(body) PROVE body[i] = sent[i]
    BY <1>0, <2>b
  <2> DEFINE c1 == st + 1 + l
             c2 == st + l + d + 3
             head == [i \in 1..l |-> sent[st + 1 + i]]
  <2>4. ASSUME NEW i \in 1..(l - 1) PROVE ~(sent[st + 1 + i] = NL /\ sent[st + 1 + (i + 1)] = NL)
    <3>1. \A k \in 1..l : head[k] = IF k % 2 = 1 THEN f.headers[(k + 1) \div 2] ELSE NL
      BY <2>2
    <3>2. head[i] = sent[st + 1 + i] /\ head[i + 1] = sent[st + 1 + (i + 1)]
      OBVIOUS
    <3>3. l = 2 * Len(f.headers)
      BY <2>2
    <3> HIDE DEF head
    <3> QED
      BY <3>1, <3>2, <3>3, HeadersUnbroken
  <2>5. find(<<NL, NL>>, st + 2) = IF c1 + 1 <= Len(body) THEN c1 ELSE npos
    <3>1. ASSUME NEW j \in (st + 2)..(c1 - 1), j + 1 <= Len(body)
          PROVE  ~(body[j] = NL /\ body[j + 1] = NL)
      <4> DEFINE i == j - st - 1
      <4>1. i \in 1..(l - 1) /\ j = st + 1 + i /\ j + 1 = st + 1 + (i + 1)
        OBVIOUS
      <4>2. j \in 1..Len(body) /\ j + 1 \in 1..Len(body)
        BY <1>0, <3>1
      <4>3. body[j] = sent[j] /\ body[j + 1] = sent[j + 1]
        BY <2>b, <4>2
      <4> HIDE DEF i
      <4> QED
        BY <2>4, <4>1, <4>3
    <3>2. ASSUME c1 + 1 <= Len(body) PROVE body[c1] = NL /\ body[c1 + 1] = NL
      <4>1. c1 \in 1..Len(body) /\ c1 + 1 \in 1..Len(body) /\ c1 + 1 = st + l + 2 /\ l \in 1..l
        BY <1>0, <3>2
      <4>2. l % 2 # 1
        <5> DEFINE L == Len(f.headers)
        <5>1. L \in Nat
          BY EncodedFacts
        <5>2. l = 2 * L
          BY <2>e, Zenon
        <5> HIDE DEF L
        <5> QED
          BY <5>1, <5>2
      <4>3. sent[c1] = NL /\ sent[c1 + 1] = NL
        BY <2>2, <4>1, <4>2
      <4> QED
        BY <2>b, <4>1, <4>3
    <3>3. st + 2 \in Nat \ {0} /\ c1 \in Nat /\ st + 2 <= c1
      OBVIOUS
    <3> HIDE DEF c1
    <3> QED
      BY <1>0, <3>1, <3>2, <3>3, FindPair
  <2>6. find(<<NL, Delim("b")>>, c1 + 2) = IF c2 + 1 <= Len(body) THEN c2 ELSE npos
    <3>1. ASSUME NEW j \in (c1 + 2)..(c2 - 1), j + 1 <= Len(body)
          PROVE  ~(body[j] = NL /\ body[j + 1] = Delim("b"))
      <4> DEFINE i == j - st - l - 2
      <4>1. i \in 1..d /\ j = st + l + 2 + i /\ j + 1 = st + l + 2 + (i + 1)
        OBVIOUS
      <4>2. j \in 1..Len(body) /\ j + 1 \in 1..Len(body)
        BY <1>0, <3>1
      <4>3. body[j] = sent[j] /\ body[j + 1] = sent[j + 1]
        BY <2>b, <4>2
      <4>4. CASE i = d
        <5>1. j + 1 = st + l + d + 3
          BY <4>1, <4>4
        <5> QED
          BY <2>2, <4>3, <5>1, SymbolsDiffer
      <4>5. CASE i # d
        <5>1. i \in 1..(d - 1) /\ i + 1 \in 1..d
          BY <4>1, <4>5
        <5>2. body[j] = f.data[i] /\ body[j + 1] = f.data[i + 1]
          <6> HIDE DEF i
          <6> QED
            BY <2>2, <4>1, <4>3, <5>1
        <5>3. f.data[i] = NL => f.data[i + 1] # Delim("b")
          <6>1. \A k \in 1..(Len(f.data) - 1) : f.data[k] = NL => f.data[k + 1] # Delim("b")
            BY DEF WellFormed, WellFormedPart
          <6> HIDE DEF i
          <6> QED
            BY <2>2, <5>1, <6>1
        <5> QED
          BY <5>2, <5>3
      <4> QED
        BY <4>4, <4>5
    <3>2. ASSUME c2 + 1 <= Len(body) PROVE body[c2] = NL /\ body[c2 + 1] = Delim("b")
      <4>1. c2 \in 1..Len(body) /\ c2 + 1 \in 1..Len(body) /\ c2 + 1 = st + l + d + 4
        BY <1>0, <3>2
      <4>2. sent[c2] = NL /\ sent[c2 + 1] = Delim("b")
        BY <2>2, <2>3, <4>1
      <4> QED
        BY <2>b, <4>1, <4>2
    <3>3. c1 + 2 \in Nat \ {0} /\ c2 \in Nat /\ c1 + 2 <= c2
      OBVIOUS
    <3> HIDE DEF c1, c2
    <3> QED
      BY <1>0, <3>1, <3>2, <3>3, FindPair
  <2>p. pos + 1 = st + 2 /\ c1 # npos /\ c2 # npos /\ c1 \in Nat /\ c2 \in Nat
    <3>1. pos = st + 1
      BY <2>e, Zenon
    <3> QED
      BY <3>1 DEF npos
  <2>7. CASE ~(c2 + 1 <= Len(body)) \/ ~(c1 + 1 <= Len(body))
    <3> HIDE DEF c1, c2
    <3>1. \/ find(<<NL, NL>>, pos + 1) = npos
          \/ find(<<NL, NL>>, pos + 1) = c1 /\ PartEnd(c1 + 2) = npos
      BY <2>5, <2>6, <2>7, <2>p DEF PartEnd
    <3> QED
      BY <3>1 DEF ParsePart
  <2>8. CASE c2 + 1 <= Len(body) /\ c1 + 1 <= Len(body)
    <3>1. SubSeq(body, st + 2, c1 - 1) = HeaderLines(f)
      <4> DEFINE t == HeaderLines(f)
      <4>1. t = [i \in 1..(l - 1) |-> IF i % 2 = 1 THEN f.headers[(i + 1) \div 2] ELSE NL]
        BY <2>2 DEF HeaderLines
      <4>2. ASSUME NEW i \in 1..(l - 1) PROVE t[i] = body[st + 1 + i] /\ body[st + 1 + i] \in Symbols
        <5>1. st + 1 + i \in 1..Len(body) /\ i \in 1..l
          BY <1>l, <2>8
        <5>2. body[st + 1 + i] = sent[st + 1 + i] /\ body[st + 1 + i] \in Symbols
          BY <1>0, <2>b, <5>1
        <5> QED
          BY <2>2, <4>1, <5>1, <5>2
      <4> HIDE DEF t
      <4>3. t \in Seq(Symbols) /\ Len(t) = l - 1
        <5>1. t = [i \in 1..(l - 1) |-> body[st + 1 + i]]
          BY <4>1, <4>2
        <5>2. l - 1 \in Nat
          OBVIOUS
        <5> QED
          BY <4>2, <5>1, <5>2
      <4>4. /\ st + 2 \in Nat \ {0} /\ (st + 2) + Len(t) - 1 = c1 - 1 /\ c1 - 1 <= Len(body)
        BY <4>3, <1>l, <2>8
      <4>5. \A i \in 1..Len(t) : body[(st + 2) + i - 1] = t[i]
        BY <4>2, <4>3
      <4>6. SubSeq(body, st + 2, (st + 2) + Len(t) - 1) = t
        <5> HIDE DEF c1
        <5> QED
          BY <1>0, <4>3, <4>4, <4>5, SameSubSeq
      <4> QED
        BY <4>4, <4>6 DEF t
    <3>2. SubSeq(body, c1 + 2, c2 - 1) = f.data
      <4> DEFINE t == f.data
      <4>1. t \in Seq(Symbols) /\ Len(t) = d
        BY <2>2, EncodedFacts
      <4>2. \A i \in 1..d : body[(c1 + 2) + i - 1] = t[i]
        <5> TAKE i \in 1..d
        <5>1. (c1 + 2) + i - 1 = st + l + 2 + i /\ st + l + 2 + i \in 1..Len(body)
          BY <1>0, <2>8
        <5> QED
          BY <2>2, <2>b, <5>1
      <4> HIDE DEF t
      <4>3. /\ c1 + 2 \in Nat \ {0} /\ (c1 + 2) + d - 1 = c2 - 1 /\ c2 - 1 <= Len(body)
        BY <1>0, <2>8
      <4>4. SubSeq(body, c1 + 2, (c1 + 2) + Len(t) - 1) = t
        <5> HIDE DEF c1, c2
        <5> DEFINE k == c1 + 2
        <5>1. /\ k \in Nat \ {0} /\ k + Len(t) - 1 <= Len(body)
              /\ \A i \in 1..Len(t) : body[k + i - 1] = t[i]
          BY <4>1, <4>2, <4>3
        <5> HIDE DEF k
        <5>2. SubSeq(body, k, k + Len(t) - 1) = t
          BY <1>0, <4>1, <5>1, SameSubSeq
        <5> QED
          BY <5>2 DEF k
      <4> QED
        BY <4>1, <4>3, <4>4 DEF t
    <3>3. field_name(HeaderLines(f)) = f.name /\ PartOf(HeaderLines(f), f.data) = Content(f)
      BY DEF WellFormed, WellFormedPart
    <3>4. c2 + 2 = starts[n + 2] + 1
      <4>1. c2 + 2 = (st + l + d + 4) + 1
        OBVIOUS
      <4> HIDE DEF c2
      <4> QED
        BY <2>e, <4>1, Zenon
    <3> HIDE DEF c1, c2
    <3>5. find(<<NL, NL>>, pos + 1) = c1 /\ PartEnd(c1 + 2) = c2
      BY <2>5, <2>6, <2>8, <2>p DEF PartEnd
    <3>6. /\ parse_pc' = parse_pc /\ pos' = c2 + 2
          /\ result' = IF f.name = "" THEN result ELSE WithField(f.name, Content(f))
      <4>1. SubSeq(body, pos + 1, c1 - 1) = HeaderLines(f)
        BY <2>p, <3>1
      <4>2. /\ result' = IF field_name(SubSeq(body, pos + 1, c1 - 1)) = "" THEN result
                         ELSE WithField(field_name(SubSeq(body, pos + 1, c1 - 1)),
                                 PartOf(SubSeq(body, pos + 1, c1 - 1), SubSeq(body, c1 + 2, c2 - 1)))
            /\ pos' = c2 + 2 /\ UNCHANGED parse_pc
        BY <2>p, <3>5, Zenon DEF ParsePart
      <4> QED
        BY <3>2, <3>3, <4>1, <4>2
    <3>7. f = form[n + 1]
      BY <2>2
    <3> QED
      BY <2>0, <3>4, <3>6, <3>7
  <2> QED
    BY <2>7, <2>8
<1> QED
  BY <1>1, <1>2

(***************************************************************************)
(* What the form means                                                     *)
(***************************************************************************)
\* What is meant by a name is what the last part with this name says.
LEMMA MeantIs ==
  ASSUME NEW n \in Nat, NEW name, NEW i \in 1..n, LastPart(i, n, name)
  PROVE  Meant(n, name) = Content(form[i])
<1> DEFINE c == CHOOSE j \in 1..n : LastPart(j, n, name)
<1>1. c \in 1..n /\ LastPart(c, n, name)
  BY Zenon
<1> HIDE DEF c
<1>2. c = i
  <2>1. CASE c < i
    <3>1. i \in (c + 1)..n
      BY <1>1, <2>1
    <3> QED
      BY <1>1, <3>1 DEF LastPart
  <2>2. CASE i < c
    <3>1. c \in (i + 1)..n
      BY <1>1, <2>2
    <3> QED
      BY <1>1, <3>1 DEF LastPart
  <2> QED
    BY <1>1, <2>1, <2>2
<1> QED
  BY <1>2 DEF Meant, c

\* The first n + 1 places.
LEMMA OneMore ==
  ASSUME NEW n \in Nat
  PROVE  /\ n + 1 \in Nat /\ n + 1 \in 1..(n + 1)
         /\ \A i \in 1..(n + 1) : i \in 1..n \/ i = n + 1
         /\ \A i \in 1..n : i \in 1..(n + 1) /\ \A j \in (i + 1)..(n + 1) : j \in (i + 1)..n \/ j = n + 1
         /\ \A j \in ((n + 1) + 1)..(n + 1) : FALSE
  OBVIOUS

\* With one more part, result says one part more.
LEMMA SaysNext ==
  ASSUME NEW n \in Nat, Says(n), \A name \in MeantNames(n) : \E i \in 1..n : LastPart(i, n, name),
         NEW r, r = IF form[n + 1].name = "" THEN result
                    ELSE WithField(form[n + 1].name, Content(form[n + 1]))
  PROVE  /\ DOMAIN r = MeantNames(n + 1)
         /\ \A name \in MeantNames(n + 1) : r[name] = Meant(n + 1, name)
         /\ \A name \in MeantNames(n + 1) : \E i \in 1..(n + 1) : LastPart(i, n + 1, name)
<1> DEFINE m == n + 1
           new == form[m].name
<1>0. /\ m \in Nat /\ m \in 1..m
      /\ \A i \in 1..m : i \in 1..n \/ i = m
      /\ \A i \in 1..n : i \in 1..m /\ \A j \in (i + 1)..m : j \in (i + 1)..n \/ j = m
      /\ \A j \in (m + 1)..m : FALSE
  BY OneMore, Zenon
<1>1. MeantNames(m) = (MeantNames(n) \cup {new}) \ {""}
  BY <1>0 DEF MeantNames
<1>2. DOMAIN result = MeantNames(n) /\ \A name \in MeantNames(n) : result[name] = Meant(n, name)
  BY DEF Says
<1>3. "" \notin MeantNames(n)
  BY DEF MeantNames
<1> HIDE DEF m
<1>4. LastPart(m, m, new)
  BY <1>0, Zenon DEF LastPart
<1>5. ASSUME NEW name \in MeantNames(n), name # new
      PROVE  \E i \in 1..m : LastPart(i, m, name) /\ Meant(m, name) = Meant(n, name)
  <2>1. PICK i \in 1..n : LastPart(i, n, name)
    OBVIOUS
  <2>2. i \in 1..m /\ \A j \in (i + 1)..m : j \in (i + 1)..n \/ j = m
    BY <1>0, Zenon
  <2>3. LastPart(i, m, name)
    BY <1>5, <2>1, <2>2 DEF LastPart
  <2>4. Meant(m, name) = Content(form[i]) /\ Meant(n, name) = Content(form[i])
    BY <1>0, <2>1, <2>2, <2>3, MeantIs
  <2> QED
    BY <2>2, <2>3, <2>4
<1>6. r = IF new = "" THEN result ELSE WithField(new, Content(form[m]))
  BY DEF m
<1>7. CASE new = ""
  <2>1. MeantNames(m) = MeantNames(n) /\ r = result
    BY <1>1, <1>3, <1>6, <1>7
  <2>2. \A name \in MeantNames(n) : name # new
    BY <1>3, <1>7
  <2> HIDE DEF new
  <2>3. /\ DOMAIN r = MeantNames(m) /\ \A name \in MeantNames(m) : r[name] = Meant(m, name)
        /\ \A name \in MeantNames(m) : \E i \in 1..m : LastPart(i, m, name)
    BY <1>2, <1>5, <2>1, <2>2
  <2> QED
    BY <2>3 DEF m
<1>8. CASE new # ""
  <2>2. MeantNames(m) = MeantNames(n) \cup {new} /\ r = WithField(new, Content(form[m]))
    BY <1>1, <1>3, <1>6, <1>8
  <2>3. /\ DOMAIN r = DOMAIN result \cup {new}
        /\ r[new] = Content(form[m])
        /\ \A x \in DOMAIN result : x # new => r[x] = result[x]
    <3> HIDE DEF new
    <3> QED
      BY <2>2 DEF WithField
  <2>4. Meant(m, new) = Content(form[m])
    BY <1>0, <1>4, MeantIs
  <2> HIDE DEF new
  <2>5. DOMAIN r = MeantNames(m)
    BY <1>2, <2>2, <2>3
  <2>6. ASSUME NEW name \in MeantNames(m)
        PROVE  r[name] = Meant(m, name) /\ \E i \in 1..m : LastPart(i, m, name)
    <3>1. CASE name = new
      BY <1>0, <1>4, <2>3, <2>4, <3>1
    <3>2. CASE name # new
      <4>1. name \in MeantNames(n)
        BY <2>2, <3>2
      <4> QED
        BY <1>2, <1>5, <2>3, <3>2, <4>1
    <3> QED
      BY <3>1, <3>2
  <2> QED
    BY <2>5, <2>6 DEF m
<1> QED
  BY <1>7, <1>8

\* What the form means does not change once it is sent.
LEMMA SameForm ==
  ASSUME form' = form, NEW n
  PROVE  /\ MeantNames(n)' = MeantNames(n)
         /\ \A name : Meant(n, name)' = Meant(n, name)
         /\ \A i, name : LastPart(i, n, name)' <=> LastPart(i, n, name)
<1>1. MeantNames(n)' = MeantNames(n)
  BY DEF MeantNames
<1>2. ASSUME NEW i, NEW name PROVE LastPart(i, n, name)' = LastPart(i, n, name)
  BY DEF LastPart
<1>3. ASSUME NEW name PROVE Meant(n, name)' = Meant(n, name)
  BY DEF Meant, Content, LastPart
<1> QED
  BY <1>1, <1>2, <1>3, Zenon

(***************************************************************************)
(* What is sent and received, step by step                                 *)
(***************************************************************************)
\* Only the client writes the form.
LEMMA FormKept ==
  ASSUME [Next]_vars, ~ClientAdds, ~ClientSends
  PROVE  UNCHANGED <<form, sent, starts, body>> /\ (pc = "client" <=> pc' = "client")
<1> USE DEF Goto, clientVars, parserVars, uploadVars
<1>1. CASE Boundary
  BY <1>1 DEF Boundary
<1>2. CASE Parse
  <2>1. ASSUME ParserStep PROVE body' = body
    BY <2>1 DEF ParserStep, ParseStart, ParseEnds, ParsePart
  <2> QED
    BY <1>2, <2>1 DEF Parse
<1>3. CASE CheckFields
  BY <1>3 DEF CheckFields
<1>4. CASE Decode
  BY <1>4 DEF Decode
<1>5. CASE CheckDuration
  BY <1>5 DEF CheckDuration
<1>6. CASE UNCHANGED vars
  BY <1>6 DEF vars
<1> QED
  BY <1>1, <1>2, <1>3, <1>4, <1>5, <1>6 DEF Next, Answered

\* The form is written part by part.
LEMMA WrittenStep ==
  ASSUME WellFormed(Fields), Written, [Next]_vars
  PROVE  Written'
<1> DEFINE N == Len(form)
<1>1. /\ form \in Seq(Fields) /\ sent \in Seq(Symbols) /\ starts \in Seq(Nat)
      /\ N \in Nat /\ Len(sent) \in Nat /\ Len(starts) = N + 1 /\ starts[1] = 1
  BY DEF Written
<1>n. N \in Nat /\ Len(sent) \in Nat
  BY <1>1
<1>2. ASSUME NEW i \in 1..N
      PROVE  /\ starts[i + 1] = starts[i] + Len(Encoded(form[i])) /\ starts[i + 1] <= Len(sent) + 1
             /\ \A k \in 1..Len(Encoded(form[i])) : sent[starts[i] + k - 1] = Encoded(form[i])[k]
  BY DEF Written
<1>3. ASSUME NEW i \in 1..N PROVE form[i] \in Fields /\ starts[i] \in Nat /\ starts[i + 1] \in Nat
  BY <1>1
<1>s. ASSUME NEW i \in 1..(N + 1) PROVE starts[i] \in Nat \ {0}
  <2>1. starts[i] \in Nat
    BY <1>1
  <2>2. CASE i = 1
    BY <1>1, <2>2
  <2>3. CASE i # 1
    <3> DEFINE j == i - 1
    <3>1. j \in 1..N /\ i = j + 1
      BY <1>1, <2>3
    <3> HIDE DEF j
    <3>2. starts[i] = starts[j] + Len(Encoded(form[j])) /\ form[j] \in Fields /\ starts[j] \in Nat
      BY <1>2, <1>3, <3>1
    <3>3. Len(Encoded(form[j])) \in Nat /\ Len(Encoded(form[j])) >= 4
      BY <3>2, EncodedLength
    <3> QED
      BY <3>2, <3>3
  <2> QED
    BY <2>2, <2>3
<1>4. CASE ClientAdds
  <2>1. PICK f \in Fields :
          /\ form' = Append(form, f) /\ sent' = sent \o Encoded(f)
          /\ starts' = Append(starts, Len(sent) + Len(Encoded(f)) + 1)
    BY <1>4 DEF ClientAdds
  <2>2. pc = "client" /\ pc' = "client"
    BY <1>4 DEF ClientAdds
  <2>3. Len(sent) = starts[N + 1] - 1
    BY <2>2 DEF Written
  <2> DEFINE e == Encoded(f)
             E == Len(e)
             z == Len(sent) + E + 1
  <2>4. e \in Seq(Symbols) /\ E \in Nat /\ E >= 4
    BY EncodedFacts, EncodedLength
  <2>5. /\ sent \o e \in Seq(Symbols) /\ Len(sent \o e) = Len(sent) + E
        /\ \A i \in 1..Len(sent) : (sent \o e)[i] = sent[i]
        /\ \A i \in 1..E : (sent \o e)[Len(sent) + i] = e[i]
    BY <1>1, <2>4, Concat, Zenon
  <2>6. z \in Nat
    BY <1>1, <2>4
  <2>e. e = Encoded(f)
    OBVIOUS
  <2> HIDE DEF e
  <2>7. /\ sent' \in Seq(Symbols) /\ Len(sent') = Len(sent) + E
        /\ \A i \in 1..Len(sent) : sent'[i] = sent[i]
        /\ \A i \in 1..E : sent'[Len(sent) + i] = e[i]
    BY <2>1, <2>5 DEF e
  <2>8. /\ form' \in Seq(Fields) /\ Len(form') = N + 1 /\ form'[N + 1] = f
        /\ \A i \in 1..N : form'[i] = form[i]
    BY <1>1, <2>1
  <2>9. starts' = Append(starts, z)
    BY <2>1 DEF e
  <2> HIDE DEF z
  <2>10. /\ starts' \in Seq(Nat) /\ Len(starts') = (N + 1) + 1 /\ starts'[(N + 1) + 1] = z
         /\ \A i \in 1..(N + 1) : starts'[i] = starts[i]
    BY <1>1, <2>6, <2>9
  <2> HIDE DEF E
  <2>11. z = starts[N + 1] + E /\ Len(sent') = z - 1
    <3> DEFINE q == starts[N + 1]
    <3>1. q \in Nat \ {0}
      BY <1>n, <1>s
    <3>2. Len(sent) = q - 1
      BY <2>3, Zenon
    <3>3. z = Len(sent) + E + 1 /\ Len(sent') = Len(sent) + E
      BY <2>7, Zenon DEF z
    <3> HIDE DEF q
    <3>4. z = q + E /\ Len(sent') = z - 1
      BY <1>n, <2>4, <3>1, <3>2, <3>3
    <3> QED
      BY <3>4 DEF q
  <2> HIDE DEF N
  <2>12. ASSUME NEW i \in 1..(N + 1)
         PROVE  /\ starts'[i + 1] = starts'[i] + Len(Encoded(form'[i])) /\ starts'[i + 1] <= Len(sent') + 1
                /\ \A k \in 1..Len(Encoded(form'[i])) : sent'[starts'[i] + k - 1] = Encoded(form'[i])[k]
    <3>1. CASE i \in 1..N
      <4> DEFINE g == Encoded(form[i])
                 G == Len(g)
      <4>1. i \in 1..(N + 1) /\ i + 1 \in 1..(N + 1)
        BY <1>1, <3>1
      <4>2. /\ starts[i + 1] = starts[i] + G /\ starts[i + 1] <= Len(sent) + 1
            /\ \A k \in 1..G : sent[starts[i] + k - 1] = g[k]
        BY <1>2, <3>1
      <4>3. form[i] \in Fields
        BY <1>3, <3>1
      <4>4. G \in Nat
        BY <4>3, EncodedLength
      <4>5. starts[i] \in Nat \ {0} /\ starts[i + 1] \in Nat
        BY <1>s, <4>1
      <4>6. form'[i] = form[i] /\ starts'[i] = starts[i] /\ starts'[i + 1] = starts[i + 1]
        BY <2>8, <2>10, <3>1, <4>1
      <4>g. g = Encoded(form'[i])
        BY <4>6
      <4> HIDE DEF g, G
      <4>7. \A k \in 1..G : sent'[starts[i] + k - 1] = g[k]
        <5> TAKE k \in 1..G
        <5>1. starts[i] + k - 1 \in 1..Len(sent)
          <6>1. starts[i] + G <= Len(sent) + 1
            BY <4>2, Zenon
          <6> QED
            BY <1>n, <4>4, <4>5, <6>1
        <5> QED
          BY <2>7, <4>2, <5>1
      <4>8. starts[i + 1] <= Len(sent') + 1
        BY <1>1, <2>4, <2>7, <4>2, <4>5
      <4> QED
        BY <4>2, <4>6, <4>7, <4>8, <4>g DEF G
    <3>2. CASE i = N + 1
      <4>1. form'[i] = f /\ starts'[i] = starts[i] /\ starts'[i + 1] = z /\ starts[i] \in Nat \ {0}
        BY <1>s, <2>8, <2>10, <3>2
      <4>2. z = starts[i] + E /\ Len(sent) = starts[i] - 1
        BY <2>3, <2>11, <3>2 DEF N
      <4>3. \A k \in 1..E : sent'[starts[i] + k - 1] = e[k]
        <5> TAKE k \in 1..E
        <5>1. starts[i] + k - 1 = Len(sent) + k
          BY <2>4, <4>1, <4>2
        <5> QED
          BY <2>7, <5>1
      <4>4. z <= Len(sent') + 1
        BY <2>6, <2>11
      <4> QED
        BY <4>1, <4>2, <4>3, <4>4 DEF E, e
    <3> QED
      BY <1>1, <3>1, <3>2
  <2>13. starts'[1] = 1
    BY <1>1, <2>10
  <2> QED
    BY <2>2, <2>7, <2>8, <2>10, <2>11, <2>12, <2>13 DEF Written
<1>5. CASE ClientSends
  <2>1. sent' = sent \o Closing /\ UNCHANGED <<form, starts>> /\ pc = "client" /\ pc' = "boundary"
    BY <1>5 DEF ClientSends
  <2>2. Len(sent) = starts[N + 1] - 1 /\ starts[N + 1] \in Nat \ {0}
    <3>1. Len(sent) = starts[N + 1] - 1
      BY <2>1 DEF Written
    <3> QED
      BY <1>1, <1>s, <3>1
  <2>3. Closing \in Seq(Symbols) /\ Len(Closing) = 3
    <3>1. ASSUME NEW S, NEW x \in S, NEW y \in S, NEW w \in S
          PROVE  <<x, y, w>> \in Seq(S) /\ Len(<<x, y, w>>) = 3
      OBVIOUS
    <3> QED
      BY <3>1, SymbolsDiffer, Zenon DEF Closing
  <2>4. /\ sent \o Closing \in Seq(Symbols) /\ Len(sent \o Closing) = Len(sent) + Len(Closing)
        /\ \A i \in 1..Len(sent) : (sent \o Closing)[i] = sent[i]
        /\ \A i \in 1..Len(Closing) : (sent \o Closing)[Len(sent) + i] = Closing[i]
    BY <1>1, <2>3, Concat, Zenon
  <2>5. /\ sent' \in Seq(Symbols) /\ Len(sent') = Len(sent) + 3
        /\ \A i \in 1..Len(sent) : sent'[i] = sent[i]
        /\ \A i \in 1..3 : sent'[Len(sent) + i] = Closing[i]
    BY <2>1, <2>3, <2>4, Zenon
  <2>6. /\ Len(sent') = starts[N + 1] + 2
        /\ \A k \in 1..3 : sent'[starts[N + 1] + k - 1] = Closing[k]
    <3>1. \A k \in 1..3 : starts[N + 1] + k - 1 = Len(sent) + k
      BY <2>2
    <3>2. Len(sent') = starts[N + 1] + 2
      BY <2>2, <2>5
    <3> QED
      BY <2>5, <3>1, <3>2
  <2>7. ASSUME NEW i \in 1..N
        PROVE  /\ starts[i + 1] = starts[i] + Len(Encoded(form[i])) /\ starts[i + 1] <= Len(sent') + 1
               /\ \A k \in 1..Len(Encoded(form[i])) : sent'[starts[i] + k - 1] = Encoded(form[i])[k]
    <3> DEFINE g == Encoded(form[i])
               G == Len(g)
    <3>1. /\ starts[i + 1] = starts[i] + G /\ starts[i + 1] <= Len(sent) + 1
          /\ \A k \in 1..G : sent[starts[i] + k - 1] = g[k]
      BY <1>2
    <3>2. form[i] \in Fields /\ starts[i + 1] \in Nat
      BY <1>3
    <3>3. G \in Nat
      BY <3>2, EncodedLength
    <3>4. starts[i] \in Nat \ {0}
      <4>1. i \in 1..(N + 1)
        BY <1>1
      <4> QED
        BY <1>s, <4>1
    <3> HIDE DEF G, g
    <3>5. starts[i + 1] <= Len(sent') + 1
      BY <1>1, <2>5, <3>1, <3>2
    <3>6. \A k \in 1..G : sent'[starts[i] + k - 1] = g[k]
      <4> TAKE k \in 1..G
      <4>1. starts[i] + k - 1 \in 1..Len(sent)
        <5>1. starts[i] + G <= Len(sent) + 1
          BY <3>1, Zenon
        <5> QED
          BY <1>n, <3>3, <3>4, <5>1
      <4> QED
        BY <2>5, <3>1, <4>1
    <3> QED
      BY <3>1, <3>5, <3>6 DEF G, g
  <2> QED
    BY <1>1, <2>1, <2>5, <2>6, <2>7 DEF Written
<1>6. CASE ~ClientAdds /\ ~ClientSends
  <2>1. UNCHANGED <<form, sent, starts>> /\ (pc = "client" <=> pc' = "client")
    BY <1>6, FormKept
  <2> QED
    BY <2>1 DEF Written
<1> QED
  BY <1>4, <1>5, <1>6

\* What the server gets is a beginning of it.
LEMMA ReceivedStep ==
  ASSUME WellFormed(Fields), Written, Written', Received, [Next]_vars
  PROVE  Received'
<1>1. /\ body \in Seq(Symbols) /\ Len(body) \in Nat /\ Len(body) <= Len(sent)
      /\ \A i \in 1..Len(body) : body[i] = sent[i]
  BY DEF Received
<1>2. sent \in Seq(Symbols) /\ Len(sent) \in Nat
  BY DEF Written
<1>3. sent' \in Seq(Symbols) /\ Len(sent') \in Nat
  <2>1. sent' \in Seq(Symbols)
    BY DEF Written
  <2> QED
    BY <2>1
<1>4. CASE ClientAdds
  <2>1. PICK f \in Fields : sent' = sent \o Encoded(f)
    BY <1>4 DEF ClientAdds
  <2>2. body' = body
    BY <1>4 DEF ClientAdds, parserVars
  <2>3. Encoded(f) \in Seq(Symbols)
    BY EncodedFacts
  <2>4. /\ Len(sent') = Len(sent) + Len(Encoded(f)) /\ Len(Encoded(f)) \in Nat
        /\ \A i \in 1..Len(sent) : sent'[i] = sent[i]
    BY <1>2, <2>1, <2>3, Concat, Zenon
  <2>5. Len(body) <= Len(sent') /\ \A i \in 1..Len(body) : body[i] = sent'[i]
    BY <1>1, <1>2, <2>4
  <2> QED
    BY <1>1, <2>2, <2>5 DEF Received
<1>5. CASE ClientSends
  <2>1. PICK n \in 0..Len(sent') : body' = SubSeq(sent', 1, n)
    BY <1>5 DEF ClientSends
  <2>2. \A i \in 1..n : sent'[i] \in Symbols
    BY <1>3
  <2>3. /\ SubSeq(sent', 1, n) \in Seq(Symbols) /\ Len(SubSeq(sent', 1, n)) = n
        /\ \A i \in 1..n : SubSeq(sent', 1, n)[i] = sent'[i]
    BY <1>3, <2>2, SubSeqProperties
  <2>4. body' \in Seq(Symbols) /\ Len(body') = n /\ \A i \in 1..n : body'[i] = sent'[i]
    BY <2>1, <2>3, Zenon
  <2> QED
    BY <1>3, <2>4 DEF Received
<1>6. CASE ~ClientAdds /\ ~ClientSends
  <2>1. UNCHANGED <<sent, body>>
    BY <1>6, FormKept
  <2> QED
    BY <2>1 DEF Received
<1> QED
  BY <1>4, <1>5, <1>6

(***************************************************************************)
(* The parser, step by step, and the theorems                              *)
(***************************************************************************)
\* parse() stays behind a boundary of the form, with what was said up to it.
LEMMA ParsedStep ==
  ASSUME WellFormed(Fields), Written, Received, Parsed, HandleOrder, [Next]_vars
  PROVE  Parsed'
<1>1. ASSUME UNCHANGED <<parserVars, form, sent, starts>> PROVE Parsed'
  <2>1. /\ form' = form /\ sent' = sent /\ starts' = starts /\ body' = body /\ boundary' = boundary
        /\ parse_pc' = parse_pc /\ pos' = pos /\ result' = result
    BY <1>1 DEF parserVars
  <2>2. ASSUME NEW n
        PROVE  /\ Says(n)' <=> Says(n)
               /\ (\A name \in MeantNames(n) : \E i \in 1..n : LastPart(i, n, name))'
                    <=> (\A name \in MeantNames(n) : \E i \in 1..n : LastPart(i, n, name))
    <3>1. /\ MeantNames(n)' = MeantNames(n) /\ \A name : Meant(n, name)' = Meant(n, name)
          /\ \A i, name : LastPart(i, n, name)' <=> LastPart(i, n, name)
      BY <2>1, SameForm, Zenon
    <3>2. Says(n)' <=> Says(n)
      BY <2>1, <3>1 DEF Says
    <3>3. (\A name \in MeantNames(n) : \E i \in 1..n : LastPart(i, n, name))'
            <=> (\A name \in MeantNames(n) : \E i \in 1..n : LastPart(i, n, name))
      BY <3>1, Zenon
    <3> QED
      BY <3>2, <3>3
  <2> QED
    BY <2>1, <2>2 DEF Parsed
<1>2. ASSUME parse_pc' \notin {"loop", "done"}, parse_pc \in {"off", "start"} \/ parse_pc' = "threw",
             result' = result
      PROVE  Parsed'
  BY <1>2 DEF Parsed
<1>3. CASE ClientAdds \/ ClientSends \/ Boundary
  <2>1. /\ parse_pc = "off" /\ parse_pc' \in {"off", "start"} /\ result' = result
    BY <1>3 DEF ClientAdds, ClientSends, Boundary, HandleOrder, parserVars
  <2> QED
    BY <1>2, <2>1
<1>4. CASE Parse /\ ParserStep
  <2>0. pc = "parse" /\ UNCHANGED <<form, sent, starts, body, boundary>>
    <3>1. pc = "parse" /\ ~ClientAdds /\ ~ClientSends /\ boundary' = boundary
      BY <1>4 DEF Parse, ClientAdds, ClientSends, ParserStep, ParseStart, ParseEnds, ParsePart
    <3> QED
      BY <3>1, FormKept
  <2>f. /\ Len(form) \in Nat /\ body \in Seq(Symbols) /\ Len(body) \in Nat
    <3>1. Len(form) \in Nat
      BY DEF Written
    <3> QED
      BY <3>1 DEF Received
  <2>b. \A i \in 1..Len(body) : body[i] = sent[i]
    BY DEF Received
  <2>s. ASSUME NEW n \in 0..Len(form), parse_pc' \in {"loop", "done"}, boundary = "b",
               pos' = starts[n + 1] + 1,
               DOMAIN result' = MeantNames(n), \A name \in MeantNames(n) : result'[name] = Meant(n, name),
               \A name \in MeantNames(n) : \E i \in 1..n : LastPart(i, n, name),
               parse_pc' = "done" /\ body = sent => n = Len(form)
        PROVE  Parsed'
    <3>1. /\ Says(n)' /\ pos' = starts'[n + 1] + 1
          /\ \A name \in MeantNames(n)' : \E i \in 1..n : LastPart(i, n, name)'
      <4>1. form' = form /\ starts' = starts
        BY <2>0
      <4>2. Says(n)'
        BY <2>s, <4>1, SameForm DEF Says
      <4>3. MeantNames(n)' = MeantNames(n) /\ \A i, name : LastPart(i, n, name)' <=> LastPart(i, n, name)
        BY <4>1, SameForm, Zenon
      <4>4. \A name \in MeantNames(n)' : \E i \in 1..n : LastPart(i, n, name)'
        BY <2>s, <4>3, Zenon
      <4> QED
        BY <2>s, <4>1, <4>2, <4>4
    <3> QED
      BY <2>0, <2>s, <3>1 DEF Parsed
  <2>1. CASE ParseStart
    <3> DEFINE first == find(<<Delim(boundary)>>, 1)
    <3>1. parse_pc = "start" /\ result = <<>> /\ boundary \in {"b", "b; more"}
      BY <2>0, <2>1 DEF ParseStart, Parsed, HandleOrder
    <3>2. CASE first = npos
      <4>1. parse_pc' = "threw" /\ result' = result
        BY <2>1, <3>2 DEF ParseStart, ParseThrows
      <4> QED
        BY <1>2, <4>1
    <3>3. CASE first # npos
      <4>1. parse_pc' = "loop" /\ pos' = first + 1 /\ result' = result
        BY <2>1, <3>3 DEF ParseStart
      <4>2. boundary = "b"
        <5>1. SUFFICES ASSUME boundary = "b; more" PROVE FALSE
          BY <3>1
        <5>2. \A j \in 1..Len(body) : body[j] # Delim("b; more")
          <6>1. Delim("b; more") \notin Symbols
            BY DEF WellFormed, Symbols
          <6>2. \A j \in 1..Len(body) : body[j] \in Symbols
            BY <2>f
          <6> QED
            BY <6>1, <6>2
        <5> QED
          BY <2>f, <3>3, <5>1, <5>2, FindOne
      <4>3. body # <<>>
        <5>1. SUFFICES ASSUME body = <<>> PROVE FALSE
          OBVIOUS
        <5>2. \A j \in 1..Len(body) : body[j] # Delim("b")
          BY <5>1
        <5> QED
          BY <2>f, <3>3, <4>2, <5>2, FindOne
      <4>4. first = 1
        <5>1. 1 \in 1..(Len(form) + 1) /\ 1 \in 1..Len(body) /\ pc # "client"
          BY <2>0, <2>f, <4>3
        <5>2. starts[1] = 1
          BY DEF Written
        <5>3. body[1] = Delim("b")
          BY <2>b, <5>1, <5>2, BoundaryAtStart
        <5> QED
          BY <2>f, <4>2, <4>3, <5>3, FindOne
      <4>5. MeantNames(0) = {} /\ DOMAIN result = {}
        <5>1. \A i \in 1..0 : FALSE
          OBVIOUS
        <5>2. MeantNames(0) = {}
          BY <5>1, Zenon DEF MeantNames
        <5>3. DOMAIN <<>> = {}
          OBVIOUS
        <5> QED
          BY <3>1, <5>2, <5>3, Zenon
      <4>6. pos' = starts[0 + 1] + 1 /\ 0 \in 0..Len(form)
        <5>1. starts[1] = 1
          BY DEF Written
        <5> QED
          BY <2>f, <4>1, <4>4, <5>1
      <4> HIDE DEF first
      <4> QED
        BY <2>s, <4>1, <4>2, <4>5, <4>6
    <3> QED
      BY <3>2, <3>3
  <2>2. CASE ParseEnds \/ ParsePart
    <3>1. parse_pc = "loop"
      BY <2>2 DEF ParseEnds, ParsePart
    <3>2. boundary = "b"
      BY <3>1 DEF Parsed
    <3>3. PICK n \in 0..Len(form) :
            /\ pos = starts[n + 1] + 1 /\ Says(n)
            /\ \A name \in MeantNames(n) : \E i \in 1..n : LastPart(i, n, name)
      BY <3>1 DEF Parsed
    <3>n. n \in Nat
      BY <2>f
    <3>4. CASE ParseEnds
      <4>1. parse_pc' = "done" /\ pos' = pos /\ result' = result /\ (pos <= Len(body) => body[pos] # NL)
        BY <3>4 DEF ParseEnds
      <4>2. ASSUME body = sent PROVE n = Len(form)
        <5>1. SUFFICES ASSUME n # Len(form) PROVE FALSE
          OBVIOUS
        <5>2. n \in 0..(Len(form) - 1) /\ n + 1 \in 1..(Len(form) + 1) /\ pc # "client"
          BY <2>0, <2>f, <5>1
        <5>3. sent[starts[n + 1] + 1] = NL
          BY <5>2, PartInSent
        <5>4. starts[n + 1] + 1 <= Len(sent)
          BY <5>2, BoundaryAtStart
        <5> QED
          BY <3>3, <4>1, <4>2, <5>3, <5>4
      <4>3. DOMAIN result' = MeantNames(n) /\ \A name \in MeantNames(n) : result'[name] = Meant(n, name)
        BY <3>3, <4>1 DEF Says
      <4> QED
        BY <2>s, <3>2, <3>3, <4>1, <4>2, <4>3
    <3>5. CASE ParsePart
      <4>1. CASE ParseThrows
        BY <1>2, <4>1 DEF ParseThrows
      <4>2. CASE ~ParseThrows
        <5>1. /\ n < Len(form) /\ pos' = starts[n + 2] + 1 /\ parse_pc' = parse_pc
              /\ result' = IF form[n + 1].name = "" THEN result
                           ELSE WithField(form[n + 1].name, Content(form[n + 1]))
          BY <2>0, <3>2, <3>3, <3>5, <4>2, PartParsed
        <5>2. /\ DOMAIN result' = MeantNames(n + 1)
              /\ \A name \in MeantNames(n + 1) : result'[name] = Meant(n + 1, name)
              /\ \A name \in MeantNames(n + 1) : \E i \in 1..(n + 1) : LastPart(i, n + 1, name)
          BY <3>n, <3>3, <5>1, SaysNext, Zenon
        <5>3. n + 1 \in 0..Len(form) /\ (n + 1) + 1 = n + 2
          <6>1. n < Len(form) /\ Len(form) \in Nat
            BY <2>f, <5>1
          <6> QED
            BY <3>n, <6>1
        <5>4. pos' = starts[(n + 1) + 1] + 1
          BY <5>1, <5>3, Zenon
        <5> DEFINE m == n + 1
        <5>5. /\ m \in 0..Len(form) /\ pos' = starts[m + 1] + 1 /\ DOMAIN result' = MeantNames(m)
              /\ \A name \in MeantNames(m) : result'[name] = Meant(m, name)
              /\ \A name \in MeantNames(m) : \E i \in 1..m : LastPart(i, m, name)
          BY <5>2, <5>3, <5>4
        <5>6. parse_pc' = "loop"
          BY <3>1, <5>1
        <5> HIDE DEF m
        <5> QED
          BY <2>s, <3>2, <5>5, <5>6
      <4> QED
        BY <4>1, <4>2
    <3> QED
      BY <2>2, <3>4, <3>5
  <2> QED
    BY <1>4, <2>1, <2>2 DEF ParserStep
<1>5. CASE /\ ~ClientAdds /\ ~ClientSends /\ ~Boundary /\ ~(Parse /\ ParserStep)
  <2>1. UNCHANGED <<form, sent, starts>>
    BY <1>5, FormKept
  <2>2. UNCHANGED parserVars
    BY <1>5 DEF Next, Parse, CheckFields, Decode, CheckDuration, Answered, vars
  <2> QED
    BY <1>1, <2>1, <2>2
<1> QED
  BY <1>3, <1>4, <1>5

\* The invariants hold at the start.
LEMMA UploadInit ==
  ASSUME Init
  PROVE  UploadInv
<1>1. Written
  <2>1. /\ form = <<>> /\ sent = <<>> /\ starts = <<1>> /\ pc = "client"
    BY DEF Init
  <2>2. form \in Seq(Fields) /\ Len(form) = 0 /\ \A i \in 1..Len(form) : FALSE
    BY <2>1
  <2>3. sent \in Seq(Symbols) /\ Len(sent) = 0
    BY <2>1
  <2>4. starts \in Seq(Nat) /\ Len(starts) = 1 /\ starts[1] = 1
    BY <2>1
  <2> QED
    BY <2>1, <2>2, <2>3, <2>4 DEF Written
<1>2. Received
  <2>1. body = <<>> /\ sent = <<>>
    BY DEF Init
  <2>2. body \in Seq(Symbols) /\ Len(body) <= Len(sent) /\ \A i \in 1..Len(body) : FALSE
    BY <2>1
  <2> QED
    BY <2>2 DEF Received
<1>3. Parsed
  BY DEF Parsed, Init, ParserInit
<1>4. HeldByStep /\ HandleOrder
  BY SetupOrder DEF HeldByStep, HandleOrder, Init, ParserInit, DecoderInit
<1>5. FramesInOrder
  <2>1. /\ packets = <<>> /\ at = 1 /\ inside = <<>> /\ resampler = <<>> /\ s16 = <<>> /\ corrupt = {}
        /\ codec_delay \in Nat
    BY DecoderConstants DEF Init, DecoderInit
  <2>2. s16 \in Seq(Nat) /\ resampler \in Seq(Nat) /\ inside \in Seq(Nat)
    BY <2>1
  <2>3. Len(packets) = 0 /\ DOMAIN packets = 1..0
    BY <2>1
  <2> DEFINE all == s16 \o resampler \o inside
  <2>4. Len(all) = 0
    BY <2>1
  <2> HIDE DEF all
  <2>5. \A i \in 1..0 : FALSE
    OBVIOUS
  <2>6. /\ {all[i] : i \in 1..Len(all)} = {i \in 1..Len(packets) : i < at /\ packets[i] = "audio"} \ corrupt
        /\ \A i, j \in 1..Len(all) : i < j => all[i] < all[j]
    BY <2>3, <2>4, <2>5, Zenon
  <2>7. at \in Nat \ {0} /\ corrupt \subseteq 1..(at - 1)
    BY <2>1
  <2> QED
    BY <2>1, <2>2, <2>3, <2>6, <2>7 DEF FramesInOrder, all
<1> QED
  BY <1>1, <1>2, <1>3, <1>4, <1>5 DEF UploadInv

\* Whatever step of decode() fails, all it allocated is freed, and nothing that
\* is not there: for every file and every form, also a broken one.
THEOREM DecoderFreesAll == Spec => []DecoderReleases
<1> DEFINE Inv == HeldByStep /\ HandleOrder
<1>1. Init => Inv
  BY UploadInit DEF UploadInv
<1>2. Inv /\ [Next]_vars => Inv'
  BY HeldByStepStep, HandleOrderStep
<1>3. Inv => DecoderReleases
  BY DEF HeldByStep, DecoderReleases
<1> QED
  BY <1>1, <1>2, <1>3, PTL DEF Spec

\* Of well-formed parts, the inductive invariant holds: what is sent, received,
\* parsed and decoded agree.
THEOREM UploadSafe ==
  ASSUME WellFormed(Fields)
  PROVE  Spec => []UploadInv
<1>1. Init => UploadInv
  BY UploadInit
<1>2. UploadInv /\ [Next]_vars => UploadInv'
  <2> SUFFICES ASSUME UploadInv, [Next]_vars PROVE UploadInv'
    OBVIOUS
  <2>1. Written /\ Received /\ Parsed /\ HeldByStep /\ FramesInOrder /\ HandleOrder
    BY DEF UploadInv
  <2>2. Written'
    BY <2>1, WrittenStep
  <2>3. Received'
    BY <2>1, <2>2, ReceivedStep
  <2>4. Parsed'
    BY <2>1, ParsedStep
  <2>5. HeldByStep' /\ HandleOrder'
    BY <2>1, HeldByStepStep, HandleOrderStep
  <2>6. FramesInOrder'
    BY <2>1, FramesInOrderStep
  <2> QED
    BY <2>2, <2>3, <2>4, <2>5, <2>6 DEF UploadInv
<1> QED
  BY <1>1, <1>2, PTL DEF Spec

\* parse() returns the form that was meant, for any number of parts with any
\* data in which no line begins with the boundary, and of a body that was cut
\* its complete parts.
THEOREM PartsReturned ==
  ASSUME WellFormed(Fields)
  PROVE  Spec => []PartsExact
<1>1. UploadInv => PartsExact
  BY DEF UploadInv, Parsed, PartsExact
<1> QED
  BY <1>1, UploadSafe, PTL

\* What goes on to the model are the frames of the client's file, in order,
\* without those the codec refused or still holds.
THEOREM UploadReachesModel ==
  ASSUME WellFormed(Fields)
  PROVE  Spec => []UploadIntact
<1>1. UploadInv => UploadIntact
  <2> SUFFICES ASSUME UploadInv, pc = "accepted"
               PROVE  \E n \in 0..Len(form) :
                        /\ Says(n) /\ {"file", "model"} \subseteq MeantNames(n)
                        /\ LET data == Meant(n, "file").data
                               heard == {i \in DOMAIN data : i < at /\ data[i] = <<"audio">>} \ corrupt
                               all == s16 \o inside
                           IN  /\ {all[i] : i \in DOMAIN all} = heard
                               /\ \A i, j \in DOMAIN all : i < j => all[i] < all[j]
    BY Zenon DEF UploadIntact
  <2>1. Written /\ Parsed /\ FramesInOrder /\ HandleOrder
    BY DEF UploadInv
  <2>2. /\ parse_pc = "done" /\ decode_pc = "returned" /\ resampler = <<>> /\ Has("file") /\ Has("model")
        /\ packets = [i \in DOMAIN result["file"].data |-> result["file"].data[i][1]]
    BY <2>1 DEF HandleOrder
  <2>3. PICK n \in 0..Len(form) : Says(n)
    BY <2>1, <2>2 DEF Parsed
  <2>4. /\ {"file", "model"} \subseteq MeantNames(n) /\ Meant(n, "file") = result["file"]
    BY <2>2, <2>3 DEF Says, Has
  <2> DEFINE data == Meant(n, "file").data
             heard == {i \in DOMAIN data : i < at /\ data[i] = <<"audio">>} \ corrupt
             all == s16 \o inside
             both == s16 \o resampler \o inside
  <2>5. data = result["file"].data
    BY <2>4
  <2>6. data \in Seq(Symbols) /\ \A i \in 1..Len(data) : data[i][1] = "audio" => data[i] = <<"audio">>
    BY <2>1, <2>2, <2>5, DataOfPart DEF Has
  <2> HIDE DEF data
  <2>7. DOMAIN data = 1..Len(data) /\ Len(data) \in Nat
    BY <2>6
  <2>8. packets = [i \in 1..Len(data) |-> data[i][1]] /\ Len(packets) = Len(data)
    BY <2>2, <2>5, <2>7
  <2>9. {i \in 1..Len(packets) : i < at /\ packets[i] = "audio"} \ corrupt = heard
    <3>1. \A i \in 1..Len(data) : packets[i] = "audio" <=> data[i] = <<"audio">>
      BY <2>6, <2>8
    <3> QED
      BY <2>7, <2>8, <3>1
  <2>10. s16 \in Seq(Nat) /\ inside \in Seq(Nat)
    BY <2>1 DEF FramesInOrder
  <2>11. both = all
    BY <2>2, <2>10
  <2>12. DOMAIN all = 1..Len(all)
    BY <2>10
  <2>13. {both[i] : i \in 1..Len(both)} = heard /\ \A i, j \in 1..Len(both) : i < j => both[i] < both[j]
    BY <2>1, <2>9 DEF FramesInOrder
  <2> HIDE DEF all, both, heard
  <2>14. {all[i] : i \in DOMAIN all} = heard /\ \A i, j \in DOMAIN all : i < j => all[i] < all[j]
    BY <2>11, <2>12, <2>13
  <2> QED
    BY <2>3, <2>4, <2>14, Zenon DEF all, heard, data
<1> QED
  BY <1>1, UploadSafe, PTL
================================================================================
