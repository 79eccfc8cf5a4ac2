----------------------- MODULE StreamingSession_proofs -----------------------
(***************************************************************************)
(* StreamingSession for any buffer sizes, timeouts, number of frames and   *)
(* of configurations: its type invariant, that an engine is always backed  *)
(* by a model reference, that nothing follows the final transcription, and *)
(* that the transcripts are in the order of speech.  Up to a second        *)
(* configuration also: model references are given back, the peer knows     *)
(* whether the session is degraded, and text that was shown is never taken *)
(* back.                                                                   *)
(***************************************************************************)
EXTENDS StreamingSession, TLAPS

\* TypeOK in four parts: flags, places, numbers and data.  ClientType is the
\* peer's record.
FlagTypes ==
  /\ flush_running \in BOOLEAN /\ configured \in BOOLEAN /\ model_acquired \in BOOLEAN
  /\ buffer_overflowed \in BOOLEAN /\ capacity_degraded \in BOOLEAN
  /\ idle_shutdown_triggered \in BOOLEAN

PlaceTypes ==
  /\ rpc \in RecvPcs /\ fpc \in FlushPcs /\ writer \in {"none", "recv", "flush"}
  /\ sock \in {"open", "dead"} /\ peer \in {"reading", "stalled"}
  /\ crashed \in {"no", "null_engine", "exception"}

NumberTypes ==
  /\ current_size \in 0..Cap /\ buffer \in 0..Cap /\ last_transcribed_size \in 0..Cap
  /\ engine \in Nat /\ model_refs \in Nat /\ base \in Nat /\ dropped_chunks \in Nat
  /\ quiet \in Nat /\ frames \in Nat /\ configs \in Nat

ClientType == [paused : BOOLEAN, busy : BOOLEAN, final : BOOLEAN, text : Text, warned : Nat]

DataTypes ==
  /\ rout \in Seq(Message) /\ fout \in Seq(Message) /\ res \in Result
  /\ full_transcription \in Text /\ raw_transcription \in Text
  /\ client \in ClientType

\* The parts make up the type invariant of the model.
LEMMA TypeParts == TypeOK <=> FlagTypes /\ PlaceTypes /\ NumberTypes /\ DataTypes
  BY DEF TypeOK, FlagTypes, PlaceTypes, NumberTypes, DataTypes, ClientType

\* What the code sends are messages, and the empty values have their types.
LEMMA MessageTypes ==
  /\ \A type \in MsgTypes : Msg(type) \in Message /\ Msg(type).type = type
  /\ \A type \in MsgTypes, t \in Text :
       [Msg(type) EXCEPT !.text = t] \in Message /\ [Msg(type) EXCEPT !.text = t].type = type
  /\ \A d \in Nat : Warning(d) \in Message /\ Warning(d).type = "warning"
  /\ <<>> \in Text /\ NoResult \in Result
<1>1. <<>> \in Text
  BY DEF Text
<1>2. ASSUME NEW type \in MsgTypes PROVE Msg(type) \in Message /\ Msg(type).type = type
  BY <1>1 DEF Msg, Message
<1>3. ASSUME NEW type \in MsgTypes, NEW t \in Text
      PROVE  [Msg(type) EXCEPT !.text = t] \in Message /\ [Msg(type) EXCEPT !.text = t].type = type
  BY <1>1 DEF Msg, Message
<1>4. ASSUME NEW d \in Nat PROVE Warning(d) \in Message /\ Warning(d).type = "warning"
  BY <1>1 DEF Msg, Message, Warning, MsgTypes
<1>5. NoResult \in Result
  BY <1>1 DEF NoResult, Result
<1> QED
  BY <1>1, <1>2, <1>3, <1>4, <1>5

\* The text of the first k units of the buffer has k units.
LEMMA PrefixType ==
  ASSUME engine \in Nat, base \in Nat, NEW k \in Nat
  PROVE  Prefix(k) \in Text /\ Len(Prefix(k)) = k
<1>1. \A i \in 1..k : <<engine, base + i>> \in Unit
  BY DEF Unit
<1>2. Prefix(k) \in Seq(Unit) /\ Len(Prefix(k)) = k
  BY <1>1 DEF Prefix
<1> QED
  BY <1>2 DEF Text

\* Reading a message keeps the peer's record a record, and only a final
\* transcription makes it final.
LEMMA ToldType ==
  ASSUME client \in ClientType, NEW m \in Message
  PROVE  Told(m) \in ClientType /\ (Told(m).final => client.final \/ m.type = "final")
<1> USE DEF Message, ClientType
<1>1. m.text \in Text /\ m.dropped \in Nat /\ m.type \in MsgTypes
  OBVIOUS
<1>2. /\ [client EXCEPT !.paused = TRUE] \in ClientType
      /\ [client EXCEPT !.paused = FALSE] \in ClientType
      /\ [client EXCEPT !.busy = TRUE] \in ClientType
      /\ [client EXCEPT !.busy = FALSE] \in ClientType
      /\ [client EXCEPT !.warned = m.dropped] \in ClientType
      /\ [client EXCEPT !.text = m.text] \in ClientType
      /\ [client EXCEPT !.text = m.text, !.final = TRUE] \in ClientType
  BY <1>1
<1>3. /\ [client EXCEPT !.paused = TRUE].final = client.final
      /\ [client EXCEPT !.paused = FALSE].final = client.final
      /\ [client EXCEPT !.busy = TRUE].final = client.final
      /\ [client EXCEPT !.busy = FALSE].final = client.final
      /\ [client EXCEPT !.warned = m.dropped].final = client.final
      /\ [client EXCEPT !.text = m.text].final = client.final
  OBVIOUS
<1>4. Told(m) \in ClientType
  BY <1>2 DEF Told
<1>5. m.type # "final" => Told(m).final = client.final
  BY <1>1, <1>3 DEF Told, MsgTypes
<1> QED
  BY <1>4, <1>5

\* The same, one state later.
LEMMA TypePartsNext == FlagTypes' /\ PlaceTypes' /\ NumberTypes' /\ DataTypes' => TypeOK'
  BY DEF TypeOK, FlagTypes, PlaceTypes, NumberTypes, DataTypes, ClientType

\* A session starts with empty buffers and no thread.
LEMMA SessionInitInv == Init => SessionInv
<1> SUFFICES ASSUME Init PROVE SessionInv
  OBVIOUS
<1> USE DEF Init
<1>1. FlagTypes
  BY Zenon DEF FlagTypes
<1>2. PlaceTypes /\ NumberTypes
  BY SessionConstants DEF SessionConstants, PlaceTypes, NumberTypes, RecvPcs, FlushPcs
<1>3. DataTypes
  BY MessageTypes DEF DataTypes, ClientType
<1>4. ModelCounted /\ FlushQuiet /\ FinalFromEnd /\ FinalThenClose
  BY DEF ModelCounted, FlushQuiet, FlushJoined, FinalFromEnd, FinalThenClose
<1> QED
  BY <1>1, <1>2, <1>3, <1>4, TypeParts DEF SessionInv

\* The receive thread goes on to p with at most an error to send, and nothing
\* but the two bounded counters changes.
LEMMA GotoInv ==
  ASSUME SessionInv, NEW p \in RecvPcs, NEW ms \in {<<>>, <<Msg("error")>>}, Goto(p, ms),
         p \notin {"accept", "configure", "end", "end_close", "end_closing"},
         rpc \notin {"end_close", "end_closing"}, frames' \in Nat, configs' \in Nat,
         UNCHANGED <<flushVars, writer, flush_running, modelVars, audioVars, flowVars,
                     capacity_degraded, textVars, idleVars, sock, peerVars, crashed>>
  PROVE  SessionInv'
<1> USE DEF SessionInv, Goto, recvVars, flushVars, modelVars, audioVars, flowVars, textVars, idleVars, peerVars, boundVars
<1>1. FlagTypes' /\ PlaceTypes' /\ NumberTypes'
  BY TypeParts DEF FlagTypes, PlaceTypes, NumberTypes
<1>2. ms \in Seq(Message) /\ \A i \in 1..Len(ms) : ms[i].type # "final"
  <2>1. CASE ms = <<>>
    BY <2>1
  <2>2. CASE ms = <<Msg("error")>>
    <3>1. Msg("error") \in Message /\ Msg("error").type = "error"
      BY MessageTypes DEF MsgTypes
    <3> QED
      BY <2>2, <3>1
  <2> QED
    BY <2>1, <2>2
<1>3. DataTypes'
  BY <1>2, TypeParts DEF DataTypes
<1>4. ModelCounted' /\ FlushQuiet' /\ FinalThenClose'
  BY DEF ModelCounted, FlushQuiet, FlushJoined, FinalThenClose
<1>5. FinalFromEnd'
  BY <1>2 DEF FinalFromEnd
<1> QED
  BY <1>1, <1>3, <1>4, <1>5, TypePartsNext

\* The flush thread goes on inside or at the end of a cycle with nothing to send.
LEMMA FlushMoveInv ==
  ASSUME SessionInv, fpc' \in FlushPcs, ~FlushJoined, fout = <<>>,
         UNCHANGED <<recvVars, fout, current_size, res, writer, flush_running, modelVars, audioVars,
                     flowVars, capacity_degraded, textVars, idleVars, sock, peerVars, boundVars,
                     crashed>>
  PROVE  SessionInv'
<1> USE DEF SessionInv, recvVars, flushVars, modelVars, audioVars, flowVars, textVars, idleVars, peerVars, boundVars
<1>1. FlagTypes' /\ PlaceTypes' /\ NumberTypes' /\ DataTypes'
  BY TypeParts DEF FlagTypes, PlaceTypes, NumberTypes, DataTypes
<1>2. ModelCounted' /\ FlushQuiet' /\ FinalFromEnd' /\ FinalThenClose'
  BY DEF ModelCounted, FlushQuiet, FinalFromEnd, FinalThenClose
<1> QED
  BY <1>1, <1>2, TypePartsNext

\* Neither thread moves: time, the peer, the idle watchdog, or a crash.  The
\* owner of write_mutex_ may change.
LEMMA AmbientInv ==
  ASSUME SessionInv,
         quiet' \in Nat, idle_shutdown_triggered' \in BOOLEAN, sock' \in {sock, "dead"},
         peer' \in {"reading", "stalled"}, crashed' \in {"no", "null_engine", "exception"},
         writer' \in {"none", "recv", "flush"},
         UNCHANGED <<recvVars, flushVars, flush_running, modelVars, audioVars, flowVars,
                     capacity_degraded, textVars, client, boundVars>>
  PROVE  SessionInv'
<1> USE DEF SessionInv, recvVars, flushVars, modelVars, audioVars, flowVars, textVars, idleVars, peerVars, boundVars
<1>1. FlagTypes' /\ PlaceTypes' /\ NumberTypes' /\ DataTypes'
  BY TypeParts DEF FlagTypes, PlaceTypes, NumberTypes, DataTypes
<1>2. ModelCounted' /\ FlushQuiet' /\ FinalFromEnd' /\ FinalThenClose'
  BY DEF ModelCounted, FlushQuiet, FlushJoined, FinalFromEnd, FinalThenClose
<1> QED
  BY <1>1, <1>2, TypePartsNext

\* The end of ws_.write(): the peer's record keeps its type, it only becomes
\* final by a final transcription, and a dead socket delivers nothing.
LEMMA WriteInv ==
  ASSUME SessionInv, NEW m \in Message, WriteReturns(m)
  PROVE  /\ client' \in ClientType /\ writer' = "none"
         /\ client'.final => client.final \/ (m.type = "final" /\ sock = "open")
         /\ sock = "dead" => client' = client
<1>1. client \in ClientType
  BY TypeParts DEF SessionInv, DataTypes
<1>2. Told(m) \in ClientType /\ (Told(m).final => client.final \/ m.type = "final")
  BY <1>1, ToldType
<1> QED
  BY <1>1, <1>2 DEF WriteReturns

\* A message leaves the queue of the receive thread.
LEMMA RecvWriteEndInv ==
  ASSUME SessionInv, RecvWriteEnd
  PROVE  SessionInv'
<1> USE DEF SessionInv, RecvWriteEnd, recvVars, flushVars, modelVars, audioVars, flowVars, textVars, idleVars, peerVars, boundVars
<1>1. rout \in Seq(Message) /\ rout # <<>>
  BY TypeParts DEF DataTypes
<1>2. /\ Head(rout) \in Message /\ Head(rout) = rout[1] /\ Len(rout) > 0 /\ Len(rout) \in Nat
      /\ Tail(rout) \in Seq(Message) /\ Len(Tail(rout)) = Len(rout) - 1
      /\ \A i \in 1..Len(Tail(rout)) : Tail(rout)[i] = rout[i + 1] /\ i + 1 \in 1..Len(rout)
  BY <1>1
<1>3. /\ client' \in ClientType /\ writer' = "none"
      /\ client'.final => client.final \/ (rout[1].type = "final" /\ sock = "open")
  BY <1>2, WriteInv
<1>4. FlagTypes' /\ PlaceTypes' /\ NumberTypes'
  BY <1>3, TypeParts DEF FlagTypes, PlaceTypes, NumberTypes
<1>5. DataTypes'
  BY <1>2, <1>3, TypeParts DEF DataTypes
<1>6. ModelCounted' /\ FlushQuiet'
  BY DEF ModelCounted, FlushQuiet, FlushJoined
<1>7. FinalFromEnd'
  <2>1. ASSUME NEW i \in 1..Len(Tail(rout)), Tail(rout)[i].type = "final" PROVE FALSE
    BY <2>1, <1>2 DEF FinalFromEnd
  <2> QED
    BY <2>1 DEF FinalFromEnd
<1>8. FinalThenClose'
  <2>1. CASE client.final
    BY <2>1, <1>1 DEF FinalThenClose
  <2>2. CASE rout[1].type = "final"
    <3>1. rpc = "end_close" /\ Len(rout) = 1
      BY <2>2, <1>2 DEF FinalFromEnd
    <3>2. Tail(rout) = <<>>
      BY <3>1, <1>2
    <3> QED
      BY <3>1, <3>2 DEF FinalThenClose
  <2> QED
    BY <2>1, <2>2, <1>3 DEF FinalThenClose
<1> QED
  BY <1>4, <1>5, <1>6, <1>7, <1>8, TypePartsNext

\* A message leaves the queue of the flush thread, never a final one.
LEMMA FlushWriteEndInv ==
  ASSUME SessionInv, FlushWriteEnd
  PROVE  SessionInv'
<1> USE DEF SessionInv, FlushWriteEnd, recvVars, flushVars, modelVars, audioVars, flowVars, textVars, idleVars, peerVars, boundVars
<1>1. fout \in Seq(Message) /\ fout # <<>>
  BY TypeParts DEF DataTypes
<1>2. /\ Head(fout) \in Message /\ Head(fout) = fout[1] /\ Len(fout) > 0 /\ Len(fout) \in Nat
      /\ Tail(fout) \in Seq(Message) /\ Len(Tail(fout)) = Len(fout) - 1
      /\ \A i \in 1..Len(Tail(fout)) : Tail(fout)[i] = fout[i + 1] /\ i + 1 \in 1..Len(fout)
  BY <1>1
<1>3. Head(fout).type # "final"
  BY <1>2 DEF FinalFromEnd
<1>4. client' \in ClientType /\ writer' = "none" /\ (client'.final => client.final)
  BY <1>2, <1>3, WriteInv
<1>5. FlagTypes' /\ PlaceTypes' /\ NumberTypes'
  BY <1>4, TypeParts DEF FlagTypes, PlaceTypes, NumberTypes
<1>6. DataTypes'
  BY <1>2, <1>4, TypeParts DEF DataTypes
<1>7. ModelCounted' /\ FinalThenClose'
  BY <1>4 DEF ModelCounted, FinalThenClose
<1>8. FlushQuiet'
  BY <1>1 DEF FlushQuiet, FlushJoined
<1>9. FinalFromEnd'
  BY <1>2 DEF FinalFromEnd
<1> QED
  BY <1>5, <1>6, <1>7, <1>8, <1>9, TypePartsNext

\* A message that dump() cannot format is lost before it is written.
LEMMA DumpThrowsInv ==
  ASSUME SessionInv, RecvDumpThrows \/ FlushDumpThrows
  PROVE  SessionInv'
<1> USE DEF SessionInv, recvVars, flushVars, modelVars, audioVars, flowVars, textVars, idleVars, peerVars, boundVars
<1>1. CASE RecvDumpThrows
  <2> USE <1>1 DEF RecvDumpThrows
  <2>1. rout \in Seq(Message) /\ rout # <<>>
    BY TypeParts DEF DataTypes
  <2>2. /\ Len(rout) > 0 /\ Len(rout) \in Nat
        /\ Tail(rout) \in Seq(Message) /\ Len(Tail(rout)) = Len(rout) - 1
        /\ \A i \in 1..Len(Tail(rout)) : Tail(rout)[i] = rout[i + 1] /\ i + 1 \in 1..Len(rout)
    BY <2>1
  <2>3. FlagTypes' /\ PlaceTypes' /\ NumberTypes' /\ DataTypes'
    BY <2>2, TypeParts DEF FlagTypes, PlaceTypes, NumberTypes, DataTypes
  <2>4. ModelCounted' /\ FlushQuiet'
    BY DEF ModelCounted, FlushQuiet, FlushJoined
  <2>5. FinalFromEnd'
    <3>1. ASSUME NEW i \in 1..Len(Tail(rout)), Tail(rout)[i].type = "final" PROVE FALSE
      BY <3>1, <2>2 DEF FinalFromEnd
    <3> QED
      BY <3>1 DEF FinalFromEnd
  <2>6. FinalThenClose'
    BY <2>1 DEF FinalThenClose
  <2> QED
    BY <2>3, <2>4, <2>5, <2>6, TypePartsNext
<1>2. CASE FlushDumpThrows
  <2> USE <1>2 DEF FlushDumpThrows
  <2>1. fout \in Seq(Message) /\ fout # <<>>
    BY TypeParts DEF DataTypes
  <2>2. /\ Len(fout) > 0 /\ Len(fout) \in Nat
        /\ Tail(fout) \in Seq(Message) /\ Len(Tail(fout)) = Len(fout) - 1
        /\ \A i \in 1..Len(Tail(fout)) : Tail(fout)[i] = fout[i + 1] /\ i + 1 \in 1..Len(fout)
    BY <2>1
  <2>3. FlagTypes' /\ PlaceTypes' /\ NumberTypes' /\ DataTypes'
    BY <2>2, TypeParts DEF FlagTypes, PlaceTypes, NumberTypes, DataTypes
  <2>4. ModelCounted' /\ FinalThenClose'
    BY DEF ModelCounted, FinalThenClose
  <2>5. FlushQuiet'
    BY <2>1 DEF FlushQuiet, FlushJoined
  <2>6. FinalFromEnd'
    BY <2>2 DEF FinalFromEnd
  <2> QED
    BY <2>3, <2>4, <2>5, <2>6, TypePartsNext
<1> QED
  BY <1>1, <1>2

\* The other steps of the receive thread that compute nothing.
LEMMA RecvStepInv ==
  ASSUME SessionInv,
         \/ Accept \/ AcquireModel \/ Configure \/ ConfigureThrows \/ RecvEnd \/ EndJoin
         \/ EndCloseStart \/ CloseReturns \/ ReleaseModel \/ DtorStop
  PROVE  SessionInv'
<1> USE DEF SessionInv, At, Goto, recvVars, flushVars, modelVars, audioVars, flowVars, textVars, idleVars, peerVars, boundVars
<1>1. CASE Accept
  <2> USE <1>1 DEF Accept
  <2>1. FlagTypes'
    BY Zenon, TypeParts DEF FlagTypes
  <2>2. PlaceTypes' /\ NumberTypes'
    BY TypeParts DEF PlaceTypes, RecvPcs, FlushPcs, NumberTypes
  <2>3. DataTypes'
    BY TypeParts DEF DataTypes
  <2>4. ModelCounted' /\ FlushQuiet'
    BY DEF ModelCounted, FlushQuiet, FlushJoined
  <2>5. FinalFromEnd' /\ FinalThenClose'
    BY DEF FinalFromEnd, FinalThenClose
  <2> QED
    BY <2>1, <2>2, <2>3, <2>4, <2>5, TypePartsNext
<1>2. CASE AcquireModel
  <2> USE <1>2 DEF AcquireModel
  <2>1. FlagTypes'
    BY TypeParts DEF FlagTypes
  <2>2. PlaceTypes' /\ NumberTypes'
    BY TypeParts, SMTT(30) DEF PlaceTypes, RecvPcs, FlushPcs, NumberTypes
  <2>3. DataTypes'
    BY TypeParts DEF DataTypes
  <2>4. ModelCounted' /\ FlushQuiet'
    BY TypeParts DEF NumberTypes, ModelCounted, FlushQuiet, FlushJoined
  <2>5. FinalFromEnd' /\ FinalThenClose'
    BY DEF FinalFromEnd, FinalThenClose
  <2> QED
    BY <2>1, <2>2, <2>3, <2>4, <2>5, TypePartsNext
<1>3. CASE Configure
  <2> USE <1>3 DEF Configure, StateLocked
  <2>m. Msg("ready") \in Message /\ Msg("ready").type = "ready"
    BY MessageTypes DEF MsgTypes
  <2>1. FlagTypes'
    BY Zenon, TypeParts DEF FlagTypes
  <2>2. PlaceTypes' /\ NumberTypes'
    BY TypeParts, SessionConstants DEF SessionConstants, PlaceTypes, RecvPcs, NumberTypes
  <2>3. DataTypes'
    BY <2>m, MessageTypes, TypeParts DEF DataTypes
  <2>4. ModelCounted' /\ FlushQuiet'
    BY DEF ModelCounted, FlushQuiet, FlushJoined
  <2>5. FinalFromEnd' /\ FinalThenClose'
    BY <2>m DEF FinalFromEnd, FinalThenClose
  <2> QED
    BY <2>1, <2>2, <2>3, <2>4, <2>5, TypePartsNext
<1>4. CASE ConfigureThrows
  <2> USE <1>4 DEF ConfigureThrows, StateLocked
  <2>m. Msg("error") \in Message /\ Msg("error").type = "error"
    BY MessageTypes DEF MsgTypes
  <2>1. FlagTypes'
    BY Zenon, TypeParts DEF FlagTypes
  <2>2. PlaceTypes' /\ NumberTypes'
    BY TypeParts DEF PlaceTypes, RecvPcs, FlushPcs, NumberTypes
  <2>3. DataTypes'
    BY <2>m, TypeParts DEF DataTypes
  <2>4. ModelCounted' /\ FlushQuiet'
    BY DEF ModelCounted, FlushQuiet, FlushJoined
  <2>5. FinalFromEnd' /\ FinalThenClose'
    BY <2>m DEF FinalFromEnd, FinalThenClose
  <2> QED
    BY <2>1, <2>2, <2>3, <2>4, <2>5, TypePartsNext
<1>5. CASE RecvEnd
  <2> USE <1>5 DEF RecvEnd, stopFlushLoop
  <2>1. FlagTypes'
    BY Zenon, TypeParts DEF FlagTypes
  <2>2. PlaceTypes' /\ NumberTypes'
    BY TypeParts DEF PlaceTypes, RecvPcs, FlushPcs, NumberTypes
  <2>3. DataTypes'
    BY TypeParts DEF DataTypes
  <2>4. ModelCounted' /\ FlushQuiet'
    BY DEF ModelCounted, FlushQuiet, FlushJoined
  <2>5. FinalFromEnd' /\ FinalThenClose'
    BY DEF FinalFromEnd, FinalThenClose
  <2> QED
    BY <2>1, <2>2, <2>3, <2>4, <2>5, TypePartsNext
<1>6. CASE EndJoin
  <2> USE <1>6 DEF EndJoin
  <2>1. FlagTypes'
    BY TypeParts DEF FlagTypes
  <2>2. PlaceTypes' /\ NumberTypes'
    BY TypeParts DEF PlaceTypes, RecvPcs, FlushPcs, NumberTypes
  <2>3. DataTypes'
    BY TypeParts DEF DataTypes
  <2>4. ModelCounted' /\ FlushQuiet'
    BY DEF ModelCounted, FlushQuiet, FlushJoined
  <2>5. FinalFromEnd' /\ FinalThenClose'
    BY DEF FinalFromEnd, FinalThenClose
  <2> QED
    BY <2>1, <2>2, <2>3, <2>4, <2>5, TypePartsNext
<1>7. CASE EndCloseStart
  <2> USE <1>7 DEF EndCloseStart
  <2>1. FlagTypes'
    BY TypeParts DEF FlagTypes
  <2>2. PlaceTypes' /\ NumberTypes'
    BY TypeParts DEF PlaceTypes, RecvPcs, FlushPcs, NumberTypes
  <2>3. DataTypes'
    BY TypeParts DEF DataTypes
  <2>4. ModelCounted' /\ FlushQuiet'
    BY DEF ModelCounted, FlushQuiet, FlushJoined
  <2>5. FinalFromEnd' /\ FinalThenClose'
    BY DEF FinalFromEnd, FinalThenClose
  <2> QED
    BY <2>1, <2>2, <2>3, <2>4, <2>5, TypePartsNext
<1>8. CASE CloseReturns
  <2> USE <1>8 DEF CloseReturns
  <2>1. FlagTypes'
    BY TypeParts DEF FlagTypes
  <2>2. PlaceTypes' /\ NumberTypes'
    BY TypeParts DEF PlaceTypes, RecvPcs, FlushPcs, NumberTypes
  <2>3. DataTypes'
    BY TypeParts DEF DataTypes
  <2>4. ModelCounted' /\ FlushQuiet'
    BY DEF ModelCounted, FlushQuiet, FlushJoined
  <2>5. FinalFromEnd' /\ FinalThenClose'
    BY DEF FinalFromEnd, FinalThenClose
  <2> QED
    BY <2>1, <2>2, <2>3, <2>4, <2>5, TypePartsNext
<1>9. CASE ReleaseModel
  <2> USE <1>9 DEF ReleaseModel, ReleasedEngine
  <2>1. FlagTypes'
    BY Zenon, TypeParts DEF FlagTypes
  <2>2. PlaceTypes' /\ NumberTypes'
    BY TypeParts, SMTT(30) DEF PlaceTypes, RecvPcs, ModelCounted, NumberTypes
  <2>3. DataTypes'
    BY TypeParts DEF DataTypes
  <2>4. ModelCounted' /\ FlushQuiet'
    BY TypeParts DEF NumberTypes, ModelCounted, FlushQuiet, FlushJoined
  <2>5. FinalFromEnd' /\ FinalThenClose'
    BY DEF FinalFromEnd, FinalThenClose
  <2> QED
    BY <2>1, <2>2, <2>3, <2>4, <2>5, TypePartsNext
<1>10. CASE DtorStop
  <2> USE <1>10 DEF DtorStop, stopFlushLoop
  <2>1. FlagTypes'
    BY Zenon, TypeParts DEF FlagTypes
  <2>2. PlaceTypes' /\ NumberTypes'
    BY TypeParts DEF PlaceTypes, RecvPcs, FlushPcs, NumberTypes
  <2>3. DataTypes'
    BY TypeParts DEF DataTypes
  <2>4. ModelCounted' /\ FlushQuiet'
    BY DEF ModelCounted, FlushQuiet, FlushJoined
  <2>5. FinalFromEnd' /\ FinalThenClose'
    BY DEF FinalFromEnd, FinalThenClose
  <2> QED
    BY <2>1, <2>2, <2>3, <2>4, <2>5, TypePartsNext
<1> QED
  BY <1>1, <1>2, <1>3, <1>4, <1>5, <1>6, <1>7, <1>8, <1>9, <1>10

\* A flush cycle begins, with or without an inference slot.
LEMMA FlushBeginInv ==
  ASSUME SessionInv, FlushBusy \/ FlushStart
  PROVE  SessionInv'
<1> USE DEF SessionInv, recvVars, flushVars, modelVars, audioVars, flowVars, textVars, idleVars, peerVars, boundVars
<1>1. CASE FlushBusy
  <2> USE <1>1 DEF FlushBusy, FlushBegins, Watchdog
  <2>m. Msg("busy") \in Message /\ Msg("busy").type = "busy"
    BY MessageTypes DEF MsgTypes
  <2>e. fout' = fout \/ fout' = <<Msg("busy")>>
    OBVIOUS
  <2>f. fout' \in Seq(Message)
    <3>1. fout \in Seq(Message) /\ <<>> \in Seq(Message) /\ <<Msg("busy")>> \in Seq(Message)
      BY <2>m, TypeParts DEF DataTypes
    <3> QED
      BY ONLY <2>e, <3>1
  <2>b. capacity_degraded' \in BOOLEAN /\ idle_shutdown_triggered' \in BOOLEAN
    BY Zenon
  <2>1. FlagTypes'
    BY SMT, TypeParts, <2>b DEF FlagTypes
  <2>2. PlaceTypes' /\ NumberTypes'
    BY TypeParts DEF PlaceTypes, RecvPcs, FlushPcs, NumberTypes
  <2>3. DataTypes'
    BY <2>f, TypeParts DEF DataTypes
  <2>4. ModelCounted' /\ FlushQuiet'
    BY DEF ModelCounted, FlushQuiet, FlushJoined
  <2>5. FinalFromEnd' /\ FinalThenClose'
    BY <2>m DEF FinalFromEnd, FinalThenClose
  <2> QED
    BY <2>1, <2>2, <2>3, <2>4, <2>5, TypePartsNext
<1>2. CASE FlushStart
  <2> USE <1>2 DEF FlushStart, FlushBegins, Watchdog, FlushSlot
  <2>m. Msg("ok") \in Message /\ Msg("ok").type = "ok"
    BY MessageTypes DEF MsgTypes
  <2>e. fout' = <<>> \/ fout' = <<Msg("ok")>>
    OBVIOUS
  <2>f. fout' \in Seq(Message)
    <3>1. fout \in Seq(Message) /\ <<>> \in Seq(Message) /\ <<Msg("ok")>> \in Seq(Message)
      BY <2>m, TypeParts DEF DataTypes
    <3> QED
      BY ONLY <2>e, <3>1
  <2>b. capacity_degraded' \in BOOLEAN /\ idle_shutdown_triggered' \in BOOLEAN
    BY Zenon
  <2>1. FlagTypes'
    BY SMT, TypeParts, <2>b DEF FlagTypes
  <2>2. PlaceTypes' /\ NumberTypes'
    BY TypeParts DEF PlaceTypes, RecvPcs, FlushPcs, NumberTypes
  <2>3. DataTypes'
    BY <2>f, TypeParts DEF DataTypes
  <2>4. ModelCounted' /\ FlushQuiet'
    BY DEF ModelCounted, FlushQuiet, FlushJoined
  <2>5. FinalFromEnd' /\ FinalThenClose'
    BY <2>m DEF FinalFromEnd, FinalThenClose
  <2> QED
    BY <2>1, <2>2, <2>3, <2>4, <2>5, TypePartsNext
<1> QED
  BY <1>1, <1>2

\* Messages other than the final transcription, and sequences of them.
NonFinal == {m \in Message : m.type # "final"}

LEMMA NonFinalSeq ==
  ASSUME NEW s \in Seq(NonFinal)
  PROVE  s \in Seq(Message) /\ \A i \in 1..Len(s) : s[i].type # "final"
<1>1. \A i \in 1..Len(s) : s[i] \in NonFinal
  OBVIOUS
<1>2. s \in Seq(Message)
  BY DEF NonFinal
<1> QED
  BY <1>1, <1>2 DEF NonFinal

\* The flow-control messages of both threads.
LEMMA FlowMessages ==
  ASSUME dropped_chunks \in Nat
  PROVE  PauseAndWarn \in Seq(NonFinal) /\ WarnAndResume \in Seq(NonFinal)
<1>1. /\ Msg("pause") \in NonFinal /\ Msg("resume") \in NonFinal
      /\ Warning(dropped_chunks) \in NonFinal /\ Warning(dropped_chunks + 1) \in NonFinal
  BY MessageTypes DEF NonFinal, MsgTypes
<1>2. /\ <<>> \in Seq(NonFinal) /\ <<Msg("pause")>> \in Seq(NonFinal) /\ <<Msg("resume")>> \in Seq(NonFinal)
      /\ <<Warning(dropped_chunks)>> \in Seq(NonFinal) /\ <<Warning(dropped_chunks + 1)>> \in Seq(NonFinal)
  BY <1>1
<1>3. ASSUME NEW s \in Seq(NonFinal), NEW t \in Seq(NonFinal) PROVE s \o t \in Seq(NonFinal)
  OBVIOUS
<1> QED
  BY <1>2, <1>3 DEF PauseAndWarn, WarnAndResume

\* An audio frame: the engine never holds more than its capacity.
LEMMA AudioInv ==
  ASSUME SessionInv, NEW n \in ChunkSizes, processAudioChunk(n)
  PROVE  SessionInv'
<1> USE DEF SessionInv, processAudioChunk, At, Goto, recvVars, flushVars, modelVars, audioVars, flowVars, textVars, idleVars, peerVars, boundVars
<1>1. n \in Nat /\ n > 0 /\ Cap \in Nat
  BY SessionConstants DEF SessionConstants
<1>2. buffer' \in 0..Cap /\ base' \in Nat /\ dropped_chunks' \in Nat
  BY <1>1, TypeParts, SMTT(30) DEF NumberTypes, EngineKeepsChunk
<1>3. PlaceTypes' /\ NumberTypes'
  BY <1>2, TypeParts DEF PlaceTypes, NumberTypes, RecvPcs
<1>4. buffer_overflowed' \in BOOLEAN
  BY Zenon
<1>5. FlagTypes'
  BY <1>4, TypeParts DEF FlagTypes
<1>6. PauseAndWarn \in Seq(NonFinal)
  BY FlowMessages, TypeParts DEF NumberTypes
<1>7. rout' \in Seq(NonFinal)
  <2>1. rout' = PauseAndWarn \/ rout' = <<>>
    OBVIOUS
  <2> QED
    BY <1>6, <2>1
<1>8. rout' \in Seq(Message) /\ \A i \in 1..Len(rout') : rout'[i].type # "final"
  BY <1>7, NonFinalSeq
<1>9. DataTypes'
  BY <1>8, TypeParts DEF DataTypes
<1>10. ModelCounted' /\ FlushQuiet' /\ FinalThenClose'
  BY DEF ModelCounted, FlushQuiet, FlushJoined, FinalThenClose
<1>11. FinalFromEnd'
  BY <1>8 DEF FinalFromEnd
<1> QED
  BY <1>3, <1>5, <1>9, <1>10, <1>11, TypePartsNext

\* The last inference: what is sent is one final transcription.
LEMMA EndTranscribeInv ==
  ASSUME SessionInv, EndTranscribe
  PROVE  SessionInv'
<1> USE DEF SessionInv, At, Goto, recvVars, flushVars, modelVars, audioVars, flowVars, textVars, idleVars, peerVars, boundVars
<1>1. PICK k \in {0, buffer} :
        /\ full_transcription' = FinalText(full_transcription \o Prefix(k))
        /\ buffer' = buffer - k /\ base' = base + k
  BY DEF EndTranscribe
<1>2. k \in Nat /\ buffer' \in 0..Cap /\ base' \in Nat
  BY <1>1, TypeParts, SessionConstants DEF NumberTypes, SessionConstants
<1>3. Prefix(k) \in Text
  BY <1>2, PrefixType, TypeParts DEF NumberTypes
<1>4. full_transcription \o Prefix(k) \in Text /\ raw_transcription \in Text
  BY <1>3, TypeParts DEF DataTypes, Text
<1>5. full_transcription' \in Text
  BY <1>1, <1>4 DEF FinalText
<1> DEFINE m == [Msg("final") EXCEPT !.text = full_transcription']
<1>6. m \in Message /\ m.type = "final"
  BY <1>5, MessageTypes DEF MsgTypes
<1>7. rpc' = "end_close" /\ rout' = <<m>>
  BY DEF EndTranscribe
<1> HIDE DEF m
<1> USE DEF EndTranscribe
<1>8. FlagTypes' /\ PlaceTypes' /\ NumberTypes'
  BY <1>2, <1>7, TypeParts DEF FlagTypes, PlaceTypes, NumberTypes, RecvPcs
<1>9. rout' \in Seq(Message)
  BY <1>6, <1>7
<1>10. DataTypes'
  BY <1>5, <1>9, TypeParts DEF DataTypes
<1>11. ModelCounted' /\ FlushQuiet'
  BY DEF ModelCounted, FlushQuiet, FlushJoined
<1>12. FinalFromEnd'
  BY <1>6, <1>7 DEF FinalFromEnd
<1>13. FinalThenClose'
  BY DEF FinalThenClose
<1> QED
  BY <1>8, <1>10, <1>11, <1>12, <1>13, TypePartsNext

\* A result of the engine is a result, and erases no more than the buffer.
LEMMA ResultTypes ==
  ASSUME SessionInv, NEW r \in Results
  PROVE  r \in Result /\ Erased(r) \in 0..buffer
<1>1. engine \in Nat /\ base \in Nat /\ buffer \in Nat
  BY TypeParts, SessionConstants DEF SessionInv, NumberTypes, SessionConstants
<1>2. CASE r \in {[NoResult EXCEPT !.partial_ok = p] : p \in BOOLEAN}
  <2>1. PICK p \in BOOLEAN : r = [NoResult EXCEPT !.partial_ok = p]
    BY <1>2
  <2>2. r = [committed |-> <<>>, committed_ok |-> FALSE, partial_ok |-> p]
    BY <2>1 DEF NoResult
  <2> QED
    BY <2>2, <1>1, MessageTypes DEF Result, Erased
<1>3. CASE \E k \in 1..buffer, ok \in BOOLEAN, p \in BOOLEAN :
             r = [committed |-> Prefix(k), committed_ok |-> ok, partial_ok |-> p]
  <2>1. PICK k \in 1..buffer, ok \in BOOLEAN, p \in BOOLEAN :
           r = [committed |-> Prefix(k), committed_ok |-> ok, partial_ok |-> p]
    BY <1>3
  <2>2. Prefix(k) \in Text /\ Len(Prefix(k)) = k
    BY <1>1, PrefixType
  <2> QED
    BY <2>1, <2>2, <1>1 DEF Result, Erased
<1>4. r \in {[NoResult EXCEPT !.partial_ok = p] : p \in BOOLEAN}
      \/ \E k \in 1..buffer, ok \in BOOLEAN, p \in BOOLEAN :
           r = [committed |-> Prefix(k), committed_ok |-> ok, partial_ok |-> p]
  BY DEF Results
<1> QED
  BY <1>2, <1>3, <1>4

\* What the end of a cycle makes of a result: typed texts, and at most a
\* partial transcription to send.
LEMMA ApplyTypes ==
  ASSUME SessionInv, NEW r \in Result, NEW size \in 0..Cap, Apply(r, size)
  PROVE  /\ full_transcription' \in Text /\ raw_transcription' \in Text
         /\ last_transcribed_size' \in 0..Cap /\ current_size' = 0 /\ res' \in Result
         /\ fpc' \in {"wait", "partial"} /\ fout' \in Seq(NonFinal)
         /\ fpc' = "wait" => fout' = <<>>
<1> USE DEF Apply
<1>1. r.committed \in Text
  BY DEF Result
<1>2. raw_transcription' \in Text
  BY <1>1, TypeParts DEF SessionInv, DataTypes, Text
<1>3. full_transcription \in Text /\ full_transcription \o r.committed \in Text
  BY <1>1, TypeParts DEF SessionInv, DataTypes, Text
<1>4. full_transcription' \in Text
  BY <1>3
<1>5. last_transcribed_size' \in 0..Cap
  BY TypeParts DEF SessionInv, NumberTypes, LastTranscribed
<1>6. [Msg("partial") EXCEPT !.text = full_transcription'] \in NonFinal
  BY <1>4, MessageTypes DEF NonFinal, MsgTypes
<1>7. /\ <<>> \in Seq(NonFinal)
      /\ <<[Msg("partial") EXCEPT !.text = full_transcription']>> \in Seq(NonFinal)
  BY <1>6
<1>8. fpc' \in {"wait", "partial"} /\ fout' \in Seq(NonFinal) /\ (fpc' = "wait" => fout' = <<>>)
  BY <1>7
<1> QED
  BY <1>2, <1>4, <1>5, <1>8, MessageTypes

\* The flush thread's inference, with or without the end of an episode.
LEMMA FlushInferInv ==
  ASSUME SessionInv, FlushInfer
  PROVE  SessionInv'
<1> USE DEF SessionInv, recvVars, flushVars, modelVars, audioVars, flowVars, textVars, idleVars, peerVars, boundVars
<1>1. PICK r \in Results :
        /\ buffer' = buffer - Erased(r) /\ base' = base + Erased(r)
        /\ IF buffer_overflowed /\ buffer' < LowWater
           THEN /\ fpc' = "resume" /\ fout' = WarnAndResume /\ res' = r
                /\ UNCHANGED <<current_size, last_transcribed_size, textVars>>
           ELSE Apply(r, buffer')
  BY DEF FlushInfer
<1>2. r \in Result /\ Erased(r) \in 0..buffer
  BY ResultTypes
<1>3. buffer' \in 0..Cap /\ base' \in Nat
  BY <1>1, <1>2, TypeParts, SessionConstants DEF NumberTypes, SessionConstants
<1>4. /\ full_transcription' \in Text /\ raw_transcription' \in Text
      /\ last_transcribed_size' \in 0..Cap /\ current_size' \in 0..Cap /\ res' \in Result
      /\ fpc' \in {"wait", "partial", "resume"} /\ fout' \in Seq(NonFinal)
      /\ fpc' = "wait" => fout' = <<>>
  <2>1. CASE buffer_overflowed /\ buffer' < LowWater
    <3>1. WarnAndResume \in Seq(NonFinal)
      BY FlowMessages, TypeParts DEF NumberTypes
    <3>2. /\ fpc' = "resume" /\ fout' = WarnAndResume /\ res' = r
          /\ UNCHANGED <<current_size, last_transcribed_size, full_transcription, raw_transcription>>
      BY <1>1, <2>1
    <3> QED
      BY <3>1, <3>2, <1>2, TypeParts DEF NumberTypes, DataTypes
  <2>2. CASE ~(buffer_overflowed /\ buffer' < LowWater)
    <3>1. Apply(r, buffer')
      BY <1>1, <2>2
    <3>2. current_size' = 0 /\ 0 \in 0..Cap
      BY <3>1, SessionConstants DEF SessionConstants, Apply
    <3> QED
      BY <3>1, <3>2, <1>2, <1>3, ApplyTypes
  <2> QED
    BY <2>1, <2>2
<1>5. fout' \in Seq(Message) /\ \A i \in 1..Len(fout') : fout'[i].type # "final"
  BY <1>4, NonFinalSeq
<1>6. FlagTypes' /\ PlaceTypes' /\ NumberTypes'
  BY <1>3, <1>4, TypeParts DEF FlushInfer, FlagTypes, PlaceTypes, NumberTypes, FlushPcs
<1>7. DataTypes'
  BY <1>4, <1>5, TypeParts DEF FlushInfer, DataTypes
<1>8. ModelCounted' /\ FlushQuiet' /\ FinalThenClose'
  BY <1>4 DEF FlushInfer, ModelCounted, FlushQuiet, FlushJoined, FinalThenClose
<1>9. FinalFromEnd'
  BY <1>5 DEF FlushInfer, FinalFromEnd
<1> QED
  BY <1>6, <1>7, <1>8, <1>9, TypePartsNext

\* The cycle goes on after "resume" was sent.
LEMMA FlushResumeInv ==
  ASSUME SessionInv, FlushResume
  PROVE  SessionInv'
<1> USE DEF SessionInv, FlushResume, recvVars, flushVars, modelVars, audioVars, flowVars, textVars, idleVars, peerVars, boundVars
<1>1. buffer \in 0..Cap /\ res \in Result
  BY TypeParts DEF NumberTypes, DataTypes
<1>2. /\ full_transcription' \in Text /\ raw_transcription' \in Text
      /\ last_transcribed_size' \in 0..Cap /\ current_size' = 0 /\ res' \in Result
      /\ fpc' \in {"wait", "partial"} /\ fout' \in Seq(NonFinal)
      /\ fpc' = "wait" => fout' = <<>>
  BY <1>1, ApplyTypes
<1>3. fout' \in Seq(Message) /\ \A i \in 1..Len(fout') : fout'[i].type # "final"
  BY <1>2, NonFinalSeq
<1>4. buffer_overflowed' \in BOOLEAN
  BY Zenon
<1>5. FlagTypes'
  BY <1>4, TypeParts DEF FlagTypes
<1>6. PlaceTypes' /\ NumberTypes'
  BY <1>2, TypeParts, SessionConstants DEF SessionConstants, PlaceTypes, NumberTypes, FlushPcs
<1>7. DataTypes'
  BY <1>2, <1>3, TypeParts DEF DataTypes
<1>8. ModelCounted' /\ FlushQuiet' /\ FinalThenClose'
  BY <1>2 DEF ModelCounted, FlushQuiet, FlushJoined, FinalThenClose
<1>9. FinalFromEnd'
  BY <1>3 DEF FinalFromEnd
<1> QED
  BY <1>5, <1>6, <1>7, <1>8, <1>9, TypePartsNext

\* Every step of both threads, of the peer and of time preserves the invariant.
LEMMA SessionStepInv == SessionInv /\ [Next]_vars => SessionInv'
<1> SUFFICES ASSUME SessionInv, [Next]_vars PROVE SessionInv'
  OBVIOUS
<1>1. ASSUME LeaveLoop \/ RecvThrows \/ RecvRefused \/ RecvTooMuch \/ RecvAudio
               \/ RecvConfigRefused \/ RecvConfig \/ ConfigThrows \/ EndThrows \/ DtorJoin
      PROVE  SessionInv'
  <2>1. frames' \in Nat /\ configs' \in Nat
    BY <1>1, TypeParts, SMTT(30) DEF SessionInv, NumberTypes, LeaveLoop, RecvThrows, RecvRefused, RecvTooMuch,
       RecvAudio, RecvConfigRefused, RecvConfig, ConfigThrows, EndThrows, DtorJoin, boundVars
  <2>2. /\ \E p \in {"exit", "read", "close", "audio", "acquire", "done"},
              ms \in {<<>>, <<Msg("error")>>} : Goto(p, ms)
        /\ rpc \notin {"end_close", "end_closing"}
    BY <1>1 DEF LeaveLoop, RecvThrows, RecvRefused, RecvTooMuch, RecvAudio, RecvConfigRefused,
                RecvConfig, ConfigThrows, EndThrows, DtorJoin, At
  <2>3. UNCHANGED <<flushVars, writer, flush_running, modelVars, audioVars, flowVars,
                    capacity_degraded, textVars, idleVars, sock, peerVars, crashed>>
    BY <1>1 DEF LeaveLoop, RecvThrows, RecvRefused, RecvTooMuch, RecvAudio, RecvConfigRefused,
                RecvConfig, ConfigThrows, EndThrows, DtorJoin
  <2> QED
    BY <2>1, <2>2, <2>3, GotoInv DEF RecvPcs
<1>2. ASSUME FlushExit \/ FlushRelock \/ FlushCycleEnd PROVE SessionInv'
  <2>1. fpc' \in FlushPcs /\ ~FlushJoined /\ fout = <<>>
    BY <1>2 DEF FlushExit, FlushRelock, FlushCycleEnd, FlushPcs, FlushJoined, SessionInv, FlushQuiet
  <2> QED
    BY <1>2, <2>1, FlushMoveInv DEF FlushExit, FlushRelock, FlushCycleEnd
<1>3. ASSUME RecvWriteStart \/ FlushWriteStart \/ FlushIdle \/ FlushNullEngine \/ FlushThrows \/ Tick
               \/ PeerToggles \/ SocketDies
      PROVE  SessionInv'
  <2>1. TypeOK
    BY DEF SessionInv
  <2>2. idle_shutdown_triggered' \in BOOLEAN
    <3>1. ASSUME FlushIdle PROVE idle_shutdown_triggered' \in BOOLEAN
      BY <3>1, Zenon DEF FlushIdle, FlushBegins, Watchdog
    <3> QED
      BY <1>3, <2>1, <3>1 DEF RecvWriteStart, FlushWriteStart, FlushNullEngine, FlushThrows, Tick,
                              PeerToggles, SocketDies, TypeOK, idleVars
  <2>3. quiet' \in Nat /\ sock' \in {sock, "dead"} /\ peer' \in {"reading", "stalled"}
    BY <1>3, <2>1 DEF RecvWriteStart, FlushWriteStart, FlushIdle, FlushBegins, Watchdog,
                      FlushNullEngine, FlushThrows, Tick, PeerToggles, SocketDies, TypeOK, idleVars,
                      peerVars
  <2>4. crashed' \in {"no", "null_engine", "exception"} /\ writer' \in {"none", "recv", "flush"}
    BY <1>3, <2>1 DEF RecvWriteStart, FlushWriteStart, FlushIdle, FlushNullEngine, FlushThrows, Tick,
                      PeerToggles, SocketDies, TypeOK
  <2>5. UNCHANGED <<recvVars, flushVars, flush_running, modelVars, audioVars, flowVars,
                    capacity_degraded, textVars, client, boundVars>>
    BY <1>3 DEF RecvWriteStart, FlushWriteStart, FlushIdle, FlushNullEngine, FlushThrows, Tick,
                PeerToggles, SocketDies, peerVars
  <2> QED
    BY <2>2, <2>3, <2>4, <2>5, AmbientInv
<1>4. ASSUME Accept \/ AcquireModel \/ Configure \/ ConfigureThrows \/ RecvEnd \/ EndJoin
               \/ EndCloseStart \/ CloseReturns \/ ReleaseModel \/ DtorStop
      PROVE  SessionInv'
  BY <1>4, RecvStepInv
<1>5. ASSUME RecvWriteEnd PROVE SessionInv'
  BY <1>5, RecvWriteEndInv
<1>6. ASSUME FlushWriteEnd PROVE SessionInv'
  BY <1>6, FlushWriteEndInv
<1>7. ASSUME NEW n \in ChunkSizes, processAudioChunk(n) PROVE SessionInv'
  BY <1>7, AudioInv
<1>8. ASSUME EndTranscribe PROVE SessionInv'
  BY <1>8, EndTranscribeInv
<1>9. ASSUME FlushBusy \/ FlushStart PROVE SessionInv'
  BY <1>9, FlushBeginInv
<1>10. ASSUME FlushInfer PROVE SessionInv'
  BY <1>10, FlushInferInv
<1>11. ASSUME FlushResume PROVE SessionInv'
  BY <1>11, FlushResumeInv
<1>12. ASSUME UNCHANGED vars PROVE SessionInv'
  <2>1. TypeOK /\ UNCHANGED <<recvVars, flushVars, flush_running, modelVars, audioVars, flowVars,
                    capacity_degraded, textVars, client, boundVars>>
    BY <1>12 DEF vars, peerVars, SessionInv
  <2>2. UNCHANGED <<quiet, idle_shutdown_triggered, sock, peer, crashed, writer>>
    BY <1>12 DEF vars, peerVars, idleVars
  <2> QED
    BY <2>1, <2>2, AmbientInv DEF TypeOK
<1>13. ASSUME RecvDumpThrows \/ FlushDumpThrows PROVE SessionInv'
  BY <1>13, DumpThrowsInv
<1> QED
  BY <1>1, <1>2, <1>3, <1>4, <1>5, <1>6, <1>7, <1>8, <1>9, <1>10, <1>11, <1>12, <1>13
     DEF Next, RecvStep, FlushStep, PeerStep, Terminated, CloseAnswered, CloseFails

\* The inductive invariant, its types included, holds in every reachable state.
THEOREM SessionSafe == Spec => []SessionInv
<1> QED
  BY SessionInitInv, SessionStepInv, PTL DEF Spec

\* The engine never outlives the model reference it computes with, however
\* many configurations the peer sends and whichever of them fail.
THEOREM EngineHasModel == Spec => []EngineBacked
<1>1. SessionInv => EngineBacked
  BY DEF SessionInv, ModelCounted, EngineBacked
<1> QED
  BY <1>1, SessionSafe, PTL

\* Only ws_.write() tells the peer anything.
LEMMA ClientKept ==
  ASSUME [Next]_vars, ~RecvWriteEnd, ~FlushWriteEnd
  PROVE  client' = client
<1>1. CASE RecvStep
  BY <1>1 DEF RecvStep, RecvDumpThrows, RecvWriteStart, Accept, LeaveLoop, processAudioChunk, AcquireModel,
              ConfigThrows, Configure, ConfigureThrows, EndJoin, EndTranscribe, EndThrows,
              EndCloseStart, CloseFails, CloseReturns, ReleaseModel, DtorStop, DtorJoin, peerVars
<1>2. CASE FlushStep \/ FlushStart
  BY <1>2 DEF FlushStep, FlushStart, FlushDumpThrows, FlushWriteStart, FlushExit, FlushIdle, FlushBusy, FlushRelock,
              FlushInfer, FlushResume, FlushCycleEnd, FlushNullEngine, FlushThrows, peerVars
<1>3. CASE PeerStep \/ Tick
  BY <1>3 DEF PeerStep, RecvThrows, RecvRefused, RecvTooMuch, RecvAudio, RecvConfigRefused,
              RecvConfig, RecvEnd, CloseAnswered, CloseReturns, PeerToggles, SocketDies, Tick, peerVars
<1>4. CASE UNCHANGED vars
  BY <1>4 DEF vars, peerVars
<1> QED
  BY <1>1, <1>2, <1>3, <1>4 DEF Next, Terminated

\* Nothing reaches the peer after the final transcription, in any interleaving
\* of the receive and the flush thread.
THEOREM FinalTranscriptionIsLast == Spec => FinalIsLast
<1>1. SessionInv /\ [Next]_vars => [client.final => client' = client]_vars
  <2> SUFFICES ASSUME SessionInv, Next, client.final PROVE client' = client
    OBVIOUS
  <2> USE DEF SessionInv
  <2>1. ASSUME RecvWriteEnd PROVE client' = client
    <3>1. rout # <<>> /\ WriteReturns(Head(rout))
      BY <2>1 DEF RecvWriteEnd
    <3>2. sock = "dead"
      BY <3>1 DEF FinalThenClose
    <3> QED
      BY <3>1, <3>2 DEF WriteReturns
  <2>2. ASSUME FlushWriteEnd PROVE client' = client
    <3>1. fout # <<>> /\ WriteReturns(Head(fout))
      BY <2>2 DEF FlushWriteEnd
    <3>2. sock = "dead"
      BY <3>1 DEF FinalThenClose, FlushQuiet, FlushJoined
    <3> QED
      BY <3>1, <3>2 DEF WriteReturns
  <2> QED
    BY <2>1, <2>2, ClientKept
<1> QED
  BY <1>1, SessionSafe, PTL DEF Spec, FinalIsLast

(***************************************************************************)
(* A session that configures at most once: references and messages.        *)
(***************************************************************************)
\* Configurations are only counted up.
LEMMA ConfigsGrow ==
  ASSUME SessionInv, [Next]_vars
  PROVE  configs \in Nat /\ (configs' = configs \/ (RecvConfig /\ configs' = configs + 1))
<1> USE DEF recvVars, flushVars, modelVars, audioVars, flowVars, textVars, idleVars, peerVars, boundVars
<1>1. configs \in Nat
  BY DEF SessionInv, TypeOK
<1>2. CASE RecvStep
  BY <1>1, <1>2 DEF RecvStep, RecvDumpThrows, RecvWriteStart, RecvWriteEnd, Accept, LeaveLoop, processAudioChunk,
              AcquireModel, ConfigThrows, Configure, ConfigureThrows, EndJoin, EndTranscribe,
              EndThrows, EndCloseStart, CloseFails, CloseReturns, ReleaseModel, DtorStop, DtorJoin
<1>3. CASE FlushStep \/ FlushStart
  BY <1>1, <1>3 DEF FlushStep, FlushStart, FlushDumpThrows, FlushWriteStart, FlushWriteEnd, FlushExit, FlushIdle, FlushBusy,
              FlushRelock, FlushInfer, FlushResume, FlushCycleEnd, FlushNullEngine, FlushThrows
<1>4. CASE PeerStep \/ Tick
  BY <1>1, <1>4 DEF PeerStep, RecvThrows, RecvRefused, RecvTooMuch, RecvAudio, RecvConfigRefused,
              RecvConfig, RecvEnd, CloseAnswered, CloseReturns, PeerToggles, SocketDies, Tick
<1>5. CASE UNCHANGED vars
  BY <1>1, <1>5 DEF vars
<1> QED
  BY <1>1, <1>2, <1>3, <1>4, <1>5 DEF Next, Terminated

\* The reference is counted exactly: handleConfig() takes it, releaseModel()
\* gives it back, and no other step has anything to do with it.
LEMMA RefsExactStep ==
  ASSUME SessionInv, RefsExact, [Next]_vars, configs' <= 1
  PROVE  RefsExact'
<1> USE DEF RefsExact, At, Goto, recvVars, flushVars, modelVars, audioVars, flowVars, textVars, idleVars, peerVars, boundVars
<1>1. /\ model_refs \in Nat /\ configs \in Nat
      /\ model_acquired \in BOOLEAN /\ configured \in BOOLEAN
  BY DEF SessionInv, TypeOK
<1>2. CASE RecvConfig
  BY <1>1, <1>2 DEF RecvConfig
<1>3. CASE AcquireModel
  BY <1>1, <1>3 DEF AcquireModel
<1>4. CASE Configure \/ ConfigureThrows
  BY <1>1, <1>4 DEF Configure, ConfigureThrows
<1>5. CASE ReleaseModel
  BY <1>1, <1>5 DEF ReleaseModel
<1>6. ASSUME UNCHANGED <<modelVars, configs>>,
             rpc # "configure", rpc' \notin {"acquire", "configure"},
             rpc' \in {"dtor", "dtor_join", "done"} => rpc \in {"dtor", "dtor_join"}
      PROVE  RefsExact'
  BY <1>6
<1>7. ASSUME UNCHANGED <<modelVars, configs, rpc>>
      PROVE  RefsExact'
  BY <1>7
<1>8. CASE Accept \/ LeaveLoop \/ (\E n \in ChunkSizes : processAudioChunk(n)) \/ ConfigThrows
             \/ EndJoin \/ EndTranscribe \/ EndThrows \/ EndCloseStart \/ CloseReturns
             \/ DtorStop \/ DtorJoin
  BY <1>6, <1>8 DEF Accept, LeaveLoop, processAudioChunk, ConfigThrows, EndJoin, EndTranscribe,
              EndThrows, EndCloseStart, CloseReturns, DtorStop, DtorJoin
<1>9. CASE RecvThrows \/ RecvRefused \/ RecvTooMuch \/ RecvAudio \/ RecvConfigRefused \/ RecvEnd
  BY <1>6, <1>9 DEF RecvThrows, RecvRefused, RecvTooMuch, RecvAudio, RecvConfigRefused, RecvEnd
<1>10. CASE FlushStep \/ FlushStart
  BY <1>7, <1>10 DEF FlushStep, FlushStart, FlushDumpThrows, FlushWriteStart, FlushWriteEnd, FlushExit, FlushIdle,
              FlushBusy, FlushRelock, FlushInfer, FlushResume, FlushCycleEnd, FlushNullEngine,
              FlushThrows
<1>11. CASE RecvDumpThrows \/ RecvWriteStart \/ RecvWriteEnd \/ PeerToggles \/ SocketDies \/ Tick \/ UNCHANGED vars
  BY <1>7, <1>11 DEF RecvDumpThrows, RecvWriteStart, RecvWriteEnd, PeerToggles, SocketDies, Tick, vars
<1> QED
  BY <1>2, <1>3, <1>4, <1>5, <1>8, <1>9, <1>10, <1>11
     DEF Next, RecvStep, PeerStep, Terminated, CloseAnswered, CloseFails

\* Before Configure the flush thread does nothing and no text exists.
LEMMA UnconfiguredIdleStep ==
  ASSUME SessionInv, UnconfiguredIdle, [Next]_vars
  PROVE  UnconfiguredIdle'
<1> USE DEF UnconfiguredIdle, At, Goto, recvVars, flushVars, modelVars, audioVars, flowVars, textVars, idleVars, peerVars, boundVars
<1>1. CASE Configure
  BY <1>1 DEF Configure
<1>2. CASE RecvEnd \/ EndJoin \/ EndTranscribe \/ RecvAudio
  BY <1>2 DEF RecvEnd, EndJoin, EndTranscribe, RecvAudio
<1>3. CASE FlushBusy \/ FlushStart
  BY <1>3 DEF FlushBusy, FlushStart, FlushBegins, WantInference
<1>4. CASE FlushInfer \/ FlushResume \/ FlushRelock \/ FlushCycleEnd
  BY <1>4 DEF FlushInfer, FlushResume, FlushRelock, FlushCycleEnd
<1>5. ASSUME UNCHANGED <<configured, capacity_degraded, textVars>>, engine' \in {engine, 0},
             fpc' \in {fpc, "wait", "exited"}, rpc' \notin {"audio", "end_join", "end"} \/ rpc' = rpc
      PROVE  UnconfiguredIdle'
  BY <1>5
<1>6. CASE Accept \/ LeaveLoop \/ (\E n \in ChunkSizes : processAudioChunk(n)) \/ ConfigThrows
             \/ EndThrows \/ EndCloseStart \/ CloseReturns \/ DtorStop \/ DtorJoin
  BY <1>5, <1>6 DEF Accept, LeaveLoop, processAudioChunk, ConfigThrows, EndThrows, EndCloseStart,
                    CloseReturns, DtorStop, DtorJoin
<1>7. CASE AcquireModel \/ ConfigureThrows \/ ReleaseModel
  BY <1>5, <1>7 DEF AcquireModel, ConfigureThrows, ReleaseModel, ReleasedEngine
<1>8. CASE RecvThrows \/ RecvRefused \/ RecvTooMuch \/ RecvConfigRefused \/ RecvConfig
  BY <1>5, <1>8 DEF RecvThrows, RecvRefused, RecvTooMuch, RecvConfigRefused, RecvConfig
<1>9. CASE FlushDumpThrows \/ FlushWriteStart \/ FlushWriteEnd \/ FlushExit \/ FlushIdle \/ FlushNullEngine \/ FlushThrows
  BY <1>5, <1>9 DEF FlushDumpThrows, FlushWriteStart, FlushWriteEnd, FlushExit, FlushIdle, FlushNullEngine, FlushThrows
<1>10. CASE RecvDumpThrows \/ RecvWriteStart \/ RecvWriteEnd \/ PeerToggles \/ SocketDies \/ Tick \/ UNCHANGED vars
  BY <1>5, <1>10 DEF RecvDumpThrows, RecvWriteStart, RecvWriteEnd, PeerToggles, SocketDies, Tick, vars
<1> QED
  BY <1>1, <1>2, <1>3, <1>4, <1>6, <1>7, <1>8, <1>9, <1>10
     DEF Next, RecvStep, FlushStep, PeerStep, Terminated, CloseAnswered, CloseFails

\* What flow control sends: "pause" and warnings from the receive thread,
\* warnings and "resume" from the flush thread.
LEMMA FlowTypes ==
  ASSUME dropped_chunks \in Nat
  PROVE  /\ \A i \in 1..Len(PauseAndWarn) : PauseAndWarn[i].type \in {"pause", "warning"}
         /\ \A i \in 1..Len(WarnAndResume) : WarnAndResume[i].type \in {"warning", "resume"}
<1> DEFINE S == {m \in Message : m.type \in {"pause", "warning"}}
           T == {m \in Message : m.type \in {"warning", "resume"}}
<1>1. /\ Msg("pause") \in S /\ Msg("resume") \in T
      /\ Warning(dropped_chunks + 1) \in S /\ Warning(dropped_chunks) \in T
  BY MessageTypes DEF MsgTypes
<1>2. /\ \A m \in S : <<m>> \in Seq(S)
      /\ \A m \in T : <<m>> \in Seq(T)
      /\ <<>> \in Seq(S) /\ <<>> \in Seq(T)
  <2> HIDE DEF S, T
  <2> QED
    OBVIOUS
<1>3. PauseAndWarn \in Seq(S) /\ WarnAndResume \in Seq(T)
  <2>1. <<Msg("pause")>> \in Seq(S) /\ <<Msg("resume")>> \in Seq(T)
        /\ <<Warning(dropped_chunks + 1)>> \in Seq(S) /\ <<Warning(dropped_chunks)>> \in Seq(T)
    BY <1>1, <1>2
  <2> HIDE DEF S, T
  <2> QED
    BY <1>2, <2>1 DEF PauseAndWarn, WarnAndResume
<1>4. (\A i \in 1..Len(PauseAndWarn) : PauseAndWarn[i] \in S)
      /\ \A i \in 1..Len(WarnAndResume) : WarnAndResume[i] \in T
  <2> HIDE DEF S, T
  <2> QED
    BY <1>3
<1> QED
  BY <1>4

\* The elements of a queue once its head has left.
LEMMA TailElements ==
  ASSUME NEW q \in Seq(Message), q # <<>>
  PROVE  /\ Head(q) = q[1] /\ 1 \in 1..Len(q) /\ Head(q) \in Message
         /\ \A i \in 1..Len(Tail(q)) : i + 1 \in 1..Len(q) /\ Tail(q)[i] = q[i + 1]
  OBVIOUS

\* What the peer's record says of "busy" and of the text after a message.
LEMMA ToldParts ==
  ASSUME client \in ClientType, NEW m \in Message
  PROVE  /\ m.type \notin {"busy", "ok"} => Told(m).busy = client.busy
         /\ m.type = "busy" => Told(m).busy
         /\ m.type = "ok" => ~Told(m).busy
         /\ m.type \notin {"partial", "final"} => Told(m).text = client.text
         /\ m.type \in {"partial", "final"} => Told(m).text = m.text
<1> USE DEF ClientType
<1>1. m.type \in MsgTypes
  BY DEF Message
<1>2. CASE m.type = "pause"
  BY <1>2 DEF Told
<1>3. CASE m.type = "resume"
  BY <1>3 DEF Told
<1>4. CASE m.type = "busy"
  BY <1>4 DEF Told
<1>5. CASE m.type = "ok"
  BY <1>5 DEF Told
<1>6. CASE m.type = "warning"
  BY <1>6 DEF Told
<1>7. CASE m.type = "partial"
  BY <1>7 DEF Told
<1>8. CASE m.type = "final"
  BY <1>8 DEF Told
<1>9. CASE m.type \in {"error", "ready"}
  BY <1>9 DEF Told
<1> QED
  BY <1>1, <1>2, <1>3, <1>4, <1>5, <1>6, <1>7, <1>8, <1>9 DEF MsgTypes

\* The end of a cycle leaves a partial transcription to send, or nothing.
LEMMA ApplySends ==
  ASSUME SessionInv, NEW r \in Result, NEW size, Apply(r, size)
  PROVE  /\ fpc' \in {"wait", "partial"}
         /\ \A i \in 1..Len(fout') : /\ fpc' = "partial" /\ fout'[i].type = "partial"
                                     /\ fout'[i].text = full_transcription'
<1> DEFINE m == [Msg("partial") EXCEPT !.text = full_transcription']
<1>1. \/ fpc' = "partial" /\ fout' = <<m>>
      \/ fpc' = "wait" /\ fout' = <<>>
  BY DEF Apply
<1>2. m.type = "partial" /\ m.text = full_transcription'
  BY DEF Msg
<1> HIDE DEF m
<1> QED
  BY <1>1, <1>2

\* Each thread has only the messages of its place to send.
LEMMA MessagesByPlaceStep ==
  ASSUME SessionInv, MessagesByPlace, [Next]_vars
  PROVE  MessagesByPlace'
<1> DEFINE R == \A i \in 1..Len(rout) : rout[i].type \notin {"busy", "ok", "partial"}
           F == \A i \in 1..Len(fout) : \/ fpc = "busy" /\ fout[i].type = "busy"
                                        \/ fpc = "ok" /\ fout[i].type = "ok"
                                        \/ fpc = "resume" /\ fout[i].type \in {"warning", "resume"}
                                        \/ fpc = "partial" /\ fout[i].type = "partial"
<1> USE DEF At, Goto, recvVars, flushVars, modelVars, audioVars, flowVars, textVars, idleVars, peerVars, boundVars
<1>1. R /\ F
  BY DEF MessagesByPlace
<1>2. rout \in Seq(Message) /\ fout \in Seq(Message) /\ dropped_chunks \in Nat /\ res \in Result
  BY DEF SessionInv, TypeOK
<1>3. ASSUME UNCHANGED rout \/ rout' = <<>> \/ rout' = <<Msg("error")>> \/ rout' = <<Msg("ready")>>
      PROVE  R'
  <2>1. Msg("error").type = "error" /\ Msg("ready").type = "ready"
    BY DEF Msg
  <2> QED
    BY <1>1, <1>3, <2>1
<1>4. ASSUME UNCHANGED <<fpc, fout>> \/ fout' = <<>>
      PROVE  F'
  BY <1>1, <1>4
<1>5. CASE \/ Accept \/ LeaveLoop \/ AcquireModel \/ ConfigThrows \/ Configure
           \/ ConfigureThrows \/ EndJoin \/ EndThrows \/ EndCloseStart \/ CloseReturns \/ ReleaseModel
           \/ DtorStop \/ DtorJoin
  <2>1. fpc = "off" => fout = <<>>
    BY DEF SessionInv, FlushQuiet
  <2>2. Accept => fout' = <<>>
    BY <2>1 DEF Accept, SessionInv, FlushQuiet, FlushJoined
  <2>3. R'
    BY <1>3, <1>5 DEF Accept, LeaveLoop, AcquireModel, ConfigThrows, Configure, ConfigureThrows,
                EndJoin, EndThrows, EndCloseStart, CloseReturns, ReleaseModel, DtorStop, DtorJoin
  <2>4. F'
    BY <1>4, <1>5, <2>2 DEF LeaveLoop, AcquireModel, ConfigThrows, Configure, ConfigureThrows,
                EndJoin, EndThrows, EndCloseStart, CloseReturns, ReleaseModel, DtorStop, DtorJoin
  <2> QED
    BY <2>3, <2>4 DEF MessagesByPlace
<1>6. CASE RecvThrows \/ RecvRefused \/ RecvTooMuch \/ RecvAudio \/ RecvConfigRefused \/ RecvConfig
             \/ RecvEnd
  <2>1. R' /\ F'
    BY <1>3, <1>4, <1>6 DEF RecvThrows, RecvRefused, RecvTooMuch, RecvAudio, RecvConfigRefused,
                            RecvConfig, RecvEnd
  <2> QED
    BY <2>1 DEF MessagesByPlace
<1>7. CASE \E n \in ChunkSizes : processAudioChunk(n)
  <2>1. F' /\ (rout' = PauseAndWarn \/ rout' = <<>>)
    BY <1>4, <1>7 DEF processAudioChunk
  <2>2. R'
    BY <1>2, <2>1, FlowTypes
  <2> QED
    BY <2>1, <2>2 DEF MessagesByPlace
<1>8. CASE EndTranscribe
  <2> DEFINE m == [Msg("final") EXCEPT !.text = full_transcription']
  <2>1. F' /\ rout' = <<m>>
    BY <1>4, <1>8 DEF EndTranscribe
  <2>2. m.type = "final"
    BY DEF Msg
  <2> HIDE DEF m
  <2>3. R'
    BY <2>1, <2>2
  <2> QED
    BY <2>1, <2>3 DEF MessagesByPlace
<1>9. CASE RecvWriteEnd \/ RecvDumpThrows
  <2>1. F' /\ rout # <<>> /\ rout' = Tail(rout)
    BY <1>4, <1>9 DEF RecvWriteEnd, RecvDumpThrows
  <2>2. R'
    BY <1>1, <1>2, <2>1, TailElements
  <2> QED
    BY <2>1, <2>2 DEF MessagesByPlace
<1>10. CASE FlushWriteEnd \/ FlushDumpThrows
  <2>1. R' /\ fout # <<>> /\ fout' = Tail(fout) /\ fpc' = fpc
    BY <1>3, <1>10 DEF FlushWriteEnd, FlushDumpThrows
  <2>2. F'
    BY <1>1, <1>2, <2>1, TailElements
  <2> QED
    BY <2>1, <2>2 DEF MessagesByPlace
<1>11. CASE FlushBusy \/ FlushStart
  <2>1. Msg("busy").type = "busy" /\ Msg("ok").type = "ok"
    BY DEF Msg
  <2>2. R' /\ (\/ UNCHANGED <<fpc, fout>> \/ fout' = <<>>
               \/ fpc' = "busy" /\ fout' = <<Msg("busy")>>
               \/ fpc' = "ok" /\ fout' = <<Msg("ok")>>)
    BY <1>3, <1>11 DEF FlushBusy, FlushStart, FlushSlot
  <2>3. F'
    BY <1>4, <2>1, <2>2
  <2> QED
    BY <2>2, <2>3 DEF MessagesByPlace
<1>12. CASE FlushInfer
  <2>1. R'
    BY <1>3, <1>12 DEF FlushInfer
  <2>2. PICK r \in Results : (fpc' = "resume" /\ fout' = WarnAndResume) \/ Apply(r, buffer')
    BY <1>12 DEF FlushInfer
  <2>3. r \in Result
    BY ResultTypes
  <2>4. F'
    BY <1>2, <2>2, <2>3, FlowTypes, ApplySends
  <2> QED
    BY <2>1, <2>4 DEF MessagesByPlace
<1>13. CASE FlushResume
  <2>1. R' /\ Apply(res, buffer)
    BY <1>3, <1>13 DEF FlushResume
  <2>2. F'
    BY <1>2, <2>1, ApplySends
  <2> QED
    BY <2>1, <2>2 DEF MessagesByPlace
<1>14. CASE FlushWriteStart \/ FlushExit \/ FlushIdle \/ FlushRelock \/ FlushCycleEnd
              \/ FlushNullEngine \/ FlushThrows
  <2>1. fpc = "wait" => fout = <<>>
    BY DEF SessionInv, FlushQuiet
  <2>2. R' /\ F'
    BY <1>3, <1>4, <1>14, <2>1 DEF FlushWriteStart, FlushExit, FlushIdle, FlushRelock,
                                   FlushCycleEnd, FlushNullEngine, FlushThrows
  <2> QED
    BY <2>2 DEF MessagesByPlace
<1>15. CASE RecvWriteStart \/ PeerToggles \/ SocketDies \/ Tick \/ UNCHANGED vars
  <2>1. R' /\ F'
    BY <1>3, <1>4, <1>15 DEF RecvWriteStart, PeerToggles, SocketDies, Tick, vars
  <2> QED
    BY <2>1 DEF MessagesByPlace
<1> QED
  BY <1>5, <1>6, <1>7, <1>8, <1>9, <1>10, <1>11, <1>12, <1>13, <1>14, <1>15
     DEF Next, RecvStep, FlushStep, PeerStep, Terminated, CloseAnswered, CloseFails

\* The peer hears of "busy" and "ok" in the order in which they happen.
LEMMA BusyToldStep ==
  ASSUME SessionInv, RefsExact, UnconfiguredIdle, MessagesByPlace, BusyTold, [Next]_vars
  PROVE  BusyTold'
<1> USE DEF At, Goto, recvVars, flushVars, modelVars, audioVars, flowVars, textVars, idleVars, peerVars, boundVars
<1>1. /\ rout \in Seq(Message) /\ fout \in Seq(Message) /\ client \in ClientType
      /\ capacity_degraded \in BOOLEAN /\ sock \in {"open", "dead"}
  BY DEF SessionInv, TypeOK, ClientType
<1>2. client.busy \in BOOLEAN
  BY <1>1 DEF ClientType
<1>3. ASSUME sock' \in {sock, "dead"}, UNCHANGED <<fpc, fout, client, capacity_degraded>>
      PROVE  BusyTold'
  BY <1>3 DEF BusyTold
<1>4. CASE Configure
  <2>1. ~configured
    BY <1>4 DEF Configure, RefsExact
  <2>2. ~capacity_degraded /\ fpc \in {"off", "wait", "exited"}
    BY <2>1 DEF UnconfiguredIdle
  <2>3. UNCHANGED <<sock, fpc, fout, client>> /\ capacity_degraded' = FALSE
    BY <1>4 DEF Configure
  <2> QED
    BY <1>1, <2>2, <2>3 DEF BusyTold
<1>5. CASE RecvWriteEnd
  <2>1. rout # <<>> /\ WriteReturns(Head(rout)) /\ UNCHANGED <<sock, fpc, fout, capacity_degraded>>
    BY <1>5 DEF RecvWriteEnd
  <2>2. Head(rout) \in Message /\ Head(rout).type \notin {"busy", "ok"}
    BY <1>1, <2>1, TailElements DEF MessagesByPlace
  <2>3. sock = "open" => client'.busy = client.busy
    BY <1>1, <2>1, <2>2, ToldParts DEF WriteReturns
  <2> QED
    BY <2>1, <2>3 DEF BusyTold
<1>6. CASE FlushWriteEnd
  <2>1. fout # <<>> /\ WriteReturns(Head(fout)) /\ UNCHANGED <<sock, fpc, capacity_degraded>>
    BY <1>6 DEF FlushWriteEnd
  <2>2. /\ Head(fout) \in Message
        /\ \/ fpc = "busy" /\ Head(fout).type = "busy"
           \/ fpc = "ok" /\ Head(fout).type = "ok"
           \/ fpc \notin {"busy", "ok"} /\ Head(fout).type \notin {"busy", "ok"}
    BY <1>1, <2>1, TailElements DEF MessagesByPlace
  <2>3. sock = "open" => client' = Told(Head(fout))
    BY <2>1 DEF WriteReturns
  <2>4. CASE fpc = "busy"
    <3>1. sock = "open" => client'.busy
      BY <1>1, <2>2, <2>3, <2>4, ToldParts
    <3> QED
      BY <2>1, <2>4, <3>1 DEF BusyTold
  <2>5. CASE fpc = "ok"
    <3>1. sock = "open" => ~client'.busy
      BY <1>1, <2>2, <2>3, <2>5, ToldParts
    <3> QED
      BY <2>1, <2>5, <3>1 DEF BusyTold
  <2>6. CASE fpc \notin {"busy", "ok"}
    <3>1. sock = "open" => client'.busy = client.busy
      BY <1>1, <2>2, <2>3, <2>6, ToldParts
    <3> QED
      BY <2>1, <2>6, <3>1 DEF BusyTold
  <2> QED
    BY <2>4, <2>5, <2>6
<1>7. CASE FlushBusy
  <2>1. fpc = "wait" /\ capacity_degraded' = TRUE /\ sock' \in {sock, "dead"} /\ client' = client
    BY <1>7 DEF FlushBusy, FlushBegins, Watchdog
  <2>2. CASE capacity_degraded
    <3>1. UNCHANGED <<fpc, fout>>
      BY <1>7, <2>2 DEF FlushBusy
    <3> QED
      BY <1>1, <2>1, <2>2, <3>1 DEF BusyTold
  <2>3. CASE ~capacity_degraded
    <3>1. fpc' = "busy" /\ fout' = <<Msg("busy")>> /\ fout' # <<>>
      BY <1>7, <2>3 DEF FlushBusy
    <3> QED
      BY <2>1, <3>1 DEF BusyTold
  <2> QED
    BY <2>2, <2>3
<1>8. CASE FlushStart
  <2>1. fpc = "wait" /\ capacity_degraded' = FALSE /\ sock' \in {sock, "dead"} /\ client' = client
    BY <1>8 DEF FlushStart, FlushBegins, Watchdog, FlushSlot
  <2>2. CASE capacity_degraded
    <3>1. fpc' = "ok" /\ fout' = <<Msg("ok")>> /\ fout' # <<>>
      BY <1>8, <2>2 DEF FlushStart, FlushSlot
    <3> QED
      BY <2>1, <3>1 DEF BusyTold
  <2>3. CASE ~capacity_degraded
    <3>1. fpc' = "infer"
      BY <1>8, <2>3 DEF FlushStart, FlushSlot
    <3> QED
      BY <1>1, <2>1, <2>3, <3>1 DEF BusyTold
  <2> QED
    BY <2>2, <2>3
<1>9. CASE FlushRelock \/ FlushCycleEnd
  <2>1. /\ UNCHANGED <<client, sock, capacity_degraded>> /\ fout = <<>>
        /\ fpc' \in {"infer", "wait"} /\ fpc \in {"ok", "busy", "partial"}
    BY <1>9 DEF FlushRelock, FlushCycleEnd
  <2> QED
    BY <1>1, <1>2, <2>1 DEF BusyTold
<1>10. CASE Accept \/ FlushExit \/ FlushInfer \/ FlushResume
  <2>1. /\ UNCHANGED <<client, sock, capacity_degraded>>
        /\ fpc' \notin {"busy", "ok"} /\ fpc \notin {"busy", "ok"}
    BY <1>10 DEF Accept, FlushExit, FlushInfer, FlushResume, Apply, SessionInv, FlushQuiet, FlushJoined
  <2> QED
    BY <2>1 DEF BusyTold
<1>11. CASE LeaveLoop \/ (\E n \in ChunkSizes : processAudioChunk(n)) \/ AcquireModel \/ ConfigThrows
              \/ ConfigureThrows \/ EndJoin \/ EndTranscribe \/ EndThrows \/ EndCloseStart
              \/ CloseReturns \/ ReleaseModel \/ DtorStop \/ DtorJoin
  BY <1>3, <1>11 DEF LeaveLoop, processAudioChunk, AcquireModel, ConfigThrows, ConfigureThrows, EndJoin,
                 EndTranscribe, EndThrows, EndCloseStart, CloseReturns, ReleaseModel, DtorStop, DtorJoin
<1>12. CASE RecvThrows \/ RecvRefused \/ RecvTooMuch \/ RecvAudio \/ RecvConfigRefused \/ RecvConfig
              \/ RecvEnd
  BY <1>3, <1>12 DEF RecvThrows, RecvRefused, RecvTooMuch, RecvAudio, RecvConfigRefused, RecvConfig,
                     RecvEnd
<1>13. CASE RecvDumpThrows \/ FlushWriteStart \/ FlushIdle \/ FlushNullEngine \/ FlushThrows \/ RecvWriteStart
              \/ PeerToggles \/ SocketDies \/ Tick \/ UNCHANGED vars
  BY <1>3, <1>13 DEF RecvDumpThrows, FlushWriteStart, FlushIdle, FlushBegins, Watchdog, FlushNullEngine, FlushThrows,
                     RecvWriteStart, PeerToggles, SocketDies, Tick, vars
<1>14. CASE FlushDumpThrows
  <2>1. /\ fout # <<>> /\ Head(fout).type \in WithText
        /\ UNCHANGED <<client, sock, fpc, capacity_degraded>>
    BY <1>14 DEF FlushDumpThrows
  <2>2. fpc \notin {"busy", "ok"}
    BY <1>1, <2>1, TailElements DEF MessagesByPlace, WithText
  <2> QED
    BY <2>1, <2>2 DEF BusyTold
<1> QED
  BY <1>4, <1>5, <1>6, <1>7, <1>8, <1>9, <1>10, <1>11, <1>12, <1>13, <1>14
     DEF Next, RecvStep, FlushStep, PeerStep, Terminated, CloseAnswered, CloseFails

(***************************************************************************)
(* The order of the text, for any number of configurations.                *)
(***************************************************************************)
\* Text that follows ordered text leaves it ordered.
LEMMA OrderedConcat ==
  ASSUME NEW s \in Text, NEW t \in Text, Ordered(s), Ordered(t), Follows(s, t)
  PROVE  Ordered(s \o t)
<1>1. \A i \in 1..Len(s) : s[i] \in Unit
  BY DEF Text
<1>2. ASSUME NEW i \in 1..Len(s \o t), NEW j \in 1..Len(s \o t), i < j
      PROVE  Before((s \o t)[i], (s \o t)[j])
  <2>0. s \in Seq(Unit) /\ t \in Seq(Unit)
    BY DEF Text
  <2>1. /\ Len(s \o t) = Len(s) + Len(t) /\ Len(s) \in Nat /\ Len(t) \in Nat
        /\ \A k \in 1..Len(s \o t) : (s \o t)[k] = IF k <= Len(s) THEN s[k] ELSE t[k - Len(s)]
    BY <2>0
  <2>2. CASE j <= Len(s)
    <3>1. i \in 1..Len(s) /\ j \in 1..Len(s) /\ (s \o t)[i] = s[i] /\ (s \o t)[j] = s[j]
      BY <1>2, <2>1, <2>2
    <3> QED
      BY <1>2, <3>1 DEF Ordered
  <2>3. CASE i <= Len(s) /\ j > Len(s)
    <3>1. /\ i \in 1..Len(s) /\ j - Len(s) \in 1..Len(t)
          /\ (s \o t)[i] = s[i] /\ (s \o t)[j] = t[j - Len(s)]
      BY <1>2, <2>1, <2>3
    <3> QED
      BY <3>1 DEF Follows
  <2>4. CASE i > Len(s)
    <3>1. /\ i - Len(s) \in 1..Len(t) /\ j - Len(s) \in 1..Len(t) /\ i - Len(s) < j - Len(s)
          /\ (s \o t)[i] = t[i - Len(s)] /\ (s \o t)[j] = t[j - Len(s)]
      BY <1>2, <2>1, <2>4
    <3> QED
      BY <3>1 DEF Ordered
  <2> QED
    BY <2>1, <2>2, <2>3, <2>4, <1>2
<1> QED
  BY <1>2 DEF Ordered

\* Bounds on the engines and positions of a text: weakened for a later position
\* and for a later engine, and joined.
LEMMA UpToFacts ==
  ASSUME NEW s \in Text, NEW e \in Nat, NEW n \in Nat, UpTo(s, e, n)
  PROVE  /\ \A k \in Nat : k >= n => UpTo(s, e, k)
         /\ \A d \in Nat, k \in Nat : d > e => UpTo(s, d, k)
         /\ \A t \in Text : UpTo(t, e, n) => UpTo(s \o t, e, n)
<1>0. s \in Seq(Unit)
  BY DEF Text
<1>1. \A i \in 1..Len(s) : /\ s[i][1] \in 1..e /\ s[i][2] \in Nat
                           /\ s[i][1] = e => s[i][2] <= n
  BY <1>0 DEF Unit, UpTo
<1>2. ASSUME NEW k \in Nat, k >= n PROVE UpTo(s, e, k)
  BY <1>1, <1>2 DEF UpTo
<1>3. ASSUME NEW d \in Nat, NEW k \in Nat, d > e PROVE UpTo(s, d, k)
  <2>1. \A i \in 1..Len(s) : s[i][1] \in 1..d /\ s[i][1] # d
    BY <1>1, <1>3
  <2> QED
    BY <2>1 DEF UpTo
<1>4. ASSUME NEW t \in Text, UpTo(t, e, n) PROVE UpTo(s \o t, e, n)
  <2>1. t \in Seq(Unit)
    BY DEF Text
  <2>2. /\ Len(s \o t) = Len(s) + Len(t) /\ Len(s) \in Nat /\ Len(t) \in Nat
        /\ \A k \in 1..Len(s \o t) : (s \o t)[k] = IF k <= Len(s) THEN s[k] ELSE t[k - Len(s)]
    BY <1>0, <2>1
  <2>3. ASSUME NEW k \in 1..Len(s \o t)
        PROVE  (s \o t)[k][1] \in 1..e /\ ((s \o t)[k][1] = e => (s \o t)[k][2] <= n)
    <3>1. CASE k <= Len(s)
      <4>1. k \in 1..Len(s) /\ (s \o t)[k] = s[k]
        BY <2>2, <3>1
      <4> QED
        BY <4>1 DEF UpTo
    <3>2. CASE k > Len(s)
      <4>1. k - Len(s) \in 1..Len(t) /\ (s \o t)[k] = t[k - Len(s)]
        BY <2>2, <3>2
      <4> QED
        BY <1>4, <4>1 DEF UpTo
    <3> QED
      BY <2>2, <3>1, <3>2
  <2> QED
    BY <2>3 DEF UpTo
<1> QED
  BY <1>2, <1>3, <1>4

\* The text of the first k units of the buffer is ordered, lies in those units
\* and follows all text from audio that has left the buffer.
LEMMA PrefixOrder ==
  ASSUME engine \in Nat \ {0}, base \in Nat, NEW k \in Nat
  PROVE  /\ Ordered(Prefix(k)) /\ UpTo(Prefix(k), engine, base + k)
         /\ \A s \in Text : UpTo(s, engine, base) => Follows(s, Prefix(k))
<1>1. Len(Prefix(k)) = k
  BY PrefixType
<1>2. \A i \in 1..k : Prefix(k)[i][1] = engine /\ Prefix(k)[i][2] = base + i
  BY DEF Prefix
<1>3. Ordered(Prefix(k)) /\ UpTo(Prefix(k), engine, base + k)
  BY <1>1, <1>2 DEF Ordered, UpTo, Before
<1>4. ASSUME NEW s \in Text, UpTo(s, engine, base) PROVE Follows(s, Prefix(k))
  <2>1. \A i \in 1..Len(s) : /\ s[i][1] \in 1..engine /\ s[i][2] \in Nat
                             /\ s[i][1] = engine => s[i][2] <= base
    BY <1>4 DEF Text, Unit, UpTo
  <2> QED
    BY <1>1, <1>2, <2>1 DEF Follows, Before
<1> QED
  BY <1>3, <1>4

\* What the engine commits is the text of the units it erases.
LEMMA ResultOrder ==
  ASSUME SessionInv, engine # 0, NEW r \in Results
  PROVE  /\ Ordered(r.committed) /\ UpTo(r.committed, engine, base + Erased(r))
         /\ \A s \in Text : UpTo(s, engine, base) => Follows(s, r.committed)
<1>1. engine \in Nat \ {0} /\ base \in Nat /\ buffer \in Nat
  BY TypeParts, SessionConstants DEF SessionInv, NumberTypes, SessionConstants
<1>2. r.committed = <<>> \/ \E k \in 1..buffer : r.committed = Prefix(k)
  <2>1. ASSUME NEW p \in BOOLEAN, r = [NoResult EXCEPT !.partial_ok = p]
        PROVE  r.committed = <<>>
    BY <2>1 DEF NoResult
  <2>2. ASSUME NEW k \in 1..buffer, NEW ok \in BOOLEAN, NEW p \in BOOLEAN,
               r = [committed |-> Prefix(k), committed_ok |-> ok, partial_ok |-> p]
        PROVE  r.committed = Prefix(k)
    BY <2>2
  <2>3. \/ \E p \in BOOLEAN : r = [NoResult EXCEPT !.partial_ok = p]
        \/ \E k \in 1..buffer, ok \in BOOLEAN, p \in BOOLEAN :
             r = [committed |-> Prefix(k), committed_ok |-> ok, partial_ok |-> p]
    BY DEF Results
  <2> QED
    BY <2>1, <2>2, <2>3
<1>3. CASE r.committed = <<>>
  BY <1>3 DEF Ordered, UpTo, Follows
<1>4. ASSUME NEW k \in 1..buffer, r.committed = Prefix(k)
      PROVE  /\ Ordered(r.committed) /\ UpTo(r.committed, engine, base + Erased(r))
             /\ \A s \in Text : UpTo(s, engine, base) => Follows(s, r.committed)
  <2>1. k \in Nat /\ Erased(r) = k
    BY <1>1, <1>4, PrefixType DEF Erased
  <2> QED
    BY <1>1, <1>4, <2>1, PrefixOrder
<1> QED
  BY <1>2, <1>3, <1>4

\* Accumulating a result that follows both transcripts keeps them in order.
LEMMA ApplyOrder ==
  ASSUME SessionInv, NEW r \in Result, NEW size, Apply(r, size),
         Ordered(full_transcription), Ordered(raw_transcription), Ordered(r.committed),
         Follows(full_transcription, r.committed), Follows(raw_transcription, r.committed)
  PROVE  Ordered(full_transcription') /\ Ordered(raw_transcription') /\ fpc' # "resume"
<1>1. full_transcription \in Text /\ raw_transcription \in Text /\ r.committed \in Text
  BY DEF SessionInv, TypeOK, Result
<1>2. Ordered(full_transcription \o r.committed) /\ Ordered(raw_transcription \o r.committed)
  BY <1>1, OrderedConcat
<1>3. /\ raw_transcription' = raw_transcription \o r.committed
      /\ full_transcription' \in {full_transcription, full_transcription \o r.committed}
      /\ fpc' # "resume"
  BY DEF Apply
<1> QED
  BY <1>2, <1>3

\* The same for the bound on its positions.
LEMMA ApplyUpTo ==
  ASSUME SessionInv, NEW r \in Result, NEW size, Apply(r, size), NEW e \in Nat, NEW n \in Nat,
         UpTo(full_transcription, e, n), UpTo(raw_transcription, e, n), UpTo(r.committed, e, n)
  PROVE  UpTo(full_transcription', e, n) /\ UpTo(raw_transcription', e, n) /\ fpc' # "resume"
<1>1. full_transcription \in Text /\ raw_transcription \in Text /\ r.committed \in Text
  BY DEF SessionInv, TypeOK, Result
<1>2. UpTo(full_transcription \o r.committed, e, n) /\ UpTo(raw_transcription \o r.committed, e, n)
  BY <1>1, UpToFacts
<1>3. /\ raw_transcription' = raw_transcription \o r.committed
      /\ full_transcription' \in {full_transcription, full_transcription \o r.committed}
      /\ fpc' # "resume"
  BY DEF Apply
<1> QED
  BY <1>2, <1>3

\* The engine is there while it is needed, and each has a greater number than
\* those before it.
LEMMA EngineThereStep ==
  ASSUME SessionInv, EngineThere, [Next]_vars
  PROVE  EngineThere'
<1> USE DEF At, Goto, recvVars, flushVars, modelVars, audioVars, flowVars, textVars, idleVars, peerVars, boundVars
<1>1. /\ engine \in Nat /\ configs \in Nat /\ configured \in BOOLEAN
      /\ rpc \in RecvPcs /\ fpc \in FlushPcs
  BY DEF SessionInv, TypeOK
<1>2. ASSUME UNCHANGED <<configured, engine, configs, fpc>>,
             \/ rpc' = rpc
             \/ rpc' \notin {"acquire", "configure", "end_join", "end"} /\ rpc # "dtor_join"
             \/ rpc' = "done"
             \/ rpc' \in {"end_join", "end"} /\ configured
             \/ rpc' = "configure" /\ rpc = "acquire",
             rpc \in {"dtor", "dtor_join", "done"} => rpc' \in {"dtor", "dtor_join", "done"}
      PROVE  EngineThere'
  BY <1>1, <1>2 DEF EngineThere
<1>3. CASE RecvConfig
  BY <1>1, <1>3 DEF RecvConfig, EngineThere
<1>4. CASE Configure
  BY <1>1, <1>4 DEF Configure, EngineThere, StateLocked
<1>5. CASE ReleaseModel
  BY <1>1, <1>5 DEF ReleaseModel, ReleasedEngine, EngineThere
<1>6. CASE AcquireModel \/ ConfigThrows \/ ConfigureThrows
  BY <1>2, <1>6 DEF AcquireModel, ConfigThrows, ConfigureThrows
<1>7. CASE Accept
  BY <1>1, <1>7 DEF Accept, EngineThere
<1>8. CASE RecvEnd \/ EndJoin
  <2>1. configured
    BY <1>8 DEF RecvEnd, EndJoin, EngineThere
  <2> QED
    BY <1>2, <1>8, <2>1 DEF RecvEnd, EndJoin
<1>9. CASE LeaveLoop \/ (\E n \in ChunkSizes : processAudioChunk(n)) \/ EndTranscribe \/ EndThrows
             \/ EndCloseStart \/ CloseReturns \/ DtorStop \/ DtorJoin
  BY <1>2, <1>9 DEF LeaveLoop, processAudioChunk, EndTranscribe, EndThrows, EndCloseStart,
                    CloseReturns, DtorStop, DtorJoin
<1>10. CASE RecvThrows \/ RecvRefused \/ RecvTooMuch \/ RecvAudio \/ RecvConfigRefused
  BY <1>2, <1>10 DEF RecvThrows, RecvRefused, RecvTooMuch, RecvAudio, RecvConfigRefused
<1>11. CASE RecvDumpThrows \/ RecvWriteStart \/ RecvWriteEnd \/ PeerToggles \/ SocketDies \/ Tick
              \/ UNCHANGED vars
  BY <1>2, <1>11 DEF RecvDumpThrows, RecvWriteStart, RecvWriteEnd, PeerToggles, SocketDies, Tick, vars
<1>12. CASE FlushStep \/ FlushStart
  <2>1. UNCHANGED <<rpc, configured, engine, configs>>
    BY <1>12 DEF FlushStep, FlushStart, FlushDumpThrows, FlushWriteStart, FlushWriteEnd, FlushExit,
                 FlushIdle, FlushBusy, FlushRelock, FlushInfer, FlushResume, FlushCycleEnd,
                 FlushNullEngine, FlushThrows
  <2>2. fpc' \in {"ok", "infer", "resume"} => configured
    BY <1>12 DEF FlushStep, FlushStart, FlushDumpThrows, FlushWriteStart, FlushWriteEnd, FlushExit,
                 FlushIdle, FlushBusy, FlushRelock, FlushInfer, FlushResume, FlushCycleEnd,
                 FlushNullEngine, FlushThrows, FlushBegins, WantInference, FlushSlot, Apply,
                 EngineThere
  <2> QED
    BY <2>1, <2>2 DEF EngineThere
<1> QED
  BY <1>3, <1>4, <1>5, <1>6, <1>7, <1>8, <1>9, <1>10, <1>11, <1>12
     DEF Next, RecvStep, PeerStep, Terminated, CloseAnswered, CloseFails

\* The transcripts stay in the order of speech, whichever thread adds to them
\* and whichever engine the text in hand comes from.
LEMMA TextStep ==
  ASSUME SessionInv, TextInv, [Next]_vars
  PROVE  TextOrdered' /\ TextErased'
<1> USE DEF TextInv, At, Goto, recvVars, flushVars, modelVars, audioVars, flowVars, textVars, idleVars, peerVars, boundVars
<1>1. /\ full_transcription \in Text /\ raw_transcription \in Text /\ res \in Result
      /\ engine \in Nat /\ configs \in Nat /\ base \in Nat /\ buffer \in 0..Cap /\ Cap \in Nat
  BY SessionConstants DEF SessionInv, TypeOK, SessionConstants
<1>2. res.committed \in Text
  BY <1>1 DEF Result
<1>3. ASSUME UNCHANGED <<textVars, res>>, base' \in Nat, base' >= base, engine' \in {engine, 0},
             fpc' = "resume" => fpc = "resume"
      PROVE  TextOrdered' /\ TextErased'
  <2>1. engine # 0 => UpTo(full_transcription, engine, base') /\ UpTo(raw_transcription, engine, base')
    BY <1>1, <1>3, UpToFacts DEF TextErased
  <2>2. engine # 0 /\ fpc = "resume" => UpTo(res.committed, engine, base')
    BY <1>1, <1>2, <1>3, UpToFacts DEF TextErased
  <2> QED
    BY <1>3, <2>1, <2>2 DEF TextOrdered, TextErased
<1>4. ASSUME UNCHANGED <<textVars, res, base>>, engine' \in {engine, 0},
             fpc' = "resume" => fpc = "resume"
      PROVE  TextOrdered' /\ TextErased'
  BY <1>1, <1>3, <1>4
<1>5. CASE \E n \in ChunkSizes : processAudioChunk(n)
  <2>1. PICK n \in ChunkSizes : processAudioChunk(n)
    BY <1>5
  <2>2. n \in Nat
    BY SessionConstants DEF SessionConstants
  <2>3. base' \in Nat /\ base' >= base
    BY <1>1, <2>1, <2>2 DEF processAudioChunk, EngineKeepsChunk
  <2>4. UNCHANGED <<textVars, res, fpc, engine>>
    BY <2>1 DEF processAudioChunk
  <2> QED
    BY <1>3, <2>3, <2>4
<1>6. CASE Configure
  <2>1. /\ UNCHANGED <<fpc, res>> /\ full_transcription' = <<>> /\ raw_transcription' = <<>>
        /\ engine' = configs /\ base' = 0 /\ engine < configs
    BY <1>6 DEF Configure, EngineThere
  <2>2. fpc = "resume" => UpTo(res.committed, configs, 0)
    <3>1. fpc = "resume" => engine # 0
      BY <1>6 DEF Configure, EngineThere
    <3> QED
      BY <1>1, <1>2, <2>1, <3>1, UpToFacts DEF TextErased
  <2> QED
    BY <2>1, <2>2 DEF TextOrdered, TextErased, Ordered, UpTo, Follows
<1>7. CASE EndTranscribe
  <2>1. PICK k \in {0, buffer} :
          /\ full_transcription' = FinalText(full_transcription \o Prefix(k))
          /\ base' = base + k
    BY <1>7 DEF EndTranscribe
  <2>2. k \in Nat /\ base' \in Nat /\ base' >= base /\ engine' = engine /\ engine \in Nat \ {0}
    BY <1>1, <1>7, <2>1 DEF EndTranscribe, EngineThere
  <2>3. fpc' # "resume" /\ raw_transcription' = raw_transcription
    BY <1>7 DEF EndTranscribe, SessionInv, FlushQuiet, FlushJoined
  <2>4. UpTo(full_transcription, engine, base') /\ UpTo(raw_transcription, engine, base')
    BY <1>1, <2>2, UpToFacts DEF TextErased
  <2>5. /\ Prefix(k) \in Text /\ Ordered(Prefix(k)) /\ UpTo(Prefix(k), engine, base')
        /\ Follows(full_transcription, Prefix(k))
    BY <1>1, <2>1, <2>2, PrefixType, PrefixOrder DEF TextErased
  <2>6. /\ Ordered(full_transcription \o Prefix(k))
        /\ UpTo(full_transcription \o Prefix(k), engine, base')
    BY <1>1, <2>2, <2>4, <2>5, OrderedConcat, UpToFacts DEF TextOrdered
  <2>7. full_transcription' \in {raw_transcription, full_transcription \o Prefix(k)}
    BY <2>1 DEF FinalText
  <2> QED
    BY <2>2, <2>3, <2>4, <2>6, <2>7 DEF TextOrdered, TextErased
<1>8. CASE FlushInfer
  <2>1. PICK r \in Results :
          /\ base' = base + Erased(r)
          /\ \/ fpc' = "resume" /\ res' = r /\ UNCHANGED textVars
             \/ Apply(r, buffer')
    BY <1>8 DEF FlushInfer
  <2>2. /\ r \in Result /\ base' \in Nat /\ base' >= base
        /\ engine' = engine /\ engine # 0
    BY <1>1, <1>8, <2>1, ResultTypes DEF FlushInfer
  <2>3. /\ Ordered(r.committed) /\ UpTo(r.committed, engine, base')
        /\ Follows(full_transcription, r.committed) /\ Follows(raw_transcription, r.committed)
    BY <1>1, <2>1, <2>2, ResultOrder DEF TextErased
  <2>4. UpTo(full_transcription, engine, base') /\ UpTo(raw_transcription, engine, base')
    BY <1>1, <2>2, UpToFacts DEF TextErased
  <2>5. CASE fpc' = "resume" /\ res' = r /\ UNCHANGED textVars
    BY <2>2, <2>3, <2>4, <2>5 DEF TextOrdered, TextErased
  <2>6. CASE Apply(r, buffer')
    <3>1. Ordered(full_transcription') /\ Ordered(raw_transcription') /\ fpc' # "resume"
      BY <2>2, <2>3, <2>6, ApplyOrder DEF TextOrdered
    <3>2. UpTo(full_transcription', engine, base') /\ UpTo(raw_transcription', engine, base')
      BY <1>1, <2>2, <2>3, <2>4, <2>6, ApplyUpTo
    <3> QED
      BY <2>2, <3>1, <3>2 DEF TextOrdered, TextErased
  <2> QED
    BY <2>1, <2>5, <2>6
<1>9. CASE FlushResume
  <2>1. fpc = "resume" /\ Apply(res, buffer) /\ UNCHANGED <<base, engine>>
    BY <1>9 DEF FlushResume
  <2>2. Ordered(full_transcription') /\ Ordered(raw_transcription') /\ fpc' # "resume"
    BY <1>1, <2>1, ApplyOrder DEF TextOrdered
  <2>3. engine # 0 => /\ UpTo(full_transcription', engine, base)
                      /\ UpTo(raw_transcription', engine, base)
    BY <1>1, <2>1, ApplyUpTo DEF TextErased
  <2> QED
    BY <2>1, <2>2, <2>3 DEF TextOrdered, TextErased
<1>10. CASE FlushBusy \/ FlushStart
  BY <1>4, <1>10 DEF FlushBusy, FlushStart, FlushSlot
<1>11. CASE Accept \/ LeaveLoop \/ AcquireModel \/ ConfigThrows
              \/ ConfigureThrows \/ EndJoin \/ EndThrows \/ EndCloseStart
              \/ CloseReturns \/ ReleaseModel \/ DtorStop \/ DtorJoin
  BY <1>4, <1>11 DEF Accept, LeaveLoop, AcquireModel, ConfigThrows, ConfigureThrows, EndJoin, EndThrows,
                     EndCloseStart, CloseReturns, ReleaseModel, ReleasedEngine, DtorStop, DtorJoin
<1>12. CASE RecvThrows \/ RecvRefused \/ RecvTooMuch \/ RecvAudio \/ RecvConfigRefused \/ RecvConfig
              \/ RecvEnd
  BY <1>4, <1>12 DEF RecvThrows, RecvRefused, RecvTooMuch, RecvAudio, RecvConfigRefused, RecvConfig,
                     RecvEnd
<1>13. CASE FlushDumpThrows \/ FlushWriteStart \/ FlushWriteEnd \/ FlushExit \/ FlushIdle
              \/ FlushRelock \/ FlushCycleEnd \/ FlushNullEngine \/ FlushThrows
  BY <1>4, <1>13 DEF FlushDumpThrows, FlushWriteStart, FlushWriteEnd, FlushExit, FlushIdle,
                     FlushRelock, FlushCycleEnd, FlushNullEngine, FlushThrows
<1>14. CASE RecvDumpThrows \/ RecvWriteStart \/ RecvWriteEnd \/ PeerToggles \/ SocketDies \/ Tick
              \/ UNCHANGED vars
  BY <1>4, <1>14 DEF RecvDumpThrows, RecvWriteStart, RecvWriteEnd, PeerToggles, SocketDies, Tick, vars
<1> QED
  BY <1>5, <1>6, <1>7, <1>8, <1>9, <1>10, <1>11, <1>12, <1>13, <1>14
     DEF Next, RecvStep, FlushStep, PeerStep, Terminated, CloseAnswered, CloseFails

\* Whatever the peer configures, and whenever: what is in the transcripts, and
\* what a flush cycle still has in hand, is in the order of speech.
THEOREM TextSafe == Spec => []TextInv
<1>1. Init => TextInv
  <2> SUFFICES ASSUME Init PROVE TextInv
    OBVIOUS
  <2>1. EngineThere
    BY DEF Init, EngineThere
  <2>2. TextOrdered /\ TextErased
    BY DEF Init, TextOrdered, TextErased, Ordered
  <2> QED
    BY <2>1, <2>2 DEF TextInv
<1>2. SessionInv /\ TextInv /\ [Next]_vars => TextInv'
  <2> SUFFICES ASSUME SessionInv, TextInv, [Next]_vars PROVE TextInv'
    OBVIOUS
  <2>1. EngineThere'
    BY EngineThereStep DEF TextInv
  <2>2. TextOrdered' /\ TextErased'
    BY TextStep
  <2> QED
    BY <2>1, <2>2 DEF TextInv
<1> QED
  BY <1>1, <1>2, SessionSafe, PTL DEF Spec

\* The server's two transcripts hold every unit of speech at most once and in
\* order, whatever the engine commits, the filter withholds, flow control delays
\* and handleEnd() adds, for any number of configurations; text of an engine that
\* was replaced stands in front, and up to a second configuration there is none.
THEOREM TranscriptOrdered == Spec => []TranscriptInOrder
<1>1. SessionInv /\ TextInv => TranscriptInOrder
  <2> SUFFICES ASSUME SessionInv, TextInv, engine # 0,
                      NEW t \in {full_transcription, raw_transcription}
               PROVE  /\ Ordered(t) /\ UpTo(t, engine, base)
                      /\ configs <= 1 => \A i \in 1..Len(t) : t[i][1] = engine
    BY DEF TranscriptInOrder
  <2>1. engine \in Nat /\ configs \in Nat /\ engine <= configs
    BY DEF SessionInv, TypeOK, TextInv, EngineThere
  <2>2. Ordered(t) /\ UpTo(t, engine, base)
    BY DEF TextInv, TextOrdered, TextErased
  <2>3. ASSUME configs <= 1, NEW i \in 1..Len(t) PROVE t[i][1] = engine
    BY <2>1, <2>2, <2>3 DEF UpTo
  <2> QED
    BY <2>2, <2>3
<1> QED
  BY <1>1, SessionSafe, TextSafe, PTL

(***************************************************************************)
(* A session that configures at most once: what the peer was shown.        *)
(***************************************************************************)
\* What begins a text begins every extension of it.
LEMMA PrefixFacts ==
  ASSUME NEW s \in Text, NEW t \in Text
  PROVE  /\ IsPrefix(s, s) /\ IsPrefix(<<>>, s)
         /\ IsPrefix(s, t) => \A u \in Text : IsPrefix(s, t \o u)
         /\ IsPrefix(s, <<>>) => s = <<>>
<1>1. s \in Seq(Unit) /\ t \in Seq(Unit) /\ Len(s) \in Nat /\ Len(t) \in Nat
  BY DEF Text
<1>2. IsPrefix(s, s)
  BY <1>1 DEF IsPrefix
<1>3. IsPrefix(<<>>, s)
  <2>1. Len(<<>>) = 0 /\ SubSeq(<<>>, 1, 0) = <<>> /\ SubSeq(s, 1, 0) = <<>>
    BY <1>1
  <2> QED
    BY <1>1, <2>1 DEF IsPrefix
<1>4. ASSUME IsPrefix(s, t), NEW u \in Text PROVE IsPrefix(s, t \o u)
  <2>1. u \in Seq(Unit) /\ Len(u) \in Nat /\ Len(t \o u) = Len(t) + Len(u) /\ Len(s) <= Len(t)
    BY <1>1, <1>4 DEF Text, IsPrefix
  <2>2. SubSeq(t \o u, 1, Len(s)) = SubSeq(t, 1, Len(s))
    <3>1. \A i \in 1..Len(s) : (t \o u)[i] = t[i]
      BY <1>1, <2>1
    <3> QED
      BY <1>1, <2>1, <3>1
  <2> QED
    BY <1>1, <1>4, <2>1, <2>2 DEF IsPrefix
<1>5. ASSUME IsPrefix(s, <<>>) PROVE s = <<>>
  <2>1. Len(s) = 0
    BY <1>1, <1>5 DEF IsPrefix
  <2> QED
    BY <1>1, <2>1
<1> QED
  BY <1>2, <1>3, <1>4, <1>5

\* The end of ws_.write() shows the peer nothing, or the text of a partial or
\* final transcription.
LEMMA WriteShows ==
  ASSUME SessionInv, NEW m \in Message, WriteReturns(m)
  PROVE  client'.text = client.text \/ (m.type \in {"partial", "final"} /\ client'.text = m.text)
<1>1. client \in ClientType
  BY DEF SessionInv, TypeOK, ClientType
<1> QED
  BY <1>1, ToldParts DEF WriteReturns

\* Only these steps change the transcript the peer is shown, and they extend it.
LEMMA TranscriptExtends ==
  ASSUME SessionInv, RefsExact, UnconfiguredIdle, [Next]_vars,
         IsPrefix(client.text, full_transcription)
  PROVE  /\ IsPrefix(client.text, full_transcription')
         /\ \/ full_transcription' = full_transcription
            \/ EndTranscribe \/ FlushInfer \/ FlushResume
<1> USE DEF At, Goto, recvVars, flushVars, modelVars, audioVars, flowVars, textVars, idleVars, peerVars, boundVars
<1>1. /\ full_transcription \in Text /\ raw_transcription \in Text /\ res \in Result
      /\ engine \in Nat /\ base \in Nat /\ buffer \in 0..Cap /\ Cap \in Nat /\ client.text \in Text
  BY SessionConstants DEF SessionInv, TypeOK, SessionConstants
<1>2. ASSUME NEW r \in Result, NEW size, Apply(r, size)
      PROVE  IsPrefix(client.text, full_transcription')
  <2>1. r.committed \in Text
    BY DEF Result
  <2>2. IsPrefix(client.text, full_transcription \o r.committed)
    BY <1>1, <2>1, PrefixFacts
  <2> QED
    BY <1>2, <2>2 DEF Apply
<1>3. CASE FlushInfer
  <2>1. PICK r \in Results : full_transcription' = full_transcription \/ Apply(r, buffer')
    BY <1>3 DEF FlushInfer
  <2> QED
    BY <1>2, <1>3, <2>1, ResultTypes
<1>4. CASE FlushResume
  <2>1. Apply(res, buffer)
    BY <1>4 DEF FlushResume
  <2> QED
    BY <1>1, <1>2, <1>4, <2>1
<1>5. CASE EndTranscribe
  <2>1. PICK k \in {0, buffer} : full_transcription' = FinalText(full_transcription \o Prefix(k))
    BY <1>5 DEF EndTranscribe
  <2>2. Prefix(k) \in Text
    BY <1>1, PrefixType
  <2>3. IsPrefix(client.text, full_transcription \o Prefix(k))
    BY <1>1, <2>2, PrefixFacts
  <2>4. CASE full_transcription \o Prefix(k) = <<>>
    <3>1. client.text = <<>>
      BY <1>1, <2>3, <2>4, PrefixFacts
    <3> QED
      BY <1>1, <1>5, <2>1, <2>4, <3>1, PrefixFacts DEF FinalText
  <2> QED
    BY <1>5, <2>1, <2>3, <2>4 DEF FinalText
<1>6. CASE Configure
  <2>1. full_transcription = <<>> /\ full_transcription' = <<>>
    BY <1>6 DEF Configure, RefsExact, UnconfiguredIdle
  <2> QED
    BY <2>1
<1>7. CASE RecvStep /\ ~Configure /\ ~EndTranscribe
  BY <1>7 DEF RecvStep, RecvDumpThrows, RecvWriteStart, RecvWriteEnd, Accept, LeaveLoop, processAudioChunk,
              AcquireModel, ConfigThrows, ConfigureThrows, EndJoin, EndThrows,
              EndCloseStart, CloseFails, CloseReturns, ReleaseModel, DtorStop, DtorJoin
<1>8. CASE (FlushStep \/ FlushStart) /\ ~FlushInfer /\ ~FlushResume
  BY <1>8 DEF FlushStep, FlushStart, FlushDumpThrows, FlushWriteStart, FlushWriteEnd, FlushExit, FlushIdle, FlushBusy,
              FlushRelock, FlushCycleEnd, FlushNullEngine, FlushThrows
<1>9. CASE PeerStep \/ Tick \/ UNCHANGED vars
  BY <1>9 DEF PeerStep, RecvThrows, RecvRefused, RecvTooMuch, RecvAudio, RecvConfigRefused,
              RecvConfig, RecvEnd, CloseAnswered, CloseReturns, PeerToggles, SocketDies, Tick, vars
<1> QED
  BY <1>3, <1>4, <1>5, <1>6, <1>7, <1>8, <1>9 DEF Next, Terminated, RecvStep, FlushStep

\* A final transcription is put in the receive thread's queue by handleEnd() only.
LEMMA RoutFinal ==
  ASSUME SessionInv, [Next]_vars, ~EndTranscribe
  PROVE  \A i \in 1..Len(rout') : rout'[i].type = "final" =>
           \E j \in 1..Len(rout) : rout[j] = rout'[i]
<1> USE DEF At, Goto, recvVars, flushVars, modelVars, audioVars, flowVars, textVars, idleVars, peerVars, boundVars
<1>1. rout \in Seq(Message) /\ dropped_chunks \in Nat
  BY DEF SessionInv, TypeOK
<1>2. Msg("error").type = "error" /\ Msg("ready").type = "ready"
  BY DEF Msg
<1>3. ASSUME rout' = rout \/ rout' = <<>> \/ rout' = <<Msg("error")>> \/ rout' = <<Msg("ready")>>
      PROVE  \A i \in 1..Len(rout') : rout'[i].type = "final" =>
               \E j \in 1..Len(rout) : rout[j] = rout'[i]
  BY <1>2, <1>3
<1>4. CASE RecvWriteEnd \/ RecvDumpThrows
  <2>1. rout # <<>> /\ rout' = Tail(rout)
    BY <1>4 DEF RecvWriteEnd, RecvDumpThrows
  <2> QED
    BY <1>1, <2>1, TailElements
<1>5. CASE \E n \in ChunkSizes : processAudioChunk(n)
  <2>1. rout' = PauseAndWarn \/ rout' = <<>>
    BY <1>5 DEF processAudioChunk
  <2> QED
    BY <1>1, <2>1, FlowTypes
<1>6. CASE RecvWriteStart \/ Accept \/ LeaveLoop
           \/ AcquireModel \/ ConfigThrows \/ Configure \/ ConfigureThrows
           \/ EndJoin \/ EndThrows \/ EndCloseStart \/ CloseReturns
           \/ ReleaseModel \/ DtorStop \/ DtorJoin
  BY <1>3, <1>6 DEF RecvWriteStart, Accept, LeaveLoop, AcquireModel, ConfigThrows, Configure,
              ConfigureThrows, EndJoin, EndThrows, EndCloseStart, CloseReturns, ReleaseModel,
              DtorStop, DtorJoin
<1>7. CASE FlushStep \/ FlushStart
  BY <1>3, <1>7 DEF FlushStep, FlushStart, FlushDumpThrows, FlushWriteStart, FlushWriteEnd, FlushExit, FlushIdle,
              FlushBusy, FlushRelock, FlushInfer, FlushResume, FlushCycleEnd, FlushNullEngine,
              FlushThrows
<1>8. CASE RecvThrows \/ RecvRefused \/ RecvTooMuch \/ RecvAudio \/ RecvConfigRefused \/ RecvConfig
             \/ RecvEnd \/ PeerToggles \/ SocketDies \/ Tick \/ UNCHANGED vars
  BY <1>3, <1>8 DEF RecvThrows, RecvRefused, RecvTooMuch, RecvAudio, RecvConfigRefused, RecvConfig,
                    RecvEnd, PeerToggles, SocketDies, Tick, vars
<1> QED
  BY <1>4, <1>5, <1>6, <1>7, <1>8
     DEF Next, RecvStep, PeerStep, Terminated, CloseAnswered, CloseFails

\* A partial transcription is put in the flush thread's queue by a cycle's end only.
LEMMA FoutPartial ==
  ASSUME SessionInv, [Next]_vars, ~FlushInfer, ~FlushResume
  PROVE  \A i \in 1..Len(fout') : fout'[i].type = "partial" =>
           \E j \in 1..Len(fout) : fout[j] = fout'[i]
<1> USE DEF At, Goto, recvVars, flushVars, modelVars, audioVars, flowVars, textVars, idleVars, peerVars, boundVars
<1>1. fout \in Seq(Message)
  BY DEF SessionInv, TypeOK
<1>2. Msg("busy").type = "busy" /\ Msg("ok").type = "ok"
  BY DEF Msg
<1>3. ASSUME fout' = fout \/ fout' = <<>> \/ fout' = <<Msg("busy")>> \/ fout' = <<Msg("ok")>>
      PROVE  \A i \in 1..Len(fout') : fout'[i].type = "partial" =>
               \E j \in 1..Len(fout) : fout[j] = fout'[i]
  BY <1>2, <1>3
<1>4. CASE FlushWriteEnd \/ FlushDumpThrows
  <2>1. fout # <<>> /\ fout' = Tail(fout)
    BY <1>4 DEF FlushWriteEnd, FlushDumpThrows
  <2> QED
    BY <1>1, <2>1, TailElements
<1>5. CASE FlushBusy \/ FlushStart
  BY <1>3, <1>5 DEF FlushBusy, FlushStart, FlushSlot
<1>6. CASE FlushWriteStart \/ FlushExit \/ FlushIdle \/ FlushRelock \/ FlushCycleEnd
             \/ FlushNullEngine \/ FlushThrows
  BY <1>3, <1>6 DEF FlushWriteStart, FlushExit, FlushIdle, FlushRelock, FlushCycleEnd,
                    FlushNullEngine, FlushThrows
<1>7. CASE RecvStep
  BY <1>3, <1>7 DEF RecvStep, RecvDumpThrows, RecvWriteStart, RecvWriteEnd, Accept, LeaveLoop, processAudioChunk,
              AcquireModel, ConfigThrows, Configure, ConfigureThrows, EndJoin, EndTranscribe,
              EndThrows, EndCloseStart, CloseFails, CloseReturns, ReleaseModel, DtorStop, DtorJoin
<1>8. CASE PeerStep \/ Tick \/ UNCHANGED vars
  BY <1>3, <1>8 DEF PeerStep, RecvThrows, RecvRefused, RecvTooMuch, RecvAudio, RecvConfigRefused,
              RecvConfig, RecvEnd, CloseAnswered, CloseReturns, PeerToggles, SocketDies, Tick, vars
<1> QED
  BY <1>4, <1>5, <1>6, <1>7, <1>8 DEF Next, FlushStep, Terminated

\* What the peer sees begins the transcript, and what is on its way shows all
\* of it.
LEMMA ShownBeginsStep ==
  ASSUME SessionInv, RefsExact, UnconfiguredIdle, MessagesByPlace, ShownBegins, [Next]_vars
  PROVE  ShownBegins'
<1>1. /\ rout \in Seq(Message) /\ fout \in Seq(Message) /\ dropped_chunks \in Nat /\ res \in Result
      /\ full_transcription \in Text /\ client.text \in Text
  BY DEF SessionInv, TypeOK
<1>2. /\ IsPrefix(client.text, full_transcription')
      /\ \/ full_transcription' = full_transcription
         \/ EndTranscribe \/ FlushInfer \/ FlushResume
  BY TranscriptExtends DEF ShownBegins
<1>3. IsPrefix(client'.text, full_transcription')
  <2>1. ASSUME NEW m \in Message, WriteReturns(m), full_transcription' = full_transcription,
               m.type \in {"partial", "final"} => m.text = full_transcription
        PROVE  IsPrefix(client'.text, full_transcription')
    BY <1>1, <2>1, WriteShows, PrefixFacts DEF ShownBegins
  <2>2. CASE RecvWriteEnd
    <3>1. /\ rout # <<>> /\ WriteReturns(Head(rout)) /\ full_transcription' = full_transcription
      BY <2>2 DEF RecvWriteEnd, textVars
    <3>2. Head(rout) = rout[1] /\ 1 \in 1..Len(rout) /\ Head(rout) \in Message
      BY <1>1, <3>1, TailElements
    <3>3. rout[1].type # "partial" /\ (rout[1].type = "final" => rout[1].text = full_transcription)
      BY <3>2 DEF ShownBegins, MessagesByPlace
    <3> QED
      BY <2>1, <3>1, <3>2, <3>3
  <2>3. CASE FlushWriteEnd
    <3>1. fout # <<>> /\ WriteReturns(Head(fout)) /\ full_transcription' = full_transcription
      BY <2>3 DEF FlushWriteEnd, textVars
    <3>2. Head(fout) = fout[1] /\ 1 \in 1..Len(fout) /\ Head(fout) \in Message
      BY <1>1, <3>1, TailElements
    <3>3. /\ fout[1].type = "partial" => fout[1].text = full_transcription
          /\ fout[1].type # "final"
      BY <3>2 DEF ShownBegins, SessionInv, FinalFromEnd
    <3> QED
      BY <2>1, <3>1, <3>2, <3>3
  <2> QED
    BY <1>2, <2>2, <2>3, ClientKept
<1>4. ASSUME NEW i \in 1..Len(rout'), rout'[i].type = "final"
      PROVE  rout'[i].text = full_transcription'
  <2>1. CASE EndTranscribe
    <3> DEFINE m == [Msg("final") EXCEPT !.text = full_transcription']
    <3>1. rout' = <<m>>
      BY <2>1 DEF EndTranscribe, Goto
    <3>2. m.text = full_transcription'
      BY DEF Msg
    <3> HIDE DEF m
    <3> QED
      BY <1>4, <3>1, <3>2
  <2>2. CASE ~EndTranscribe
    <3>1. PICK j \in 1..Len(rout) : rout[j] = rout'[i]
      BY <1>4, <2>2, RoutFinal
    <3>2. rpc = "end_close" /\ rout[j].text = full_transcription
      BY <1>4, <3>1 DEF SessionInv, FinalFromEnd, ShownBegins
    <3>3. fpc \notin {"infer", "resume"}
      BY <3>2 DEF SessionInv, FlushQuiet, FlushJoined
    <3>4. full_transcription' = full_transcription
      BY <1>2, <2>2, <3>3 DEF FlushInfer, FlushResume
    <3> QED
      BY <3>1, <3>2, <3>4
  <2> QED
    BY <2>1, <2>2
<1>5. ASSUME NEW i \in 1..Len(fout'), fout'[i].type = "partial"
      PROVE  fout'[i].text = full_transcription'
  <2>1. CASE FlushInfer
    <3>1. PICK r \in Results : fout' = WarnAndResume \/ Apply(r, buffer')
      BY <2>1 DEF FlushInfer
    <3>2. r \in Result
      BY ResultTypes
    <3>3. fout' # WarnAndResume
      BY <1>1, <1>5, FlowTypes
    <3> QED
      BY <1>5, <3>1, <3>2, <3>3, ApplySends
  <2>2. CASE FlushResume
    <3>1. Apply(res, buffer)
      BY <2>2 DEF FlushResume
    <3> QED
      BY <1>1, <1>5, <3>1, ApplySends
  <2>3. CASE ~FlushInfer /\ ~FlushResume
    <3>1. PICK j \in 1..Len(fout) : fout[j] = fout'[i]
      BY <1>5, <2>3, FoutPartial
    <3>2. fout # <<>> /\ fout[j].text = full_transcription
      BY <1>5, <3>1 DEF ShownBegins
    <3>3. ~EndTranscribe
      BY <3>2 DEF EndTranscribe, At, SessionInv, FlushQuiet, FlushJoined
    <3> QED
      BY <1>2, <2>3, <3>1, <3>2, <3>3
  <2> QED
    BY <2>1, <2>2, <2>3
<1> QED
  BY <1>3, <1>4, <1>5 DEF ShownBegins

\* With one configuration at most, every step preserves the invariant.
LEMMA OneConfigStep == SessionInv /\ OneConfigInv /\ [Next]_vars => OneConfigInv'
<1> SUFFICES ASSUME SessionInv, OneConfigInv, [Next]_vars, configs' <= 1
             PROVE  /\ RefsExact' /\ UnconfiguredIdle' /\ MessagesByPlace' /\ BusyTold'
                    /\ ShownBegins'
  BY DEF OneConfigInv
<1>1. configs <= 1
  BY ConfigsGrow
<1>2. RefsExact /\ UnconfiguredIdle /\ MessagesByPlace /\ BusyTold /\ ShownBegins
  BY <1>1 DEF OneConfigInv
<1>3. RefsExact' /\ UnconfiguredIdle' /\ MessagesByPlace'
  BY <1>2, RefsExactStep, UnconfiguredIdleStep, MessagesByPlaceStep
<1>4. BusyTold' /\ ShownBegins'
  BY <1>2, BusyToldStep, ShownBeginsStep
<1> QED
  BY <1>3, <1>4

\* An accepted socket, an idle flush thread and no text.
LEMMA OneConfigInit == Init => OneConfigInv
<1> SUFFICES ASSUME Init PROVE OneConfigInv
  OBVIOUS
<1>1. RefsExact /\ UnconfiguredIdle
  BY DEF Init, RefsExact, UnconfiguredIdle
<1>2. MessagesByPlace
  BY DEF Init, MessagesByPlace
<1>3. BusyTold
  BY DEF Init, BusyTold
<1>4. ShownBegins
  <2>1. client.text = <<>> /\ full_transcription = <<>> /\ <<>> \in Text
    BY MessageTypes DEF Init
  <2> QED
    BY <2>1, PrefixFacts DEF Init, ShownBegins
<1> QED
  BY <1>1, <1>2, <1>3, <1>4 DEF OneConfigInv

\* The inductive invariant of a session up to its second configuration.
THEOREM OneConfigSafe == Spec => []OneConfigInv
<1> QED
  BY OneConfigInit, OneConfigStep, SessionSafe, PTL DEF Spec

\* A session that configured at most once gives back every model reference it
\* took, however run() and handleEnd() end and whatever throws on the way.
THEOREM RefsReturnedOnce == Spec => []RefsReturned
<1>1. OneConfigInv => RefsReturned
  BY DEF OneConfigInv, RefsExact, RefsReturned
<1> QED
  BY <1>1, OneConfigSafe, PTL

\* Up to a second configuration, the peer of an open socket knows between two
\* cycles of flushLoop() whether the session waits for an inference slot.
THEOREM BusyKnown == Spec => []BusyInSync
<1>1. OneConfigInv => BusyInSync
  BY DEF OneConfigInv, BusyTold, BusyInSync
<1> QED
  BY <1>1, OneConfigSafe, PTL

\* No text shown to the peer as committed is taken back before a second
\* configuration: a later partial, or the final transcription, extends it.
THEOREM ShownTextStands == Spec => CommittedTextStands
<1>1. SessionInv /\ OneConfigInv /\ [Next]_vars
        => [configs <= 1 => IsPrefix(client.text, client'.text)]_vars
  <2> SUFFICES ASSUME SessionInv, OneConfigInv, [Next]_vars, configs <= 1
               PROVE  IsPrefix(client.text, client'.text)
    OBVIOUS
  <2>1. /\ rout \in Seq(Message) /\ fout \in Seq(Message)
        /\ full_transcription \in Text /\ client.text \in Text
    BY DEF SessionInv, TypeOK
  <2>2. MessagesByPlace /\ ShownBegins /\ IsPrefix(client.text, full_transcription)
    BY DEF OneConfigInv, ShownBegins
  <2>3. ASSUME NEW m \in Message, WriteReturns(m),
               m.type \in {"partial", "final"} => m.text = full_transcription
        PROVE  IsPrefix(client.text, client'.text)
    BY <2>1, <2>2, <2>3, WriteShows, PrefixFacts
  <2>4. CASE RecvWriteEnd
    <3>1. rout # <<>> /\ WriteReturns(Head(rout))
      BY <2>4 DEF RecvWriteEnd
    <3>2. Head(rout) = rout[1] /\ 1 \in 1..Len(rout) /\ Head(rout) \in Message
      BY <2>1, <3>1, TailElements
    <3>3. rout[1].type # "partial" /\ (rout[1].type = "final" => rout[1].text = full_transcription)
      BY <2>2, <3>2 DEF MessagesByPlace, ShownBegins
    <3> QED
      BY <2>3, <3>1, <3>2, <3>3
  <2>5. CASE FlushWriteEnd
    <3>1. fout # <<>> /\ WriteReturns(Head(fout))
      BY <2>5 DEF FlushWriteEnd
    <3>2. Head(fout) = fout[1] /\ 1 \in 1..Len(fout) /\ Head(fout) \in Message
      BY <2>1, <3>1, TailElements
    <3>3. fout[1].type # "final" /\ (fout[1].type = "partial" => fout[1].text = full_transcription)
      BY <2>2, <3>2 DEF ShownBegins, SessionInv, FinalFromEnd
    <3> QED
      BY <2>3, <3>1, <3>2, <3>3
  <2>6. CASE ~RecvWriteEnd /\ ~FlushWriteEnd
    BY <2>1, <2>6, ClientKept, PrefixFacts
  <2> QED
    BY <2>4, <2>5, <2>6
<1> QED
  BY <1>1, SessionSafe, OneConfigSafe, PTL DEF Spec, CommittedTextStands
=============================================================================
