-------------------------- MODULE TranscribeUpload --------------------------
(***************************************************************************)
(* From the body of POST /v1/audio/transcriptions to audio: steps 2 to 4b  *)
(* of HandleTranscribe::handle(), which module HandleTranscribe takes as   *)
(* one step that refuses the request or goes on.  It composes the parser   *)
(* and the decoder: what the one finds in part "file" the other decodes.   *)
(***************************************************************************)
EXTENDS MultipartParser, AudioDecoder

CONSTANTS
  Fields,        \* the parts a client may send: records of its headers and data
  MaxFields,     \* bound: parts in one form
  ContentTypes,  \* kinds of Content-Type, see extractBoundary
  MaxUpload,     \* max_upload_bytes
  MaxDuration    \* max_audio_duration_sec

ASSUME UploadConstants == MaxFields \in Nat /\ MaxUpload \in Nat /\ MaxDuration \in Nat

VARIABLES
  form,          \* the parts the client meant to send
  sent,          \* the form as the client writes it
  starts,        \* where its parts begin in sent, and where the next would
  content_type,  \* its Content-Type
  pc             \* "client", then where handle() is: "boundary", "parse", "fields",
                 \* "decode", "duration", and the answer: "400", "413", "accepted"

clientVars == <<form, sent, starts, content_type>>
uploadVars == <<clientVars, pc>>
vars == <<parserVars, decoderVars, uploadVars>>

(***************************************************************************)
(* The client: a form as RFC 7578 writes it                                *)
(***************************************************************************)
\* One part: boundary, header lines, an empty line, data, line break.
Encoded(f) ==
  <<Delim("b"), NL>>
    \o [i \in 1..(2 * Len(f.headers)) |-> IF i % 2 = 1 THEN f.headers[(i + 1) \div 2] ELSE NL]
    \o <<NL>> \o f.data \o <<NL>>

Closing == <<Delim("b"), Dashes, NL>>

Init ==
  /\ form = <<>> /\ sent = <<>> /\ starts = <<1>> /\ content_type \in ContentTypes
  /\ body = <<>> /\ boundary = "" /\ ParserInit /\ DecoderInit /\ pc = "client"

\* The client adds a part to its form.
ClientAdds ==
  /\ pc = "client" /\ Len(form) < MaxFields
  /\ \E f \in Fields :
       /\ form' = Append(form, f) /\ sent' = sent \o Encoded(f)
       /\ starts' = Append(starts, Len(sent) + Len(Encoded(f)) + 1)
  /\ UNCHANGED <<content_type, pc, parserVars, decoderVars>>

\* It sends the form, of which the server may get the beginning only.
ClientSends ==
  /\ pc = "client"
  /\ sent' = sent \o Closing
  /\ \E n \in 0..Len(sent') : body' = SubSeq(sent', 1, n)
  /\ pc' = "boundary"
  /\ UNCHANGED <<form, starts, content_type, boundary, parse_pc, pos, result, decoderVars>>

(***************************************************************************)
(* handle()                                                                *)
(***************************************************************************)
Goto(p) == pc' = p /\ UNCHANGED clientVars

Boundary ==
  /\ pc = "boundary"
  /\ boundary' = extractBoundary(content_type)
  /\ IF boundary' = "" THEN Goto("400") /\ UNCHANGED parse_pc
                       ELSE Goto("parse") /\ parse_pc' = "start"
  /\ UNCHANGED <<body, pos, result, decoderVars>>

Parse ==
  /\ pc = "parse"
  /\ \/ ParserStep /\ UNCHANGED uploadVars
     \/ parse_pc = "threw" /\ Goto("400") /\ UNCHANGED parserVars
     \/ parse_pc = "done" /\ Goto("fields") /\ UNCHANGED parserVars
  /\ UNCHANGED decoderVars

Has(name) == name \in DOMAIN result

\* Only one value of the format is told from the unsupported ones.
FormatSupported == Has("response_format") => result["response_format"].data = <<<<"json">>>>

\* decode() is called with the file's data: each piece of it is a packet.
CheckFields ==
  /\ pc = "fields"
  /\ IF ~Has("file") \/ ~Has("model") THEN Goto("400") /\ UNCHANGED decoderVars
     ELSE IF Len(body) > MaxUpload THEN Goto("413") /\ UNCHANGED decoderVars
     ELSE IF ~FormatSupported THEN Goto("400") /\ UNCHANGED decoderVars
     ELSE /\ Goto("decode")
          /\ decode_pc' = "avio"
          /\ packets' = [i \in DOMAIN result["file"].data |-> result["file"].data[i][1]]
          /\ UNCHANGED <<at, held, codec_delay, inside, resampler, s16, corrupt>>
  /\ UNCHANGED parserVars

Decode ==
  /\ pc = "decode"
  /\ \/ DecoderStep /\ UNCHANGED uploadVars
     \/ decode_pc \in {"threw", "bad_alloc"} /\ Goto("400") /\ UNCHANGED decoderVars
     \/ decode_pc = "returned" /\ Goto("duration") /\ UNCHANGED decoderVars
  /\ UNCHANGED parserVars

CheckDuration ==
  /\ pc = "duration"
  /\ Goto(IF Len(s16) > MaxDuration THEN "413" ELSE "accepted")
  /\ UNCHANGED <<parserVars, decoderVars>>

Answered == pc \in {"400", "413", "accepted"} /\ UNCHANGED vars

Next == ClientAdds \/ ClientSends \/ Boundary \/ Parse \/ CheckFields \/ Decode \/ CheckDuration \/ Answered

Spec == Init /\ [][Next]_vars

(***************************************************************************)
(* What the client meant                                                   *)
(***************************************************************************)
\* Part i is the last of the first n parts with this name.
LastPart(i, n, name) == form[i].name = name /\ \A j \in (i + 1)..n : form[j].name # name

\* What a part of the form says.
Content(f) == [filename |-> f.filename, content_type |-> f.content_type, data |-> f.data]

Meant(n, name) == Content(form[CHOOSE i \in 1..n : LastPart(i, n, name)])

MeantNames(n) == {form[i].name : i \in 1..n} \ {""}

\* result is what the first n parts of the form say.
Says(n) ==
  /\ DOMAIN result = MeantNames(n)
  /\ \A name \in MeantNames(n) : result[name] = Meant(n, name)

(***************************************************************************)
(* Properties                                                              *)
(***************************************************************************)
\* parse() returns the form: each field with the data of its last part, byte by
\* byte, whatever the data holds (line breaks, empty lines, the boundary within
\* a line); of a body that ends early the parts that are complete, and never a
\* part that is cut.
PartsExact ==
  parse_pc \in {"loop", "done"} =>
    \E n \in 0..Len(form) :
      Says(n) /\ (parse_pc = "done" /\ body = sent => n = Len(form))

\* Whatever step of the decoder fails, and however the loop ends, everything
\* that was allocated is freed, and nothing is freed that is not there.
DecoderReleases ==
  /\ decode_pc \in {"returned", "threw"} => held = {}
  /\ InSetup => Frees(decode_pc) = held

\* The audio that goes on to the model is the client's file: the frames of its
\* last part "file" in order, without those the codec refused or still holds and
\* those the resampler failed on.
UploadIntact ==
  pc = "accepted" =>
    \E n \in 0..Len(form) :
      /\ Says(n) /\ {"file", "model"} \subseteq MeantNames(n)
      /\ LET data == Meant(n, "file").data
             heard == {i \in DOMAIN data : i < at /\ data[i] = <<"audio">>} \ corrupt
             all == s16 \o inside
         IN  /\ {all[i] : i \in DOMAIN all} = heard
             /\ \A i, j \in DOMAIN all : i < j => all[i] < all[j]

\* "Throws std::runtime_error on [...] decode failure": a result is complete.
FailureThrows ==
  pc = "accepted" =>
    {s16[i] : i \in DOMAIN s16} = {i \in DOMAIN packets : packets[i] = "audio"}

(***************************************************************************)
(* Forms that can be parsed, and the inductive invariants                  *)
(***************************************************************************)
PartSymbols(f) == {f.headers[i] : i \in DOMAIN f.headers} \cup {f.data[i] : i \in DOMAIN f.data}

SymbolsOf(fields) == {NL, Dashes, Delim("b")} \cup UNION {PartSymbols(f) : f \in fields}

Symbols == SymbolsOf(Fields)

\* The header lines of a part, without the line break after the last.
HeaderLines(f) ==
  [i \in 1..(2 * Len(f.headers) - 1) |-> IF i % 2 = 1 THEN f.headers[(i + 1) \div 2] ELSE NL]

\* What a part needs: it has headers, they say what is meant (RFC 7578 would also
\* have them with filename in front of name, which this parser misreads), and no
\* line of the data begins with the boundary.  A piece of audio is one symbol.
WellFormedPart(f) ==
  /\ f.headers # <<>> /\ \A i \in DOMAIN f.headers : f.headers[i] # NL
  /\ field_name(HeaderLines(f)) = f.name
  /\ PartOf(HeaderLines(f), f.data) = Content(f)
  /\ \A i \in 1..(Len(f.data) - 1) : f.data[i] = NL => f.data[i + 1] # Delim("b")
  /\ \A i \in 1..Len(f.data) : f.data[i][1] = "audio" => f.data[i] = <<"audio">>

\* All parts are, and what the code takes for a boundary when a parameter
\* follows it is in none of them.
WellFormed(fields) ==
  /\ \A f \in fields : /\ f.headers \in Seq(SymbolsOf(fields)) /\ f.data \in Seq(SymbolsOf(fields))
                       /\ WellFormedPart(f)
  /\ Delim("b; more") \notin SymbolsOf(fields)

\* Each part of the form is in sent, from its place in starts on.
Written ==
  /\ form \in Seq(Fields) /\ sent \in Seq(Symbols) /\ starts \in Seq(Nat)
  /\ Len(starts) = Len(form) + 1 /\ starts[1] = 1
  /\ \A i \in 1..Len(form) :
       /\ starts[i + 1] = starts[i] + Len(Encoded(form[i])) /\ starts[i + 1] <= Len(sent) + 1
       /\ \A k \in 1..Len(Encoded(form[i])) : sent[starts[i] + k - 1] = Encoded(form[i])[k]
  /\ LET end == starts[Len(form) + 1]
     IN  IF pc = "client" THEN Len(sent) = end - 1
         ELSE Len(sent) = end + 2 /\ \A k \in 1..3 : sent[end + k - 1] = Closing[k]

\* The server got a beginning of it.
Received ==
  body \in Seq(Symbols) /\ Len(body) <= Len(sent) /\ \A i \in 1..Len(body) : body[i] = sent[i]

\* parse() is behind the boundary of part n + 1, or behind the closing one, and
\* has the first n parts.
Parsed ==
  /\ parse_pc \in {"off", "start"} => result = <<>>
  /\ parse_pc \in {"loop", "done"} =>
       /\ boundary = "b"
       /\ \E n \in 0..Len(form) :
            /\ pos = starts[n + 1] + 1 /\ Says(n)
            /\ \A name \in MeantNames(n) : \E i \in 1..n : LastPart(i, n, name)
            /\ parse_pc = "done" /\ body = sent => n = Len(form)

\* What is allocated at each step of decode().
HeldByStep ==
  /\ InSetup => held = Frees(decode_pc)
  /\ decode_pc \in {"loop", "flush"} => held = {"avio", "fmt", "codec", "swr", "pkt", "frame"}
  /\ decode_pc \in {"off", "returned", "threw"} => held = {}
  /\ InSetup \/ decode_pc \in {"off", "loop", "flush", "returned", "threw", "bad_alloc"}

\* The frames in the output, the resampler and the codec, one after the other,
\* are those of the audio packets read so far that were not refused or dropped.
FramesInOrder ==
  LET all == s16 \o resampler \o inside
  IN  /\ s16 \in Seq(Nat) /\ resampler \in Seq(Nat) /\ inside \in Seq(Nat)
      /\ at \in Nat \ {0} /\ codec_delay \in Nat /\ corrupt \subseteq 1..(at - 1)
      /\ Len(packets) \in Nat /\ DOMAIN packets = 1..Len(packets)
      /\ {all[i] : i \in 1..Len(all)} =
           {i \in 1..Len(packets) : i < at /\ packets[i] = "audio"} \ corrupt
      /\ \A i, j \in 1..Len(all) : i < j => all[i] < all[j]

\* The order of handle(): parse, check, decode, check.
HandleOrder ==
  /\ pc \in {"client", "boundary"} => parse_pc = "off" /\ boundary = ""
  /\ pc = "parse" => boundary # "" /\ boundary \in {"b", "b; more"}
  /\ pc \in {"fields", "decode", "duration", "accepted"} => parse_pc = "done"
  /\ pc \in {"client", "boundary", "parse", "fields"} => decode_pc = "off" /\ at = 1
  /\ pc \in {"decode", "duration", "accepted"} =>
       /\ Has("file") /\ Has("model")
       /\ packets = [i \in DOMAIN result["file"].data |-> result["file"].data[i][1]]
  /\ pc \in {"duration", "accepted"} => decode_pc = "returned"
  /\ decode_pc = "returned" => resampler = <<>>

UploadInv == Written /\ Received /\ Parsed /\ HeldByStep /\ FramesInOrder /\ HandleOrder
=============================================================================
