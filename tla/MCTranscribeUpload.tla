------------------------- MODULE MCTranscribeUpload -------------------------
(* TranscribeUpload for TLC: the fields a form may have.                   *)
EXTENDS TranscribeUpload

Audio == <<"audio">>
Video == <<"video">>

Disposition(params) == Line("content-disposition", params)
TypeLine == Line("content-type", <<<<"value", "audio/ogg">>>>)

\* A text field.
Text(name, data) ==
  [name |-> name, filename |-> "", content_type |-> "", data |-> data,
   headers |-> <<Disposition(<<<<"name", name>>>>)>>]

\* A file, with its headers in either order.
File(data, typeFirst) ==
  LET d == Disposition(<<<<"name", "file">>, <<"filename", "a.ogg">>>>)
  IN  [name |-> "file", filename |-> "a.ogg", content_type |-> "audio/ogg", data |-> data,
       headers |-> IF typeFirst THEN <<TypeLine, d>> ELSE <<d, TypeLine>>]

\* The same file with the parameters of its disposition the other way round.
SwappedFile ==
  [File(<<Audio>>, FALSE) EXCEPT
     !.headers = <<Disposition(<<<<"filename", "a.ogg">>, <<"name", "file">>>>), TypeLine>>]

\* A part without a name.
Nameless == [Text("", <<Audio>>) EXCEPT !.headers = <<TypeLine>>, !.content_type = "audio/ogg"]

\* Data with line breaks, empty lines and the boundary within a line.
FileData ==
  {<<>>, <<Video>>, <<Audio, Audio, Video>>, <<Audio, NL, NL, Audio>>, <<Delim("b"), Audio, NL>>}

MCFields ==
  {File(d, FALSE) : d \in FileData} \cup
  {File(<<Audio, Delim("b")>>, TRUE), Nameless, Text("model", <<<<"w">>>>),
   Text("response_format", <<<<"json">>>>), Text("response_format", <<<<"srt">>>>)}

\* Every field but SwappedFile satisfies the hypothesis of the theorems.
ASSUME MCFieldsWellFormed == WellFormed(MCFields)

SwappedFields == {SwappedFile, Text("model", <<<<"w">>>>)}
=============================================================================
