-------------------------- MODULE MultipartParser --------------------------
(***************************************************************************)
(* src/src/server/MultipartParser.cpp: parse() cuts the body of an upload  *)
(* into its parts with plain substring searches.                           *)
(*                                                                         *)
(* A body is a sequence of symbols: a line break, "--" with a boundary,    *)
(* "--" alone, a header line, a piece of data.  Where the code searches    *)
(* for a string of two of them the model searches for the two symbols.     *)
(***************************************************************************)
EXTENDS Integers, Sequences

VARIABLES
  body,      \* the body, as it was received
  boundary,  \* what extractBoundary() made of the Content-Type
  parse_pc,  \* "off", "start", "loop", and how it ends: "done", "threw"
  pos,       \* the symbol the parser is at
  result     \* the parts found, by field name

parserVars == <<body, boundary, parse_pc, pos, result>>

NL == <<"line break">>
Dashes == <<"--">>
Delim(b) == <<"--", b>>
Line(header, params) == <<"line", header, params>>

(***************************************************************************)
(* extractBoundary()                                                       *)
(***************************************************************************)
\* Without quotes all of the rest of the Content-Type is taken, also what
\* belongs to a parameter that follows.
extractBoundary(content_type) ==
  CASE content_type = "no boundary" -> ""
    [] content_type = "unquoted, more follows" -> "b; more"
    [] OTHER -> "b"

(***************************************************************************)
(* Searches                                                                *)
(***************************************************************************)
npos == 0

\* body.find(pattern, from)
find(pattern, from) ==
  LET at == {i \in from..(Len(body) - Len(pattern) + 1) :
               SubSeq(body, i, i + Len(pattern) - 1) = pattern}
  IN  IF at = {} THEN npos ELSE CHOOSE i \in at : \A j \in at : i <= j

\* The search for name=" also stops at the end of filename=".
EndsWith(key, param) == key = param \/ (key = "filename" /\ param = "name")

extractDispositionParam(params, param) ==
  LET hits == {i \in DOMAIN params : EndsWith(params[i][1], param)}
  IN  IF hits = {} THEN "" ELSE params[CHOOSE i \in hits : \A j \in hits : i <= j][2]

(***************************************************************************)
(* The headers of one part                                                 *)
(***************************************************************************)
\* The lines of hdrs with this header; the last of them decides.
LinesOf(hdrs, header) ==
  {i \in DOMAIN hdrs : /\ hdrs[i][1] = "line" /\ hdrs[i][2] = header
                       /\ i > 1 => hdrs[i - 1] = NL}

ParamOf(hdrs, header, param) ==
  LET lines == LinesOf(hdrs, header)
  IN  IF lines = {} THEN ""
      ELSE extractDispositionParam(hdrs[CHOOSE i \in lines : \A j \in lines : j <= i][3], param)

field_name(hdrs) == ParamOf(hdrs, "content-disposition", "name")

PartOf(hdrs, data) ==
  [filename |-> ParamOf(hdrs, "content-disposition", "filename"),
   content_type |-> ParamOf(hdrs, "content-type", "value"),
   data |-> data]

\* result[name] = part: a part of the same name is replaced.
WithField(name, part) ==
  [x \in DOMAIN result \cup {name} |-> IF x = name THEN part ELSE result[x]]

(***************************************************************************)
(* parse()                                                                 *)
(***************************************************************************)
ParserInit == parse_pc = "off" /\ pos = 1 /\ result = <<>>

ParseThrows == parse_pc' = "threw" /\ UNCHANGED <<pos, result>>

ParseStart ==
  /\ parse_pc = "start"
  /\ LET first == find(<<Delim(boundary)>>, 1)
     IN  IF first = npos THEN ParseThrows
         ELSE parse_pc' = "loop" /\ pos' = first + 1 /\ UNCHANGED result
  /\ UNCHANGED <<body, boundary>>

\* What follows a boundary: "--" or anything else but a line break ends the loop.
ParseEnds ==
  /\ parse_pc = "loop" /\ (pos <= Len(body) => body[pos] # NL)
  /\ parse_pc' = "done"
  /\ UNCHANGED <<body, boundary, pos, result>>

PartEnd_AnyDelim(from) == find(<<Delim(boundary)>>, from)

\* Where the data ends: at a boundary at the start of a line.
PartEnd(from) == find(<<NL, Delim(boundary)>>, from)

ParsePart ==
  /\ parse_pc = "loop" /\ pos <= Len(body) /\ body[pos] = NL
  /\ LET hdrs_end == find(<<NL, NL>>, pos + 1)
         hdrs == SubSeq(body, pos + 1, hdrs_end - 1)
         next == PartEnd(hdrs_end + 2)
     IN  IF hdrs_end = npos \/ next = npos THEN ParseThrows
         ELSE /\ result' = IF field_name(hdrs) = "" THEN result
                           ELSE WithField(field_name(hdrs),
                                          PartOf(hdrs, SubSeq(body, hdrs_end + 2, next - 1)))
              /\ pos' = next + 2 /\ UNCHANGED parse_pc
  /\ UNCHANGED <<body, boundary>>

ParserStep == ParseStart \/ ParseEnds \/ ParsePart
=============================================================================
