------------------------------ MODULE SseCodec ------------------------------
(***************************************************************************)
(* The Server-Sent Events codec (protocol/sse.rs): the decoder of a body   *)
(* that is in memory, the incremental parser that the streaming path feeds *)
(* with one chunk after the other, and the encoder.                        *)
(*                                                                         *)
(* A byte string is a sequence of tokens: CR and LF, the colon and space   *)
(* that the syntax of a field gives a meaning, words that stand for a run  *)
(* of other bytes, and JSON documents.  A chunk may end after any token.   *)
(* Invalid is a run that is not UTF-8.                                     *)
(***************************************************************************)
EXTENDS Integers, Sequences, SequencesExt

Word(w) == [t |-> "word", v |-> w]

CR == Word("CR")
LF == Word("LF")
Colon == Word(":")
Space == Word(" ")
Invalid == Word("invalid")
Terminators == {CR, LF}

-----------------------------------------------------------------------------
(* One field line.  The name ends at the first colon; one space after it   *)
(* does not belong to the value.                                           *)
SplitField(line) ==
  LET colons == {i \in DOMAIN line : line[i] = Colon}
      pos == CHOOSE i \in colons : \A j \in colons : i <= j
      rest == SubSeq(line, pos + 1, Len(line))
  IN  IF colons = {} THEN [name |-> line, value |-> <<>>]
      ELSE [name |-> SubSeq(line, 1, pos - 1),
            value |-> IF rest # <<>> /\ Head(rest) = Space THEN Tail(rest) ELSE rest]

(* A value that is not UTF-8 counts as empty. *)
Text(value) == IF Contains(value, Invalid) THEN <<>> ELSE value

(* The frame under construction, and the frames that are complete. *)
EmptyFrame == [event |-> <<>>, data |-> <<>>, seen |-> FALSE]

Dispatches(f) == f.seen /\ f.event \in {<<>>, <<Word("message")>>}

(* A blank line dispatches the frame; a comment has an empty field name.   *)
HandleLine(p, line) ==
  IF line = <<>>
  THEN [p EXCEPT !.frame = EmptyFrame,
                 !.pending = IF Dispatches(p.frame)
                             THEN Append(@, p.frame.data) ELSE @]
  ELSE LET f == SplitField(line)
       IN CASE f.name = <<Word("event")>> -> [p EXCEPT !.frame.event = Text(f.value)]
            [] f.name = <<Word("data")>> ->
                 [p EXCEPT !.frame.data = IF p.frame.seen
                                          THEN @ \o <<LF>> \o Text(f.value)
                                          ELSE Text(f.value),
                           !.frame.seen = TRUE]
            [] OTHER -> p

-----------------------------------------------------------------------------
(* The decoder of a whole body: the frames of its lines.  The terminators  *)
(* are LF, CR, and CR LF; what follows the last one is a line too, but     *)
(* without a blank line after it nothing comes of it.                      *)
NothingRead == [lines |-> <<>>, line |-> <<>>, afterCR |-> FALSE]

SplitByte(s, b) ==
  CASE b = LF /\ s.afterCR -> [s EXCEPT !.afterCR = FALSE]
    [] b \in Terminators /\ ~(b = LF /\ s.afterCR) ->
         [lines |-> Append(s.lines, s.line), line |-> <<>>, afterCR |-> b = CR]
    [] OTHER -> [s EXCEPT !.line = Append(@, b), !.afterCR = FALSE]

SplitLines(bytes) ==
  LET split[n \in 0 .. Len(bytes)] ==
        IF n = 0 THEN NothingRead ELSE SplitByte(split[n - 1], bytes[n])
      end == split[Len(bytes)]
  IN  IF end.line = <<>> THEN end.lines ELSE Append(end.lines, end.line)

EmptyParser == [buf |-> <<>>, frame |-> EmptyFrame, pending |-> <<>>]

DecodeFrames(bytes) ==
  LET lines == SplitLines(bytes)
      after[n \in 0 .. Len(lines)] ==
        IF n = 0 THEN EmptyParser ELSE HandleLine(after[n - 1], lines[n])
  IN  after[Len(lines)].pending

-----------------------------------------------------------------------------
(* The incremental parser.  The first line end of the buffer is <<length   *)
(* of the line, length of the terminator>>; a CR in last place may be half *)
(* of a CR LF and is no line end before the input has ended.               *)
NoLineEnd == <<>>

(* A deviation a careless edit could introduce; not part of the            *)
(* specification.                                                          *)
FindLineEndNotWaiting(buf, endOfInput) ==
  LET at == {i \in DOMAIN buf : buf[i] \in Terminators}
      i == CHOOSE k \in at : \A j \in at : k <= j
  IN  IF at = {} THEN NoLineEnd
      ELSE <<i - 1, IF buf[i] = CR /\ i < Len(buf) /\ buf[i + 1] = LF THEN 2 ELSE 1>>

FindLineEnd(buf, endOfInput) ==
  LET at == {i \in DOMAIN buf : buf[i] \in Terminators}
      i == CHOOSE k \in at : \A j \in at : k <= j
  IN  IF at = {} \/ (buf[i] = CR /\ i = Len(buf) /\ ~endOfInput) THEN NoLineEnd
      ELSE <<i - 1, IF buf[i] = CR /\ i < Len(buf) /\ buf[i + 1] = LF THEN 2 ELSE 1>>

CommitLine(p, endOfInput) ==
  LET end == FindLineEnd(p.buf, endOfInput)
  IN  IF end = NoLineEnd THEN p
      ELSE HandleLine([p EXCEPT !.buf = SubSeq(@, end[1] + end[2] + 1, Len(@))],
                      SubSeq(p.buf, 1, end[1]))

(* A line end takes up a token at least, so that the loop over the lines   *)
(* of the buffer ends within as many turns as the buffer has tokens.       *)
Feed(p, chunk, endOfInput) ==
  LET fed == [p EXCEPT !.buf = @ \o chunk]
      turn[n \in 0 .. Len(fed.buf)] ==
        IF n = 0 THEN fed ELSE CommitLine(turn[n - 1], endOfInput)
  IN  turn[Len(fed.buf)]

-----------------------------------------------------------------------------
(* The encoder: one message frame for each payload. *)
EncodeOne(payload) ==
  <<Word("event"), Colon, Space, Word("message"), LF,
    Word("data"), Colon, Space>> \o payload \o <<LF, LF>>

EncodeResults(payloads) ==
  FlattenSeq([i \in DOMAIN payloads |-> EncodeOne(payloads[i])])
=============================================================================
