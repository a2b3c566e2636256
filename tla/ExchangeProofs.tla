--------------------------- MODULE ExchangeProofs ---------------------------
(***************************************************************************)
(* Proofs about one exchange from end to end, for any requests, answers    *)
(* and rewriting: the times it reports, the calls that reach the server,   *)
(* the agreement of the two sinks, what a client is told of an event       *)
(* stream that arrives in pieces, and that the log and the events about    *)
(* schemas keep up with what a client is told.  For the last three the     *)
(* codec of event streams is dealt with first.                             *)
(***************************************************************************)
EXTENDS Exchange, ListProofs

-----------------------------------------------------------------------------
(* The codec of event streams gives back what it was fed: frames made of   *)
(* the tokens of the stream, and of the line feed that joins two lines of  *)
(* data.                                                                   *)
FrameType(D) == [event : Seq(D), data : Seq(D), seen : BOOLEAN]
ParserType(D) == [buf : Seq(D), frame : FrameType(D), pending : Seq(Seq(D))]
SplitType(D) == [lines : Seq(Seq(D)), line : Seq(D), afterCR : BOOLEAN]

LEMMA CutTyped ==
  ASSUME NEW D, NEW s \in Seq(D), NEW m \in Nat, NEW n \in Nat, 1 <= m, n <= Len(s)
  PROVE  SubSeq(s, m, n) \in Seq(D)
<1>1. \A i \in m .. n : s[i] \in D
  BY LenProperties
<1> QED BY <1>1, SubSeqProperties

LEMMA EmptyParserTyped ==
  ASSUME NEW D
  PROVE  EmptyFrame \in FrameType(D) /\ EmptyParser \in ParserType(D)
<1>1. <<>> \in Seq(D) /\ <<>> \in Seq(Seq(D))
  OBVIOUS
<1> QED BY <1>1 DEF EmptyFrame, EmptyParser, FrameType, ParserType

LEMMA SplitFieldTyped ==
  ASSUME NEW D, NEW line \in Seq(D)
  PROVE  SplitField(line).name \in Seq(D) /\ Text(SplitField(line).value) \in Seq(D)
<1> DEFINE colons == {i \in DOMAIN line : line[i] = Colon}
           pos == CHOOSE i \in colons : \A j \in colons : i <= j
           rest == SubSeq(line, pos + 1, Len(line))
           value == IF rest # <<>> /\ Head(rest) = Space THEN Tail(rest) ELSE rest
<1>1. CASE colons = {}
  <2>1. SplitField(line).name = line /\ SplitField(line).value = <<>>
    BY <1>1 DEF SplitField
  <2> QED BY <2>1 DEF Text
<1>2. CASE colons # {}
  <2>1. Len(line) \in Nat /\ DOMAIN line = 1 .. Len(line)
    BY LenProperties
  <2>2. colons \in SUBSET Nat /\ IsFiniteSet(colons)
    <3>1. colons \subseteq 1 .. Len(line)
      BY <2>1
    <3> HIDE DEF colons
    <3>2. IsFiniteSet(1 .. Len(line))
      BY <2>1, UpToFinite
    <3>3. IsFiniteSet(colons)
      BY <3>1, <3>2, FS_Subset
    <3> QED BY <3>1, <3>3
  <2>3. \E i \in colons : \A j \in colons : i <= j
    <3> HIDE DEF colons
    <3> QED BY <1>2, <2>2, LeastNumber
  <2>4. pos \in 1 .. Len(line)
    <3> HIDE DEF colons
    <3>1. pos \in colons
      BY <2>3
    <3> QED BY <2>1, <3>1 DEF colons
  <2>5. SplitField(line).name = SubSeq(line, 1, pos - 1) /\ SplitField(line).value = value
    BY <1>2 DEF SplitField
  <2> HIDE DEF pos
  <2>6. SubSeq(line, 1, pos - 1) \in Seq(D) /\ rest \in Seq(D)
    <3>1. pos - 1 \in Nat /\ pos - 1 <= Len(line) /\ pos + 1 \in Nat /\ 1 <= pos + 1
      BY <2>1, <2>4
    <3> QED BY <2>1, <3>1, CutTyped
  <2> HIDE DEF rest
  <2>7. value \in Seq(D)
    BY <2>6, HeadTailProperties
  <2> QED BY <2>5, <2>6, <2>7 DEF Text
<1> QED BY <1>1, <1>2

LEMMA HandleLineTyped ==
  ASSUME NEW D, LF \in D, NEW p \in ParserType(D), NEW line \in Seq(D)
  PROVE  HandleLine(p, line) \in ParserType(D)
<1>1. /\ p.buf \in Seq(D) /\ p.pending \in Seq(Seq(D)) /\ p.frame \in FrameType(D)
      /\ p = [buf |-> p.buf, frame |-> p.frame, pending |-> p.pending]
  BY DEF ParserType
<1>2. /\ p.frame.event \in Seq(D) /\ p.frame.data \in Seq(D) /\ p.frame.seen \in BOOLEAN
      /\ p.frame = [event |-> p.frame.event, data |-> p.frame.data, seen |-> p.frame.seen]
  BY <1>1 DEF FrameType
<1>3. CASE line = <<>>
  <2> DEFINE more == IF Dispatches(p.frame) THEN Append(p.pending, p.frame.data)
                                            ELSE p.pending
             L == Seq(D)
  <2>1. more \in Seq(L)
    <3>1. p.pending \in Seq(L) /\ p.frame.data \in L
      BY <1>1, <1>2
    <3> HIDE DEF L
    <3> QED BY <3>1
  <2> HIDE DEF more
  <2>2. HandleLine(p, line) = [p EXCEPT !.frame = EmptyFrame, !.pending = more]
    BY <1>3 DEF HandleLine, more
  <2> QED BY <1>1, <2>1, <2>2, EmptyParserTyped DEF ParserType
<1>4. CASE line # <<>>
  <2> DEFINE f == SplitField(line)
             text == Text(f.value)
             data == IF p.frame.seen THEN p.frame.data \o <<LF>> \o text ELSE text
  <2>1. text \in Seq(D)
    BY SplitFieldTyped
  <2> HIDE DEF f, text
  <2>2. data \in Seq(D)
    <3>1. <<LF>> \in Seq(D)
      OBVIOUS
    <3>2. p.frame.data \o <<LF>> \in Seq(D)
      BY <1>2, <3>1, ConcatProperties
    <3>3. p.frame.data \o <<LF>> \o text \in Seq(D)
      BY <2>1, <3>2, ConcatProperties
    <3> QED BY <2>1, <3>3
  <2> HIDE DEF data
  <2>3. \/ HandleLine(p, line) = [p EXCEPT !.frame.event = text]
        \/ HandleLine(p, line) = [p EXCEPT !.frame.data = data, !.frame.seen = TRUE]
        \/ HandleLine(p, line) = p
    BY <1>4 DEF HandleLine, f, text, data
  <2>4. [p EXCEPT !.frame.event = text] \in ParserType(D)
    <3>1. [p.frame EXCEPT !.event = text] \in FrameType(D)
      BY <1>1, <2>1 DEF FrameType
    <3> QED BY <1>1, <3>1 DEF ParserType
  <2>5. [p EXCEPT !.frame.data = data, !.frame.seen = TRUE] \in ParserType(D)
    <3>1. [p.frame EXCEPT !.data = data, !.seen = TRUE] \in FrameType(D)
      BY <1>1, <2>2 DEF FrameType
    <3> QED BY <1>1, <3>1 DEF ParserType
  <2> QED BY <2>3, <2>4, <2>5
<1> QED BY <1>3, <1>4

LEMMA SplitByteTyped ==
  ASSUME NEW D, NEW s \in SplitType(D), NEW b \in D
  PROVE  SplitByte(s, b) \in SplitType(D)
<1> DEFINE L == Seq(D)
           lines == Append(s.lines, s.line)
           line == Append(s.line, b)
<1>1. /\ s = [lines |-> s.lines, line |-> s.line, afterCR |-> s.afterCR]
      /\ s.lines \in Seq(L) /\ s.line \in L
  BY DEF SplitType
<1>2. lines \in Seq(L)
  <2> HIDE DEF L
  <2> QED BY <1>1
<1>3. line \in Seq(D)
  BY <1>1
<1> HIDE DEF lines, line
<1>4. [s EXCEPT !.afterCR = FALSE] \in SplitType(D)
  BY <1>1 DEF SplitType
<1>5. [lines |-> lines, line |-> <<>>, afterCR |-> b = CR] \in SplitType(D)
  <2>1. (b = CR) \in BOOLEAN
    OBVIOUS
  <2> QED BY <1>2, <2>1 DEF SplitType
<1>6. [s EXCEPT !.line = line, !.afterCR = FALSE] \in SplitType(D)
  BY <1>1, <1>3 DEF SplitType
<1>7. \/ SplitByte(s, b) = [s EXCEPT !.afterCR = FALSE]
      \/ SplitByte(s, b) = [lines |-> lines, line |-> <<>>, afterCR |-> b = CR]
      \/ SplitByte(s, b) = [s EXCEPT !.line = line, !.afterCR = FALSE]
  BY DEF SplitByte, lines, line
<1> QED BY <1>4, <1>5, <1>6, <1>7

(* The lines of bytes, and what comes of lines, as functions of lists.     *)
SplitStep(D) == [s \in SplitType(D) |-> [b \in D |-> SplitByte(s, b)]]
LineStep(D) == [p \in ParserType(D) |-> [line \in Seq(D) |-> HandleLine(p, line)]]

Split(D) == CHOOSE F : FoldsTo(F, D, SplitType(D), NothingRead, SplitStep(D))
Handled(D) == CHOOSE F : FoldsTo(F, Seq(D), ParserType(D), EmptyParser, LineStep(D))

LEMMA SplitStepTyped ==
  ASSUME NEW D
  PROVE  /\ NothingRead \in SplitType(D)
         /\ SplitStep(D) \in [SplitType(D) -> [D -> SplitType(D)]]
<1>1. <<>> \in Seq(D) /\ <<>> \in Seq(Seq(D))
  OBVIOUS
<1> QED BY <1>1, SplitByteTyped DEF NothingRead, SplitType, SplitStep

LEMMA SplitFolds ==
  ASSUME NEW D
  PROVE  FoldsTo(Split(D), D, SplitType(D), NothingRead, SplitStep(D))
<1>1. NothingRead \in SplitType(D) /\ SplitStep(D) \in [SplitType(D) -> [D -> SplitType(D)]]
  BY SplitStepTyped
<1>3. \E F : FoldsTo(F, D, SplitType(D), NothingRead, SplitStep(D))
  BY <1>1, FoldOverList
<1> QED BY <1>3 DEF Split

LEMMA HandledFolds ==
  ASSUME NEW D, LF \in D
  PROVE  FoldsTo(Handled(D), Seq(D), ParserType(D), EmptyParser, LineStep(D))
<1>1. EmptyParser \in ParserType(D)
  BY EmptyParserTyped
<1>2. LineStep(D) \in [ParserType(D) -> [Seq(D) -> ParserType(D)]]
  BY HandleLineTyped DEF LineStep
<1>3. \E F : FoldsTo(F, Seq(D), ParserType(D), EmptyParser, LineStep(D))
  BY <1>1, <1>2, FoldOverList
<1> QED BY <1>3 DEF Handled

(* The lines of bytes grow with every byte. *)
LEMMA SplitFacts ==
  ASSUME NEW D
  PROVE  /\ Split(D)[<<>>] = NothingRead
         /\ \A s \in Seq(D) : Split(D)[s] \in SplitType(D)
         /\ \A s \in Seq(D), b \in D : Split(D)[Append(s, b)] = SplitByte(Split(D)[s], b)
<1>1. \A s \in Seq(D) : Split(D)[s] \in SplitType(D)
  BY SplitFolds DEF FoldsTo
<1>2. ASSUME NEW s \in Seq(D), NEW b \in D
      PROVE  Split(D)[Append(s, b)] = SplitByte(Split(D)[s], b)
  <2>1. Split(D)[Append(s, b)] = SplitStep(D)[Split(D)[s]][b]
    BY SplitFolds DEF FoldsTo
  <2> QED BY <1>1, <2>1 DEF SplitStep
<1>3. Split(D)[<<>>] = NothingRead
  BY SplitFolds DEF FoldsTo
<1> QED BY <1>1, <1>2, <1>3

(* What comes of lines grows with every line. *)
LEMMA HandledFacts ==
  ASSUME NEW D, LF \in D
  PROVE  /\ Handled(D)[<<>>] = EmptyParser
         /\ \A ls \in Seq(Seq(D)) : Handled(D)[ls] \in ParserType(D)
         /\ \A ls \in Seq(Seq(D)), l \in Seq(D) :
              Handled(D)[Append(ls, l)] = HandleLine(Handled(D)[ls], l)
<1> DEFINE L == Seq(D)
<1>0. FoldsTo(Handled(D), L, ParserType(D), EmptyParser, LineStep(D))
  BY HandledFolds
<1>1. \A ls \in Seq(L) : Handled(D)[ls] \in ParserType(D)
  <2> HIDE DEF L
  <2> QED BY <1>0 DEF FoldsTo
<1>2. ASSUME NEW ls \in Seq(L), NEW l \in L
      PROVE  Handled(D)[Append(ls, l)] = HandleLine(Handled(D)[ls], l)
  <2>1. Handled(D)[Append(ls, l)] = LineStep(D)[Handled(D)[ls]][l]
    <3> HIDE DEF L
    <3> QED BY <1>0 DEF FoldsTo
  <2> QED BY <1>1, <2>1 DEF LineStep
<1>3. Handled(D)[<<>>] = EmptyParser
  BY <1>0 DEF FoldsTo
<1> QED BY <1>1, <1>2, <1>3

(* The recursion of SplitLines is that function of the bytes. *)
LEMMA SplitLinesSplits ==
  ASSUME NEW D, NEW bytes \in Seq(D)
  PROVE  LET s == Split(D)[bytes]
         IN  SplitLines(bytes) = IF s.line = <<>> THEN s.lines ELSE Append(s.lines, s.line)
<1> DEFINE N == Len(bytes)
           next(h) == [n \in 0 .. N |-> IF n = 0 THEN NothingRead
                                        ELSE SplitByte(h[n - 1], bytes[n])]
           f == CHOOSE h : h = next(h)
<1>1. N \in Nat /\ \A n \in 1 .. N : bytes[n] \in D
  BY LenProperties
<1>2. PICK g \in [0 .. N -> SplitType(D)] : Follows(g, bytes, NothingRead, SplitStep(D))
  BY SplitStepTyped, FoldRuns
<1>3. g[0] = NothingRead /\ \A n \in 1 .. N : g[n] = SplitByte(g[n - 1], bytes[n])
  <2>1. ASSUME NEW n \in 1 .. N
        PROVE  g[n] = SplitByte(g[n - 1], bytes[n])
    <3>1. n - 1 \in 0 .. N /\ bytes[n] \in D
      BY <1>1
    <3>2. g[n - 1] \in SplitType(D)
      BY <3>1
    <3>3. g[n] = SplitStep(D)[g[n - 1]][bytes[n]]
      BY <1>2 DEF Follows
    <3> QED BY <3>1, <3>2, <3>3 DEF SplitStep
  <2> QED BY <1>2, <2>1 DEF Follows
<1>4. SplitLines(bytes) = IF f[N].line = <<>> THEN f[N].lines
                          ELSE Append(f[N].lines, f[N].line)
  BY DEF SplitLines
<1>5. g[N] = Split(D)[bytes]
  BY <1>2, SplitFolds DEF FoldsTo
<1> HIDE DEF N
<1>6. g = next(g)
  <2> SUFFICES ASSUME NEW n \in 0 .. N
               PROVE  g[n] = next(g)[n]
    OBVIOUS
  <2>1. n # 0 => n \in 1 .. N
    BY <1>1
  <2> QED BY <1>3, <2>1
<1>7. f = next(f)
  <2> HIDE DEF next
  <2> QED BY <1>6
<1> HIDE DEF f
<1>8. f[0] = NothingRead /\ \A n \in 1 .. N : f[n] = SplitByte(f[n - 1], bytes[n])
  <2>1. 0 \in 0 .. N
    BY <1>1
  <2>2. \A n \in 1 .. N : n \in 0 .. N /\ n # 0
    BY <1>1
  <2> QED BY <1>7, <2>1, <2>2
<1>9. Alike(f, g, N)
  BY <1>3, <1>8 DEF Alike
<1>10. f[N] = Split(D)[bytes]
  BY <1>1, <1>5, <1>9, GoOnAlike
<1> QED BY <1>4, <1>10

LEMMA LineStepTyped ==
  ASSUME NEW D, LF \in D
  PROVE  /\ EmptyParser \in ParserType(D)
         /\ LineStep(D) \in [ParserType(D) -> [Seq(D) -> ParserType(D)]]
BY EmptyParserTyped, HandleLineTyped DEF LineStep

(* The recursion of DecodeFrames is that function of the lines. *)
LEMMA DecodeHandles ==
  ASSUME NEW D, LF \in D, NEW bytes \in Seq(D)
  PROVE  /\ SplitLines(bytes) \in Seq(Seq(D))
         /\ DecodeFrames(bytes) = Handled(D)[SplitLines(bytes)].pending
<1> DEFINE lines == SplitLines(bytes)
           L == Seq(D)
           P == ParserType(D)
           N == Len(lines)
           next(h) == [n \in 0 .. N |-> IF n = 0 THEN EmptyParser
                                        ELSE HandleLine(h[n - 1], lines[n])]
           f == CHOOSE h : h = next(h)
<1>0. lines \in Seq(L)
  <2> DEFINE s == Split(D)[bytes]
  <2>1. s.lines \in Seq(L) /\ s.line \in L
    BY SplitFacts DEF SplitType
  <2>2. lines = IF s.line = <<>> THEN s.lines ELSE Append(s.lines, s.line)
    BY SplitLinesSplits
  <2> HIDE DEF s, L, lines
  <2> QED BY <2>1, <2>2
<1>1. N \in Nat /\ \A n \in 1 .. N : lines[n] \in L
  <2> HIDE DEF L, lines
  <2> QED BY <1>0, LenProperties
<1>2. PICK g \in [0 .. N -> P] : Follows(g, lines, EmptyParser, LineStep(D))
  <2>1. EmptyParser \in P /\ LineStep(D) \in [P -> [L -> P]]
    BY LineStepTyped
  <2> HIDE DEF L, P, lines
  <2> QED BY <1>0, <2>1, FoldRuns
<1> HIDE DEF lines
<1>3. g[0] = EmptyParser /\ \A n \in 1 .. N : g[n] = HandleLine(g[n - 1], lines[n])
  <2>1. ASSUME NEW n \in 1 .. N
        PROVE  g[n] = HandleLine(g[n - 1], lines[n])
    <3>1. n - 1 \in 0 .. N /\ lines[n] \in L
      BY <1>1
    <3>2. g[n - 1] \in P
      BY <3>1
    <3>3. g[n] = LineStep(D)[g[n - 1]][lines[n]]
      BY <1>2 DEF Follows
    <3> QED BY <3>1, <3>2, <3>3 DEF LineStep
  <2> QED BY <1>2, <2>1 DEF Follows
<1>4. DecodeFrames(bytes) = f[N].pending
  BY DEF DecodeFrames, lines
<1>5. g[N] = Handled(D)[lines]
  <2>1. FoldsTo(Handled(D), L, P, EmptyParser, LineStep(D))
    BY HandledFolds
  <2> HIDE DEF L, P
  <2> QED BY <1>0, <1>2, <2>1 DEF FoldsTo
<1> HIDE DEF N
<1>6. g = next(g)
  <2> SUFFICES ASSUME NEW n \in 0 .. N
               PROVE  g[n] = next(g)[n]
    OBVIOUS
  <2>1. n # 0 => n \in 1 .. N
    BY <1>1
  <2> QED BY <1>3, <2>1
<1>7. f = next(f)
  <2> HIDE DEF next
  <2> QED BY <1>6
<1> HIDE DEF f
<1>8. f[0] = EmptyParser /\ \A n \in 1 .. N : f[n] = HandleLine(f[n - 1], lines[n])
  <2>1. 0 \in 0 .. N
    BY <1>1
  <2>2. \A n \in 1 .. N : n \in 0 .. N /\ n # 0
    BY <1>1
  <2> QED BY <1>7, <2>1, <2>2
<1>9. Alike(f, g, N)
  BY <1>3, <1>8 DEF Alike
<1>10. f[N] = Handled(D)[lines]
  BY <1>1, <1>5, <1>9, GoOnAlike
<1> QED BY <1>0, <1>4, <1>10 DEF lines

LEMMA DecodeFramesTyped ==
  ASSUME NEW D, LF \in D, NEW bytes \in Seq(D)
  PROVE  DecodeFrames(bytes) \in Seq(Seq(D))
BY DecodeHandles, HandledFacts DEF ParserType

(* What comes of a line: the frame it is added to decides, and what it     *)
(* adds to the frames that wait does not depend on them.                   *)
LineAddsTo(D, p, q, line) ==
  /\ HandleLine(p, line).buf = p.buf
  /\ HandleLine(p, line).frame = HandleLine(q, line).frame
  /\ line # <<>> => HandleLine(p, line).pending = p.pending
  /\ \E more \in Seq(Seq(D)) :
       /\ HandleLine(p, line).pending = p.pending \o more
       /\ HandleLine(q, line).pending = q.pending \o more

LEMMA LineAdds ==
  ASSUME NEW D, LF \in D, NEW p \in ParserType(D), NEW q \in ParserType(D),
         p.frame = q.frame, NEW line \in Seq(D)
  PROVE  LineAddsTo(D, p, q, line)
<1> DEFINE L == Seq(D)
<1> SUFFICES /\ HandleLine(p, line).buf = p.buf
             /\ HandleLine(p, line).frame = HandleLine(q, line).frame
             /\ line # <<>> => HandleLine(p, line).pending = p.pending
             /\ \E more \in Seq(L) :
                  /\ HandleLine(p, line).pending = p.pending \o more
                  /\ HandleLine(q, line).pending = q.pending \o more
  BY DEF LineAddsTo
<1>1. /\ p.pending \in Seq(L) /\ q.pending \in Seq(L) /\ p.frame.data \in L
      /\ p = [buf |-> p.buf, frame |-> p.frame, pending |-> p.pending]
      /\ q = [buf |-> q.buf, frame |-> q.frame, pending |-> q.pending]
  BY DEF ParserType, FrameType
<1>2. CASE line = <<>>
  <2> DEFINE more == IF Dispatches(p.frame) THEN <<p.frame.data>> ELSE <<>>
  <2>1. more \in Seq(L)
    <3> HIDE DEF L
    <3> QED BY <1>1
  <2>2. /\ HandleLine(p, line).pending = p.pending \o more
        /\ HandleLine(q, line).pending = q.pending \o more
    <3>1. /\ p.pending \o <<>> = p.pending /\ q.pending \o <<>> = q.pending
          /\ Append(p.pending, p.frame.data) = p.pending \o <<p.frame.data>>
          /\ Append(q.pending, p.frame.data) = q.pending \o <<p.frame.data>>
      <4> HIDE DEF L
      <4> QED BY <1>1, ConcatEmptySeq, AppendIsConcat
    <3>2. HandleLine(p, line).pending
            = IF Dispatches(p.frame) THEN Append(p.pending, p.frame.data) ELSE p.pending
      BY <1>1, <1>2 DEF HandleLine
    <3>3. HandleLine(q, line).pending
            = IF Dispatches(p.frame) THEN Append(q.pending, p.frame.data) ELSE q.pending
      BY <1>1, <1>2 DEF HandleLine
    <3> QED BY <3>1, <3>2, <3>3
  <2>3. HandleLine(p, line).frame = EmptyFrame /\ HandleLine(q, line).frame = EmptyFrame
        /\ HandleLine(p, line).buf = p.buf
    BY <1>1, <1>2 DEF HandleLine
  <2> HIDE DEF more
  <2> QED BY <1>2, <2>1, <2>2, <2>3
<1>3. CASE line # <<>>
  <2> DEFINE f == SplitField(line)
             text == Text(f.value)
             data == IF p.frame.seen THEN p.frame.data \o <<LF>> \o text ELSE text
             With(r) ==
               CASE f.name = <<Word("event")>> -> [r EXCEPT !.frame.event = text]
                 [] f.name = <<Word("data")>> -> [r EXCEPT !.frame.data = data, !.frame.seen = TRUE]
                 [] OTHER -> r
  <2>1. HandleLine(p, line) = With(p) /\ HandleLine(q, line) = With(q)
    BY <1>3 DEF HandleLine
  <2> HIDE DEF f, text, data
  <2>2. /\ With(p).frame = With(q).frame /\ With(p).buf = p.buf
        /\ With(p).pending = p.pending /\ With(q).pending = q.pending
    BY <1>1
  <2>3. <<>> \in Seq(L) /\ p.pending \o <<>> = p.pending /\ q.pending \o <<>> = q.pending
    <3> HIDE DEF L
    <3> QED BY <1>1, ConcatEmptySeq
  <2> QED BY <2>1, <2>2, <2>3
<1> QED BY <1>2, <1>3

(* What has been read when the bytes have arrived, but for the last line   *)
(* if it has no end.                                                       *)
Read(D, bytes) == Handled(D)[Split(D)[bytes].lines]

LEMMA ReadTyped ==
  ASSUME NEW D, LF \in D, NEW bytes \in Seq(D)
  PROVE  Read(D, bytes) \in ParserType(D)
BY SplitFacts, HandledFacts DEF Read, SplitType

(* A line without an end adds no frame. *)
LEMMA DecodeIsRead ==
  ASSUME NEW D, LF \in D, NEW bytes \in Seq(D)
  PROVE  DecodeFrames(bytes) = Read(D, bytes).pending
<1> DEFINE s == Split(D)[bytes]
           q == Handled(D)[s.lines]
<1>1. s.lines \in Seq(Seq(D)) /\ s.line \in Seq(D)
  BY SplitFacts DEF SplitType
<1>2. SplitLines(bytes) = IF s.line = <<>> THEN s.lines ELSE Append(s.lines, s.line)
  BY SplitLinesSplits
<1> HIDE DEF s
<1>3. q \in ParserType(D) /\ Handled(D)[Append(s.lines, s.line)] = HandleLine(q, s.line)
  BY <1>1, HandledFacts
<1>4. s.line # <<>> => HandleLine(q, s.line).pending = q.pending
  <2> HIDE DEF q
  <2> QED BY <1>1, <1>3, LineAdds DEF LineAddsTo
<1>5. DecodeFrames(bytes) = Handled(D)[SplitLines(bytes)].pending
  BY DecodeHandles
<1> QED BY <1>2, <1>3, <1>4, <1>5 DEF Read, s

(* A line feed that comes next ends no line. *)
AfterReturn(D, bytes) == Split(D)[bytes].afterCR

(* Bytes that end no line only make the line longer. *)
Ending(x) == \E i \in 1 .. Len(x) : x[i] \in Terminators

LEMMA TextSplits ==
  ASSUME NEW D, NEW w \in Seq(D), NEW x \in Seq(D), ~Ending(x)
  PROVE  /\ Split(D)[w \o x].lines = Split(D)[w].lines
         /\ Split(D)[w \o x].line = Split(D)[w].line \o x
         /\ x # <<>> => ~AfterReturn(D, w \o x)
<1> DEFINE s == Split(D)[w]
           t(y) == Split(D)[w \o y]
           Good(y) == /\ t(y).lines = s.lines /\ t(y).line = s.line \o y
                      /\ y # <<>> => t(y).afterCR = FALSE
           T == {y \in Seq(D) : ~Ending(y) => Good(y)}
<1>1. s \in SplitType(D) /\ s.line \in Seq(D) /\ s.afterCR \in BOOLEAN
  BY SplitFacts DEF SplitType
<1>2. <<>> \in T
  <2>1. w \o <<>> = w /\ <<>> \in Seq(D)
    BY ConcatEmptySeq
  <2>2. s.line \o <<>> = s.line
    BY <1>1, ConcatEmptySeq
  <2>3. t(<<>>) = s
    BY <2>1
  <2> HIDE DEF s, t
  <2> QED BY <1>1, <2>1, <2>2, <2>3
<1>3. ASSUME NEW y \in Seq(D), NEW e \in D, y \in T
      PROVE  Append(y, e) \in T
  <2> DEFINE z == Append(y, e)
  <2>1. /\ z \in Seq(D) /\ z # <<>> /\ Len(y) \in Nat /\ Len(z) = Len(y) + 1
        /\ z[Len(y) + 1] = e /\ \A i \in 1 .. Len(y) : z[i] = y[i]
    BY AppendProperties, LenProperties
  <2>2. w \o y \in Seq(D) /\ w \o z = Append(w \o y, e)
    <3>1. w \o y \in Seq(D) /\ <<e>> \in Seq(D)
      BY ConcatProperties
    <3>2. w \o (y \o <<e>>) = (w \o y) \o <<e>>
      BY <3>1, ConcatAssociative
    <3>3. z = y \o <<e>> /\ Append(w \o y, e) = (w \o y) \o <<e>>
      BY <3>1, AppendIsConcat
    <3> QED BY <3>1, <3>2, <3>3
  <2> HIDE DEF z
  <2>3. t(z) = SplitByte(t(y), e) /\ t(y) \in SplitType(D)
    BY <2>2, SplitFacts
  <2> SUFFICES ASSUME ~Ending(z)
               PROVE  Good(z)
    BY <2>1 DEF z
  <2>4. e \notin Terminators
    <3>1. Len(y) + 1 \in 1 .. Len(z)
      BY <2>1
    <3> QED BY <2>1, <3>1 DEF Ending
  <2>5. ~Ending(y)
    <3> SUFFICES ASSUME NEW i \in 1 .. Len(y)
                 PROVE  y[i] \notin Terminators
      BY DEF Ending
    <3>1. i \in 1 .. Len(z)
      BY <2>1
    <3> QED BY <2>1, <3>1 DEF Ending
  <2>6. Good(y)
    BY <1>3, <2>5
  <2>7. e # LF
    BY <2>4 DEF Terminators
  <2> HIDE DEF t
  <2>8. t(z) = [t(y) EXCEPT !.line = Append(@, e), !.afterCR = FALSE]
    BY <2>3, <2>4, <2>7 DEF SplitByte
  <2>9. /\ t(z).lines = t(y).lines /\ t(z).line = Append(t(y).line, e)
        /\ t(z).afterCR = FALSE
    BY <2>3, <2>8 DEF SplitType
  <2>10. Append(s.line \o y, e) = s.line \o z
    <3> DEFINE l == s.line
    <3>1. l \in Seq(D) /\ l \o y \in Seq(D) /\ <<e>> \in Seq(D)
      BY <1>1, ConcatProperties
    <3> HIDE DEF l
    <3>2. l \o (y \o <<e>>) = (l \o y) \o <<e>>
      BY <3>1, ConcatAssociative
    <3>3. z = y \o <<e>> /\ Append(l \o y, e) = (l \o y) \o <<e>>
      BY <3>1, AppendIsConcat DEF z
    <3>4. Append(l \o y, e) = l \o z
      BY <3>2, <3>3
    <3> QED BY <3>4 DEF l
  <2> HIDE DEF s
  <2> QED BY <2>1, <2>6, <2>9, <2>10
<1>4. x \in T
  <2> HIDE DEF T
  <2> QED BY <1>2, <1>3, ListInduction
<1> QED BY <1>4 DEF AfterReturn

(* A line end hands the line over; of a CR LF the CR does. *)
HandsOver(D, w, x, b, v) ==
  /\ Split(D)[v].line = <<>>
  /\ AfterReturn(D, v) <=> b = CR
  /\ Read(D, v) = HandleLine(Read(D, w), x)

LEMMA LineRead ==
  ASSUME NEW D, LF \in D, NEW w \in Seq(D), NEW x \in Seq(D), ~Ending(x),
         NEW b \in D, b \in Terminators, Split(D)[w].line = <<>>,
         b = LF /\ x = <<>> => ~AfterReturn(D, w)
  PROVE  HandsOver(D, w, x, b, (w \o x) \o <<b>>)
<1> DEFINE s == Split(D)[w]
           t == Split(D)[w \o x]
           v == (w \o x) \o <<b>>
<1>1. t.lines = s.lines /\ t.line = s.line \o x /\ (x # <<>> => ~AfterReturn(D, w \o x))
  BY TextSplits
<1>2. t.line = x
  BY <1>1, ConcatEmptySeq
<1>3. w \o x \in Seq(D) /\ v = Append(w \o x, b)
  <2>1. w \o x \in Seq(D)
    BY ConcatProperties
  <2> QED BY <2>1, AppendIsConcat
<1>4. Split(D)[v] = SplitByte(t, b)
  BY <1>3, SplitFacts
<1>5. s.lines \in Seq(Seq(D))
  BY SplitFacts DEF SplitType
<1>6. ~(b = LF /\ t.afterCR)
  <2>1. x = <<>> => w \o x = w
    BY ConcatEmptySeq
  <2>2. b = LF => ~AfterReturn(D, w \o x)
    BY <1>1, <2>1
  <2> QED BY <2>2 DEF AfterReturn
<1> HIDE DEF t, v
<1>7. Split(D)[v] = [lines |-> Append(t.lines, t.line), line |-> <<>>, afterCR |-> b = CR]
  BY <1>4, <1>6 DEF SplitByte
<1>8. Split(D)[v].lines = Append(s.lines, x)
  BY <1>1, <1>2, <1>7
<1>9. Read(D, v) = HandleLine(Read(D, w), x)
  <2>1. Handled(D)[Append(s.lines, x)] = HandleLine(Handled(D)[s.lines], x)
    BY <1>5, HandledFacts
  <2> QED BY <1>8, <2>1 DEF Read
<1>10. Split(D)[v].line = <<>> /\ (AfterReturn(D, v) <=> b = CR)
  <2> DEFINE lines == Append(t.lines, t.line)
             u == Split(D)[v]
  <2>1. u = [lines |-> lines, line |-> <<>>, afterCR |-> b = CR]
    BY <1>7
  <2> HIDE DEF lines, u
  <2>2. u.line = <<>>
    BY <2>1
  <2>3. u.afterCR = (b = CR)
    BY <2>1, Zenon
  <2> QED BY <2>2, <2>3, Zenon DEF AfterReturn, u
<1> QED BY <1>9, <1>10 DEF HandsOver, v

(* A line feed after a return changes nothing but that. *)
LEMMA FeedOfReturn ==
  ASSUME NEW D, LF \in D, NEW w \in Seq(D), AfterReturn(D, w)
  PROVE  /\ Split(D)[w \o <<LF>>].line = Split(D)[w].line
         /\ ~AfterReturn(D, w \o <<LF>>)
         /\ Read(D, w \o <<LF>>) = Read(D, w)
<1> DEFINE s == Split(D)[w]
           v == w \o <<LF>>
<1>1. v = Append(w, LF)
  BY AppendIsConcat
<1>2. Split(D)[v] = SplitByte(s, LF) /\ s \in SplitType(D)
  BY <1>1, SplitFacts
<1> HIDE DEF v
<1>3. Split(D)[v] = [s EXCEPT !.afterCR = FALSE]
  BY <1>2 DEF SplitByte, AfterReturn
<1>4. Split(D)[v].line = s.line /\ Split(D)[v].lines = s.lines /\ Split(D)[v].afterCR = FALSE
  BY <1>2, <1>3 DEF SplitType
<1> QED BY <1>4 DEF v, Read, AfterReturn

(* Bytes after a return end in it. *)
LEMMA ReturnIsLast ==
  ASSUME NEW D, NEW w \in Seq(D)
  PROVE  AfterReturn(D, w) <=> (w # <<>> /\ Last(w) = CR)
<1>1. CASE w = <<>>
  BY <1>1, SplitFacts DEF NothingRead, AfterReturn
<1>2. CASE w # <<>>
  <2>1. PICK v \in Seq(D), b \in D : w = Append(v, b)
    BY <1>2, SequenceEmptyOrAppend
  <2>2. Last(w) = b
    <3>1. Len(w) = Len(v) + 1 /\ w[Len(v) + 1] = b
      BY <2>1, AppendProperties
    <3> QED BY <3>1 DEF Last
  <2>3. Split(D)[w] = SplitByte(Split(D)[v], b) /\ Split(D)[v] \in SplitType(D)
    BY <2>1, SplitFacts
  <2> DEFINE s == Split(D)[v]
  <2> HIDE DEF s
  <2>4. SplitByte(s, b).afterCR <=> b = CR
    <3>1. s \in SplitType(D) /\ LF # CR
      BY <2>3 DEF s, LF, CR, Word
    <3>2. CASE b = LF /\ s.afterCR
      BY <3>1, <3>2 DEF SplitByte, SplitType
    <3>3. CASE b \in Terminators /\ ~(b = LF /\ s.afterCR)
      BY <3>3 DEF SplitByte
    <3>4. CASE b \notin Terminators
      <4>1. b # LF /\ b # CR
        BY <3>4 DEF Terminators
      <4> QED BY <3>1, <3>4, <4>1 DEF SplitByte, SplitType
    <3> QED BY <3>2, <3>3, <3>4
  <2> QED BY <1>2, <2>2, <2>3, <2>4 DEF s, AfterReturn
<1> QED BY <1>1, <1>2

(* The first line end of a buffer, if it is known where it ends.           *)
FirstEnd(buf, i) ==
  /\ i \in 1 .. Len(buf) /\ buf[i] \in Terminators
  /\ \A j \in 1 .. i - 1 : buf[j] \notin Terminators

LEMMA LineEndFound ==
  ASSUME NEW D, NEW buf \in Seq(D), NEW e \in BOOLEAN
  PROVE  /\ FindLineEnd(buf, e) # NoLineEnd =>
               \E i : /\ FirstEnd(buf, i)
                      /\ FindLineEnd(buf, e)[1] = i - 1
                      /\ FindLineEnd(buf, e)[2]
                           = IF buf[i] = CR /\ i < Len(buf) /\ buf[i + 1] = LF THEN 2 ELSE 1
                      /\ buf[i] = CR /\ i = Len(buf) => e
         /\ FindLineEnd(buf, e) = NoLineEnd =>
               \/ ~Ending(buf)
               \/ ~e /\ \E i : FirstEnd(buf, i) /\ i = Len(buf) /\ buf[i] = CR
<1> DEFINE ends == {i \in DOMAIN buf : buf[i] \in Terminators}
           i == CHOOSE k \in ends : \A j \in ends : k <= j
           size == IF buf[i] = CR /\ i < Len(buf) /\ buf[i + 1] = LF THEN 2 ELSE 1
<1>1. Len(buf) \in Nat /\ DOMAIN buf = 1 .. Len(buf)
  BY LenProperties
<1>2. ends = {} => FindLineEnd(buf, e) = NoLineEnd /\ ~Ending(buf)
  BY <1>1 DEF FindLineEnd, Ending
<1>3. ends # {} => FirstEnd(buf, i)
  <2> SUFFICES ASSUME ends # {}
               PROVE  FirstEnd(buf, i)
    OBVIOUS
  <2>1. ends \subseteq 1 .. Len(buf) /\ \A j \in ends : buf[j] \in Terminators
    BY <1>1
  <2>2. \A j \in 1 .. Len(buf) : buf[j] \in Terminators => j \in ends
    BY <1>1
  <2> HIDE DEF ends
  <2>3. IsFiniteSet(1 .. Len(buf))
    BY <1>1, UpToFinite
  <2>4. IsFiniteSet(ends)
    BY <2>1, <2>3, FS_Subset
  <2> ends \in SUBSET Nat
    BY <2>1
  <2>5. \E k \in ends : \A j \in ends : k <= j
    BY <2>4, LeastNumber
  <2>6. i \in ends /\ \A j \in ends : i <= j
    BY <2>5
  <2> HIDE DEF i
  <2>7. i \in 1 .. Len(buf)
    BY <2>1, <2>6
  <2>8. \A j \in 1 .. i - 1 : j \in 1 .. Len(buf) /\ ~(i <= j)
    BY <1>1, <2>7
  <2> QED BY <2>1, <2>2, <2>6, <2>7, <2>8 DEF FirstEnd
<1>4. FindLineEnd(buf, e) = IF ends = {} \/ (buf[i] = CR /\ i = Len(buf) /\ ~e) THEN NoLineEnd
                            ELSE <<i - 1, size>>
  BY DEF FindLineEnd
<1> HIDE DEF ends, i
<1>5. <<i - 1, size>> # NoLineEnd /\ <<i - 1, size>>[1] = i - 1 /\ <<i - 1, size>>[2] = size
  BY DEF NoLineEnd
<1> QED BY <1>2, <1>3, <1>4, <1>5

(* A list is what comes before one of its elements, the element, and what  *)
(* comes after it.                                                         *)
Around(D, s, i, x, rest) ==
  /\ x \in Seq(D) /\ rest \in Seq(D)
  /\ s = (x \o <<s[i]>>) \o rest
  /\ Len(x) = i - 1 /\ Len(rest) = Len(s) - i
  /\ \A j \in 1 .. i - 1 : x[j] = s[j]
  /\ \A j \in 1 .. Len(s) - i : rest[j] = s[i + j]

(* Cutting at an element. *)
LEMMA CutAround ==
  ASSUME NEW D, NEW s \in Seq(D), NEW i \in 1 .. Len(s)
  PROVE  Around(D, s, i, SubSeq(s, 1, i - 1), SubSeq(s, i + 1, Len(s)))
<1> DEFINE x == SubSeq(s, 1, i - 1)
           rest == SubSeq(s, i + 1, Len(s))
           N == Len(s)
<1>1. N \in Nat /\ i \in Int /\ 1 <= i /\ i <= N /\ \A j \in 1 .. N : s[j] \in D
  BY LenProperties
<1>2. x \in Seq(D) /\ Len(x) = i - 1 /\ \A j \in 1 .. i - 1 : x[j] = s[j]
  <2>1. i - 1 \in Int /\ 1 \in Int /\ \A j \in 1 .. i - 1 : j \in 1 .. N /\ s[j] \in D
    BY <1>1
  <2>2. /\ x \in Seq(D) /\ Len(x) = (IF 1 <= i - 1 THEN i - 1 - 1 + 1 ELSE 0)
        /\ \A j \in 1 .. i - 1 - 1 + 1 : x[j] = s[1 + j - 1]
    BY <2>1, SubSeqProperties
  <2>3. \A j \in 1 .. i - 1 : j \in 1 .. i - 1 - 1 + 1 /\ 1 + j - 1 = j
    BY <1>1
  <2> HIDE DEF x
  <2>4. \A j \in 1 .. i - 1 : x[j] = s[j]
    BY <2>2, <2>3
  <2>5. Len(x) = i - 1
    BY <1>1, <2>2
  <2> QED BY <2>2, <2>4, <2>5
<1>3. rest \in Seq(D) /\ Len(rest) = N - i /\ \A j \in 1 .. N - i : rest[j] = s[i + j]
  <2>1. i + 1 \in Int /\ N \in Int /\ \A j \in i + 1 .. N : j \in 1 .. N /\ s[j] \in D
    BY <1>1
  <2>2. /\ rest \in Seq(D) /\ Len(rest) = (IF i + 1 <= N THEN N - (i + 1) + 1 ELSE 0)
        /\ \A j \in 1 .. N - (i + 1) + 1 : rest[j] = s[i + 1 + j - 1]
    BY <2>1, SubSeqProperties
  <2>3. \A j \in 1 .. N - i : j \in 1 .. N - (i + 1) + 1 /\ i + 1 + j - 1 = i + j
    BY <1>1
  <2> HIDE DEF rest, N
  <2>4. \A j \in 1 .. N - i : rest[j] = s[i + j]
    BY <2>2, <2>3
  <2>5. Len(rest) = N - i
    BY <1>1, <2>2
  <2> QED BY <2>2, <2>4, <2>5
<1>4. s = (x \o <<s[i]>>) \o rest
  <2>1. SubSeq(s, 1, i) = x \o <<s[i]>>
    BY <1>1, SubSeqRecursiveSecond
  <2>2. SubSeq(s, 1, i) \o rest = SubSeq(s, 1, N)
    BY <1>1, ConcatAdjacentSubSeq
  <2>3. SubSeq(s, 1, N) = s
    BY SubSeqFull
  <2> QED BY <2>1, <2>2, <2>3
<1> QED BY <1>2, <1>3, <1>4 DEF Around

(* A turn of the loop takes the first line of the buffer off, with its     *)
(* line end: a CR, an LF, or both.                                         *)
Commits(D, p, e, x, b, left) ==
  /\ x \in Seq(D) /\ b \in D /\ left \in Seq(D)
  /\ ~Ending(x) /\ b \in Terminators
  /\ x = <<>> => p.buf # <<>> /\ p.buf[1] = b
  /\ Len(left) < Len(p.buf)
  /\ \/ /\ p.buf = (x \o <<b>>) \o left
        /\ b = CR => IF left = <<>> THEN e ELSE left[1] # LF
     \/ /\ p.buf = (x \o <<b>>) \o (<<LF>> \o left)
        /\ b = CR
  /\ CommitLine(p, e) = HandleLine([p EXCEPT !.buf = left], x)

(* What a turn takes off, if the buffer has a line end. *)
LEMMA CommitCuts ==
  ASSUME NEW D, NEW p \in ParserType(D), NEW e \in BOOLEAN,
         FindLineEnd(p.buf, e) # NoLineEnd
  PROVE  \E x, b, left : Commits(D, p, e, x, b, left)
<1> DEFINE buf == p.buf
           end == FindLineEnd(buf, e)
<1>1. buf \in Seq(D)
  BY DEF ParserType
<1>2. PICK i : /\ FirstEnd(buf, i) /\ end[1] = i - 1
               /\ end[2] = IF buf[i] = CR /\ i < Len(buf) /\ buf[i + 1] = LF THEN 2 ELSE 1
               /\ buf[i] = CR /\ i = Len(buf) => e
  BY <1>1, LineEndFound
<1> DEFINE x == SubSeq(buf, 1, i - 1)
           b == buf[i]
           rest == SubSeq(buf, i + 1, Len(buf))
           pair == b = CR /\ i < Len(buf) /\ buf[i + 1] = LF
           left == SubSeq(buf, end[1] + end[2] + 1, Len(buf))
<1>3. i \in 1 .. Len(buf) /\ b \in Terminators /\ Len(buf) \in Nat /\ b \in D
  BY <1>1, <1>2, LenProperties DEF FirstEnd
<1>4. Around(D, buf, i, x, rest)
  <2> HIDE DEF buf
  <2> QED BY <1>1, <1>3, CutAround DEF buf
<1>5. CommitLine(p, e) = HandleLine([p EXCEPT !.buf = left], x)
  <2>1. end[1] = i - 1
    BY <1>2
  <2> HIDE DEF end
  <2>2. CommitLine(p, e)
          = HandleLine([p EXCEPT !.buf = left], SubSeq(buf, 1, end[1]))
    BY DEF CommitLine, end
  <2> QED BY <2>1, <2>2
<1>6. left = IF pair THEN SubSeq(buf, i + 2, Len(buf)) ELSE rest
  <2>1. end[1] + end[2] + 1 = IF pair THEN i + 2 ELSE i + 1
    BY <1>2, <1>3
  <2> HIDE DEF end, pair
  <2> QED BY <2>1
<1>7. CASE pair
  <2>1. i + 1 \in 1 .. Len(buf) /\ Len(buf) \in i + 1 .. Len(buf) /\ buf[i + 1] = LF
    BY <1>3, <1>7
  <2>2. rest = <<buf[i + 1]>> \o SubSeq(buf, (i + 1) + 1, Len(buf))
    BY <1>1, <2>1, SubSeqRecursiveFirst
  <2>3. (i + 1) + 1 = i + 2
    BY <1>3
  <2>4. Around(D, buf, i + 1, SubSeq(buf, 1, (i + 1) - 1), SubSeq(buf, (i + 1) + 1, Len(buf)))
    <3>1. i + 1 \in 1 .. Len(buf)
      BY <2>1
    <3> HIDE DEF buf
    <3> QED BY <1>1, <3>1, CutAround DEF buf
  <2>5. left = SubSeq(buf, i + 2, Len(buf))
    BY <1>6, <1>7
  <2>6. b = CR
    BY <1>7
  <2> HIDE DEF left, rest, pair, x, buf
  <2>7. /\ left \in Seq(D) /\ rest = <<LF>> \o left /\ Len(left) = Len(buf) - (i + 1)
    BY <2>1, <2>2, <2>3, <2>4, <2>5 DEF Around
  <2>8. Len(left) < Len(buf)
    BY <1>3, <2>7
  <2>9. /\ x \in Seq(D) /\ buf = (x \o <<b>>) \o rest
        /\ ~Ending(x) /\ (x = <<>> => buf # <<>> /\ buf[1] = b)
    <3>1. x \in Seq(D) /\ buf = (x \o <<b>>) \o rest /\ Len(x) = i - 1
          /\ \A j \in 1 .. i - 1 : x[j] = buf[j]
      BY <1>4 DEF Around
    <3>2. ~Ending(x)
      BY <1>2, <3>1 DEF FirstEnd, Ending
    <3>3. x = <<>> => i = 1
      BY <1>3, <3>1
    <3>4. buf # <<>>
      BY <1>3
    <3> QED BY <3>1, <3>2, <3>3, <3>4
  <2>10. Commits(D, p, e, x, b, left)
    BY <1>3, <1>5, <2>6, <2>7, <2>8, <2>9 DEF Commits, buf
  <2> QED BY <2>10
<1>8. CASE ~pair
  <2>1. left = rest
    BY <1>6, <1>8
  <2>2. i < Len(buf) /\ b = CR => buf[i + 1] # LF
    BY <1>8
  <2> HIDE DEF left, rest, pair, x, buf, end
  <2>3. /\ left \in Seq(D) /\ Len(left) = Len(buf) - i
        /\ \A j \in 1 .. Len(buf) - i : left[j] = buf[i + j]
    BY <1>4, <2>1 DEF Around
  <2>4. Len(left) < Len(buf)
    BY <1>3, <2>3
  <2>5. /\ x \in Seq(D) /\ buf = (x \o <<b>>) \o left
        /\ ~Ending(x) /\ (x = <<>> => buf # <<>> /\ buf[1] = b)
    <3>1. x \in Seq(D) /\ buf = (x \o <<b>>) \o rest /\ Len(x) = i - 1
          /\ \A j \in 1 .. i - 1 : x[j] = buf[j]
      BY <1>4 DEF Around
    <3>2. ~Ending(x)
      BY <1>2, <3>1 DEF FirstEnd, Ending
    <3>3. x = <<>> => i = 1
      BY <1>3, <3>1
    <3>4. buf # <<>>
      BY <1>3
    <3> QED BY <2>1, <3>1, <3>2, <3>3, <3>4
  <2>6. b = CR => IF left = <<>> THEN e ELSE left[1] # LF
    <3> SUFFICES ASSUME b = CR
                 PROVE  IF left = <<>> THEN e ELSE left[1] # LF
      OBVIOUS
    <3>1. CASE i = Len(buf)
      <4>1. Len(left) = 0
        BY <1>3, <2>3, <3>1
      <4>2. left = <<>>
        BY <2>3, <4>1, EmptySeq
      <4> QED BY <1>2, <3>1, <4>2
    <3>2. CASE i < Len(buf)
      <4>1. buf[i + 1] # LF /\ 1 \in 1 .. Len(buf) - i /\ Len(left) # 0
        BY <1>3, <2>2, <2>3, <3>2
      <4>2. left[1] = buf[i + 1] /\ left # <<>>
        BY <2>3, <4>1
      <4> QED BY <4>1, <4>2
    <3> QED BY <1>3, <3>1, <3>2
  <2>7. Commits(D, p, e, x, b, left)
    BY <1>3, <1>5, <2>3, <2>4, <2>5, <2>6 DEF Commits, buf
  <2> QED BY <2>7
<1> QED BY <1>7, <1>8

(* A turn keeps the types, and shortens the buffer if it does anything.    *)
LEMMA CommitShortens ==
  ASSUME NEW D, LF \in D, NEW p \in ParserType(D), NEW e \in BOOLEAN
  PROVE  /\ CommitLine(p, e) \in ParserType(D)
         /\ FindLineEnd(p.buf, e) # NoLineEnd => Len(CommitLine(p, e).buf) < Len(p.buf)
<1>1. CASE FindLineEnd(p.buf, e) = NoLineEnd
  BY <1>1 DEF CommitLine
<1>2. CASE FindLineEnd(p.buf, e) # NoLineEnd
  <2>1. PICK x, b, left : Commits(D, p, e, x, b, left)
    BY <1>2, CommitCuts
  <2> DEFINE cut == [p EXCEPT !.buf = left]
  <2>2. /\ x \in Seq(D) /\ left \in Seq(D) /\ Len(left) < Len(p.buf)
        /\ CommitLine(p, e) = HandleLine(cut, x)
    BY <2>1 DEF Commits
  <2>3. cut \in ParserType(D) /\ cut.buf = left
    BY <2>2 DEF ParserType
  <2> HIDE DEF cut
  <2>4. LineAddsTo(D, cut, cut, x)
    BY <2>2, <2>3, LineAdds
  <2>5. HandleLine(cut, x).buf = left
    BY <2>3, <2>4 DEF LineAddsTo
  <2> QED BY <2>2, <2>3, <2>5, HandleLineTyped
<1> QED BY <1>1, <1>2

(* The parser has read the bytes received as far as w: what was taken from *)
(* it, what waits, and the frame under construction are what the whole     *)
(* decoder makes of them, and the rest is in the buffer.  If w ends in a   *)
(* CR its line feed cannot come any more.                                  *)
ConsumedTo(D, p, popped, received, endOfInput, w) ==
  /\ received = w \o p.buf
  /\ Split(D)[w].line = <<>>
  /\ p.frame = Read(D, w).frame
  /\ popped \o p.pending = Read(D, w).pending
  /\ AfterReturn(D, w) => IF p.buf = <<>> THEN endOfInput ELSE p.buf[1] # LF

Consumed(D, p, popped, received, endOfInput) ==
  \E w \in Seq(D) : ConsumedTo(D, p, popped, received, endOfInput, w)

(* A turn of the loop keeps what is known of the parser. *)
LEMMA CommitKeeps ==
  ASSUME NEW D, LF \in D, NEW p \in ParserType(D), NEW popped \in Seq(Seq(D)),
         NEW received \in Seq(D), NEW e \in BOOLEAN, Consumed(D, p, popped, received, e)
  PROVE  Consumed(D, CommitLine(p, e), popped, received, e)
<1> DEFINE buf == p.buf
           end == FindLineEnd(buf, e)
           L == Seq(D)
<1>1. /\ p.buf \in Seq(D) /\ p.pending \in Seq(L) /\ p.frame \in FrameType(D)
      /\ p = [buf |-> p.buf, frame |-> p.frame, pending |-> p.pending]
  BY DEF ParserType
<1>2. CASE end = NoLineEnd
  BY <1>2 DEF CommitLine
<1>3. CASE end # NoLineEnd
  <2>1. PICK x, b, left : Commits(D, p, e, x, b, left)
    BY <1>3, CommitCuts
  <2> DEFINE cut == [p EXCEPT !.buf = left]
  <2>2. /\ x \in Seq(D) /\ b \in D /\ left \in Seq(D) /\ ~Ending(x) /\ b \in Terminators
        /\ CommitLine(p, e) = HandleLine(cut, x)
    BY <2>1 DEF Commits
  <2>3. cut \in ParserType(D) /\ cut.frame = p.frame /\ cut.pending = p.pending /\ cut.buf = left
    BY <1>1, <2>2 DEF ParserType
  <2> HIDE DEF cut
  <2>4. PICK w \in Seq(D) : ConsumedTo(D, p, popped, received, e, w)
    BY DEF Consumed
  <2> DEFINE q == Read(D, w)
             wx == w \o x
             bs == <<b>>
             v == wx \o bs
             after == HandleLine(cut, x)
             pending == p.pending
  <2>5. /\ received = w \o buf /\ Split(D)[w].line = <<>> /\ p.frame = q.frame
        /\ popped \o pending = q.pending
        /\ AfterReturn(D, w) => IF buf = <<>> THEN e ELSE buf[1] # LF
    BY <2>4 DEF ConsumedTo
  <2>6. q \in ParserType(D)
    BY ReadTyped
  <2> HIDE DEF q
  <2>7. /\ after.buf = left /\ after.frame = HandleLine(q, x).frame
        /\ popped \o after.pending = HandleLine(q, x).pending
    <3>1. cut.frame = q.frame
      BY <2>3, <2>5
    <3>2. LineAddsTo(D, cut, q, x)
      BY <2>2, <2>3, <2>6, <3>1, LineAdds
    <3>3. after.buf = cut.buf /\ after.frame = HandleLine(q, x).frame
      BY <3>2 DEF LineAddsTo
    <3>4. PICK more \in Seq(L) : /\ after.pending = cut.pending \o more
                                 /\ HandleLine(q, x).pending = q.pending \o more
      BY <3>2 DEF LineAddsTo
    <3>5. popped \in Seq(L) /\ pending \in Seq(L)
      BY <1>1
    <3> HIDE DEF L, pending, after
    <3>6. Regroups(popped, pending, more)
      BY <3>5, Regroup
    <3> QED BY <2>3, <2>5, <3>3, <3>4, <3>6 DEF Regroups, pending
  <2>8. wx \in Seq(D) /\ bs \in Seq(D) /\ x \o bs \in Seq(D)
    <3>1. bs \in Seq(D)
      BY <2>2
    <3> HIDE DEF bs
    <3> QED BY <2>2, <3>1, ConcatProperties
  <2>9. /\ v \in Seq(D) /\ Split(D)[v].line = <<>> /\ (AfterReturn(D, v) <=> b = CR)
        /\ Read(D, v) = HandleLine(q, x)
    <3>1. b = LF /\ x = <<>> => ~AfterReturn(D, w)
      BY <2>1, <2>5 DEF Commits
    <3>2. v \in Seq(D)
      <4> HIDE DEF wx, bs
      <4> QED BY <2>8, ConcatProperties
    <3>3. HandsOver(D, w, x, b, v)
      BY <2>2, <2>5, <3>1, LineRead
    <3> QED BY <3>2, <3>3 DEF HandsOver, q
  <2>10. ASSUME NEW rest \in Seq(D), buf = (x \o <<b>>) \o rest
         PROVE  received = v \o rest
    <3>1. buf = (x \o bs) \o rest
      BY <2>10
    <3> HIDE DEF bs, buf, wx
    <3>2. Regroups(w, x \o bs, rest) /\ Regroups(w, x, bs)
      BY <2>2, <2>8, Regroup
    <3> QED BY <2>5, <3>1, <3>2 DEF Regroups, wx
  <2> HIDE DEF v, after, wx, bs, pending
  <2>11. CASE buf = (x \o <<b>>) \o left /\ (b = CR => IF left = <<>> THEN e ELSE left[1] # LF)
    <3>1. received = v \o left
      BY <2>2, <2>10, <2>11
    <3>2. ConsumedTo(D, after, popped, received, e, v)
      BY <2>7, <2>9, <2>11, <3>1 DEF ConsumedTo
    <3> QED BY <2>2, <2>9, <3>2 DEF Consumed, after
  <2>12. CASE buf = (x \o <<b>>) \o (<<LF>> \o left) /\ b = CR
    <3> DEFINE u == v \o <<LF>>
    <3>1. <<LF>> \in Seq(D) /\ <<LF>> \o left \in Seq(D)
      <4>1. <<LF>> \in Seq(D)
        OBVIOUS
      <4> QED BY <2>2, <4>1, ConcatProperties
    <3>2. received = u \o left
      <4>1. received = v \o (<<LF>> \o left)
        BY <2>10, <2>12, <3>1
      <4>2. Regroups(v, <<LF>>, left)
        BY <2>2, <2>9, <3>1, Regroup
      <4> QED BY <4>1, <4>2 DEF Regroups
    <3>3. u \in Seq(D)
      BY <2>9, <3>1, ConcatProperties
    <3>4. Split(D)[u].line = <<>> /\ ~AfterReturn(D, u) /\ Read(D, u) = HandleLine(q, x)
      BY <2>9, <2>12, FeedOfReturn
    <3> HIDE DEF u
    <3>5. ConsumedTo(D, after, popped, received, e, u)
      BY <2>7, <3>2, <3>4 DEF ConsumedTo
    <3> QED BY <2>2, <3>3, <3>5 DEF Consumed, after
  <2> QED BY <2>1, <2>11, <2>12 DEF Commits
<1> QED BY <1>2, <1>3

(* The loop over the lines of the buffer, as a function of the turns taken: *)
(* a turn keeps what is known of the parser, and the last one finds no line *)
(* end.                                                                    *)
Settled(p, e) == FindLineEnd(p.buf, e) = NoLineEnd

LEMMA FeedConsumes ==
  ASSUME NEW D, LF \in D, NEW p \in ParserType(D), NEW chunk \in Seq(D),
         NEW popped \in Seq(Seq(D)), NEW received \in Seq(D), NEW e \in BOOLEAN,
         Consumed(D, p, popped, received, FALSE)
  PROVE  /\ Feed(p, chunk, e) \in ParserType(D)
         /\ Settled(Feed(p, chunk, e), e)
         /\ Consumed(D, Feed(p, chunk, e), popped, received \o chunk, e)
<1> DEFINE P == ParserType(D)
           all == received \o chunk
           fed == [p EXCEPT !.buf = @ \o chunk]
           N == Len(fed.buf)
           next(h) == [n \in 0 .. N |-> IF n = 0 THEN fed ELSE CommitLine(h[n - 1], e)]
           f == CHOOSE h : h = next(h)
           step == [n \in 1 .. N |-> [q \in P |-> CommitLine(q, e)]]
           Good(q, n) == /\ q \in P
                         /\ Consumed(D, q, popped, all, e)
                         /\ Settled(q, e) \/ Len(q.buf) <= N - n
<1>1. /\ p.buf \in Seq(D) /\ all \in Seq(D) /\ p.buf \o chunk \in Seq(D)
  BY ConcatProperties DEF ParserType
<1>2. fed \in P /\ fed.buf = p.buf \o chunk /\ fed.frame = p.frame /\ fed.pending = p.pending
  BY <1>1 DEF ParserType
<1>3. N \in Nat
  BY <1>1, <1>2, LenProperties
<1>4. Feed(p, chunk, e) = f[N]
  BY DEF Feed
<1> HIDE DEF fed
<1>5. Consumed(D, fed, popped, all, e)
  <2>1. PICK w \in Seq(D) : ConsumedTo(D, p, popped, received, FALSE, w)
    BY DEF Consumed
  <2>2. Regroups(w, p.buf, chunk)
    BY <1>1, Regroup
  <2>3. all = w \o fed.buf
    BY <1>2, <2>1, <2>2 DEF ConsumedTo, Regroups
  <2>4. AfterReturn(D, w) => IF fed.buf = <<>> THEN e ELSE fed.buf[1] # LF
    <3> SUFFICES ASSUME AfterReturn(D, w)
                 PROVE  fed.buf # <<>> /\ fed.buf[1] # LF
      OBVIOUS
    <3> DEFINE buf == p.buf
    <3>1. buf # <<>> /\ buf[1] # LF
      BY <2>1 DEF ConsumedTo
    <3>2. buf \in Seq(D) /\ fed.buf = buf \o chunk
      BY <1>1, <1>2
    <3> HIDE DEF buf
    <3>3. Len(buf) \in Nat /\ Len(buf) # 0
      BY <3>1, <3>2, EmptySeq
    <3>4. Len(buf \o chunk) # 0 /\ (buf \o chunk)[1] = buf[1]
      <4>1. Len(chunk) \in Nat
        BY LenProperties
      <4>2. 1 \in 1 .. Len(buf) + Len(chunk) /\ 1 <= Len(buf)
        BY <3>3, <4>1
      <4> QED BY <3>2, <3>3, <4>1, <4>2, ConcatProperties
    <3>5. buf \o chunk # <<>>
      <4> DEFINE s == buf \o chunk
      <4>1. Len(s) # 0
        BY <3>4
      <4> HIDE DEF s
      <4>2. s # <<>>
        BY <4>1
      <4> QED BY <4>2 DEF s
    <3> QED BY <3>1, <3>2, <3>4, <3>5
  <2>5. ConsumedTo(D, fed, popped, all, e, w)
    BY <1>2, <2>1, <2>3, <2>4 DEF ConsumedTo
  <2> QED BY <2>5 DEF Consumed
<1>6. step \in [1 .. N -> [P -> P]]
  BY CommitShortens
<1>7. PICK g \in [0 .. N -> P] : g[0] = fed /\ \A n \in 1 .. N : g[n] = step[n][g[n - 1]]
  <2> HIDE DEF N, step, P
  <2>1. CanIterate(N, P, fed, step)
    BY <1>2, <1>3, <1>6, Iteration
  <2> QED BY <2>1 DEF CanIterate, Iterates
<1> HIDE DEF N, all
<1>8. ASSUME NEW n \in 1 .. N
      PROVE  n - 1 \in 0 .. N /\ g[n - 1] \in P /\ g[n] = CommitLine(g[n - 1], e)
  <2>1. n - 1 \in 0 .. N
    BY <1>3
  <2>2. g[n - 1] \in P
    BY <2>1
  <2>3. g[n] = step[n][g[n - 1]]
    BY <1>7
  <2> QED BY <2>1, <2>2, <2>3
<1>9. g = next(g)
  <2> SUFFICES ASSUME NEW n \in 0 .. N
               PROVE  g[n] = next(g)[n]
    OBVIOUS
  <2>1. n # 0 => n \in 1 .. N
    BY <1>3
  <2> QED BY <1>7, <1>8, <2>1
<1>10. f = next(f)
  <2> HIDE DEF next
  <2> QED BY <1>9
<1> HIDE DEF f
<1>11. f[0] = fed /\ \A n \in 1 .. N : f[n] = CommitLine(f[n - 1], e)
  <2>1. 0 \in 0 .. N
    BY <1>3
  <2>2. \A n \in 1 .. N : n \in 0 .. N /\ n # 0
    BY <1>3
  <2> QED BY <1>10, <2>1, <2>2
<1>12. Alike(f, g, N)
  BY <1>7, <1>8, <1>11 DEF Alike
<1>13. f[N] = g[N]
  BY <1>3, <1>12, GoOnAlike
<1> DEFINE T == {n \in Nat : n <= N => Good(g[n], n)}
<1>14. 0 \in T
  <2>1. Len(fed.buf) <= N - 0
    BY <1>3 DEF N
  <2> QED BY <1>2, <1>5, <1>7, <2>1
<1>15. ASSUME NEW n \in Nat, n \in T
       PROVE  n + 1 \in T
  <2> SUFFICES ASSUME n + 1 <= N
               PROVE  Good(g[n + 1], n + 1)
    OBVIOUS
  <2> DEFINE q == g[n]
             r == g[n + 1]
  <2>1. Good(q, n)
    BY <1>15, <1>3
  <2>2. r = CommitLine(q, e)
    <3>1. n + 1 \in 1 .. N /\ (n + 1) - 1 = n
      BY <1>3
    <3>2. g[n + 1] = CommitLine(g[(n + 1) - 1], e)
      BY <1>8, <3>1
    <3> QED BY <3>1, <3>2
  <2> HIDE DEF q, r
  <2>3. r \in P /\ Consumed(D, r, popped, all, e)
    <3>1. all \in Seq(D)
      BY <1>1
    <3> QED BY <2>1, <2>2, <3>1, CommitShortens, CommitKeeps
  <2>4. CASE Settled(q, e)
    <3>1. r = q
      BY <2>2, <2>4 DEF Settled, CommitLine
    <3> QED BY <2>1, <2>4, <3>1 DEF r
  <2>5. CASE ~Settled(q, e)
    <3>1. Len(r.buf) < Len(q.buf) /\ Len(q.buf) <= N - n
      BY <2>1, <2>2, <2>5, CommitShortens DEF Settled
    <3>2. r.buf \in Seq(D) /\ q.buf \in Seq(D)
      BY <2>1, <2>3 DEF ParserType
    <3>3. Len(r.buf) \in Nat /\ Len(q.buf) \in Nat
      BY <3>2, LenProperties
    <3>4. Len(r.buf) <= N - (n + 1)
      BY <1>3, <3>1, <3>3
    <3> QED BY <2>3, <3>4 DEF r
  <2> QED BY <2>4, <2>5
<1>16. N \in T
  <2> HIDE DEF T
  <2> QED BY <1>3, <1>14, <1>15, Induction
<1> DEFINE end == g[N]
<1>17. Good(end, N)
  BY <1>3, <1>16
<1> HIDE DEF end
<1>18. Settled(end, e)
  <2>1. CASE Len(end.buf) <= N - N
    <3>1. end.buf \in Seq(D)
      BY <1>17 DEF ParserType
    <3>2. Len(end.buf) = 0
      BY <1>3, <2>1, <3>1, LenProperties
    <3>3. end.buf = <<>>
      BY <3>1, <3>2, EmptySeq
    <3> QED BY <3>3 DEF Settled, FindLineEnd
  <2> QED BY <1>17, <2>1
<1> QED BY <1>4, <1>13, <1>17, <1>18 DEF end, all

(* An element added is the last one. *)
LEMMA FrontOfAppend ==
  ASSUME NEW D, NEW s \in Seq(D), NEW d \in D
  PROVE  Append(s, d) # <<>> /\ Last(Append(s, d)) = d /\ Front(Append(s, d)) = s
<1> DEFINE t == Append(s, d)
<1>1. /\ t \in Seq(D) /\ t # <<>> /\ Len(s) \in Nat /\ Len(t) = Len(s) + 1 /\ t[Len(s) + 1] = d
      /\ \A i \in 1 .. Len(s) : t[i] = s[i]
  BY AppendProperties, LenProperties
<1> HIDE DEF t
<1>2. Last(t) = d
  BY <1>1 DEF Last
<1>3. Front(t) = s
  <2>1. Front(t) = SubSeq(t, 1, Len(s))
    BY <1>1 DEF Front
  <2>2. 1 \in Int /\ Len(s) \in Int /\ \A i \in 1 .. Len(s) : t[i] \in D
    BY <1>1, LenProperties
  <2>3. /\ SubSeq(t, 1, Len(s)) \in Seq(D)
        /\ Len(SubSeq(t, 1, Len(s))) = (IF 1 <= Len(s) THEN Len(s) - 1 + 1 ELSE 0)
        /\ \A i \in 1 .. Len(s) - 1 + 1 : SubSeq(t, 1, Len(s))[i] = t[1 + i - 1]
    BY <2>2, SubSeqProperties
  <2> DEFINE c == SubSeq(t, 1, Len(s))
  <2> HIDE DEF c
  <2>4. c \in Seq(D) /\ Len(c) = Len(s) /\ \A i \in 1 .. Len(c) : c[i] = s[i]
    <3>1. c \in Seq(D) /\ Len(c) = Len(s)
      BY <1>1, <2>3 DEF c
    <3>2. ASSUME NEW i \in 1 .. Len(s)
          PROVE  c[i] = s[i]
      <4>1. i \in 1 .. Len(s) - 1 + 1 /\ 1 + i - 1 = i
        BY <1>1
      <4>2. c[i] = t[1 + i - 1]
        BY <2>3, <4>1 DEF c
      <4> QED BY <1>1, <4>1, <4>2
    <3> QED BY <3>1, <3>2
  <2>5. c = s
    BY <2>4, SeqEqual
  <2> QED BY <2>1, <2>5 DEF c
<1> QED BY <1>1, <1>2, <1>3 DEF t

(* What comes of the parser is what the whole decoder makes of the bytes   *)
(* received, but for a CR in last place while more may come.               *)
SettledBytes(received, over) ==
  IF ~over /\ received # <<>> /\ Last(received) = CR THEN Front(received) ELSE received

LEMMA ConsumedDecodes ==
  ASSUME NEW D, LF \in D, NEW p \in ParserType(D), NEW popped \in Seq(Seq(D)),
         NEW received \in Seq(D), NEW e \in BOOLEAN,
         Consumed(D, p, popped, received, e), Settled(p, e)
  PROVE  popped \o p.pending = DecodeFrames(SettledBytes(received, e))
<1> DEFINE buf == p.buf
<1>1. PICK w \in Seq(D) : ConsumedTo(D, p, popped, received, e, w)
  BY DEF Consumed
<1>2. /\ received = w \o buf /\ popped \o p.pending = Read(D, w).pending
      /\ AfterReturn(D, w) => IF buf = <<>> THEN e ELSE buf[1] # LF
  BY <1>1 DEF ConsumedTo
<1>3. buf \in Seq(D)
  BY DEF ParserType
<1>4. \/ ~Ending(buf)
      \/ ~e /\ \E i : FirstEnd(buf, i) /\ i = Len(buf) /\ buf[i] = CR
  BY <1>3, LineEndFound DEF Settled
<1>5. ASSUME NEW x \in Seq(D), ~Ending(x)
      PROVE  DecodeFrames(w \o x) = Read(D, w).pending
  <2>1. w \o x \in Seq(D)
    BY ConcatProperties
  <2>2. Split(D)[w \o x].lines = Split(D)[w].lines
    BY <1>5, TextSplits
  <2> QED BY <2>1, <2>2, DecodeIsRead DEF Read
<1> HIDE DEF buf
<1>6. CASE ~Ending(buf)
  <2>1. ~e /\ received # <<>> => Last(received) # CR
    <3> SUFFICES ASSUME ~e, received # <<>>, Last(received) = CR
                 PROVE  FALSE
      OBVIOUS
    <3>1. AfterReturn(D, received)
      BY ReturnIsLast
    <3>2. buf = <<>>
      BY <1>2, <1>3, <1>6, <3>1, TextSplits
    <3>3. received = w
      BY <1>2, <3>2, ConcatEmptySeq
    <3> QED BY <1>2, <3>1, <3>2, <3>3
  <2>2. SettledBytes(received, e) = w \o buf
    BY <1>2, <2>1 DEF SettledBytes
  <2> QED BY <1>2, <1>3, <1>5, <1>6, <2>2
<1>7. CASE ~e /\ \E i : FirstEnd(buf, i) /\ i = Len(buf) /\ buf[i] = CR
  <2> DEFINE i == Len(buf)
             x == SubSeq(buf, 1, i - 1)
             rest == SubSeq(buf, i + 1, Len(buf))
  <2>1. ~e /\ FirstEnd(buf, i) /\ buf[i] = CR
    BY <1>7
  <2>2. i \in Nat /\ i \in 1 .. Len(buf)
    BY <1>3, <2>1, LenProperties DEF FirstEnd
  <2>3. Around(D, buf, i, x, rest)
    BY <1>3, <2>2, CutAround
  <2> HIDE DEF i, x, rest
  <2>4. /\ x \in Seq(D) /\ rest = <<>> /\ buf = (x \o <<CR>>) \o <<>> /\ Len(x) = i - 1
        /\ \A j \in 1 .. i - 1 : x[j] = buf[j]
    <3>1. x \in Seq(D) /\ rest \in Seq(D) /\ Len(rest) = 0
      BY <2>2, <2>3 DEF Around, i
    <3>2. rest = <<>>
      BY <3>1, EmptySeq
    <3> QED BY <2>1, <2>3, <3>1, <3>2 DEF Around
  <2>5. ~Ending(x)
    BY <2>1, <2>4 DEF FirstEnd, Ending
  <2> DEFINE cs == <<CR>>
  <2>6. cs \in Seq(D) /\ CR \in D
    <3>1. buf[i] \in D
      BY <1>3, <2>2, ElementOfSeq
    <3> QED BY <2>1, <3>1
  <2>7. received = (w \o x) \o cs
    <3>1. x \o cs \in Seq(D)
      <4> HIDE DEF cs
      <4> QED BY <2>4, <2>6, ConcatProperties
    <3>2. buf = x \o cs
      <4> DEFINE y == x \o cs
      <4>1. y \in Seq(D) /\ buf = y \o <<>>
        BY <2>4, <3>1
      <4> HIDE DEF y
      <4>2. y \o <<>> = y
        BY <4>1, ConcatEmptySeq
      <4> QED BY <4>1, <4>2 DEF y
    <3>3. Regroups(w, x, cs)
      <4> HIDE DEF cs
      <4> QED BY <2>4, <2>6, Regroup
    <3> QED BY <1>2, <3>2, <3>3 DEF Regroups
  <2>8. w \o x \in Seq(D)
    BY <2>4, ConcatProperties
  <2> DEFINE y == w \o x
  <2>9. received = Append(y, CR)
    <3>1. Append(y, CR) = y \o <<CR>>
      BY <2>6, <2>8, AppendIsConcat
    <3> QED BY <2>7, <3>1
  <2>10. received # <<>> /\ Last(received) = CR /\ Front(received) = y
    <3> HIDE DEF y
    <3>1. y \in Seq(D)
      BY <2>8 DEF y
    <3> QED BY <2>6, <2>9, <3>1, FrontOfAppend
  <2>11. SettledBytes(received, e) = y
    BY <2>1, <2>10 DEF SettledBytes
  <2> QED BY <1>2, <1>5, <2>4, <2>5, <2>11
<1> QED BY <1>4, <1>6, <1>7

FieldLine(D, n, x, line) ==
  /\ line \in Seq(D) /\ line # <<>>
  /\ SplitField(line).name = <<n>> /\ SplitField(line).value = x

(* The encoder's field lines are split where it joined them. *)
LEMMA FieldSplits ==
  ASSUME NEW D, NEW n \in D, n # Colon, Colon \in D, Space \in D, NEW x \in Seq(D)
  PROVE  FieldLine(D, n, x, <<n, Colon, Space>> \o x)
<1> DEFINE head == <<n, Colon, Space>>
           line == head \o x
           N == Len(x)
           colons == {i \in DOMAIN line : line[i] = Colon}
           pos == CHOOSE i \in colons : \A j \in colons : i <= j
           rest == SubSeq(line, pos + 1, Len(line))
           name == SubSeq(line, 1, pos - 1)
<1>1. head \in Seq(D) /\ Len(head) = 3 /\ head[1] = n /\ head[2] = Colon /\ head[3] = Space
  OBVIOUS
<1> HIDE DEF head
<1>2. N \in Nat
  BY LenProperties
<1>3. Joins(D, head, x, line)
  BY <1>1, ConcatJoins
<1> HIDE DEF line
<1>4. /\ line \in Seq(D) /\ Len(line) = N + 3 /\ DOMAIN line = 1 .. N + 3
      /\ line[1] = n /\ line[2] = Colon /\ line[3] = Space
      /\ \A j \in 1 .. N : line[j + 3] = x[j]
  <2>1. line \in Seq(D) /\ Len(line) = N + 3
    BY <1>1, <1>2, <1>3 DEF Joins
  <2>2. \A i \in 1 .. 3 : i \in 1 .. 3 + N /\ i <= 3
    BY <1>2
  <2>3. \A i \in 1 .. 3 : line[i] = head[i]
    BY <1>1, <1>2, <1>3, <2>2 DEF Joins
  <2>4. \A j \in 1 .. N : line[j + 3] = x[j]
    <3> SUFFICES ASSUME NEW j \in 1 .. N
                 PROVE  line[j + 3] = x[j]
      OBVIOUS
    <3>1. j + 3 \in 1 .. 3 + N /\ ~(j + 3 <= 3) /\ (j + 3) - 3 = j
      BY <1>2
    <3> QED BY <1>1, <1>3, <3>1 DEF Joins
  <2>5. 1 \in 1 .. 3 /\ 2 \in 1 .. 3 /\ 3 \in 1 .. 3
    OBVIOUS
  <2> QED BY <1>1, <2>1, <2>3, <2>4, <2>5, LenProperties
<1>5. colons \subseteq Nat /\ 2 \in colons /\ \A j \in colons : 2 <= j
  BY <1>2, <1>4
<1>6. pos = 2 /\ colons # {}
  <2> HIDE DEF colons
  <2>1. pos \in colons /\ \A j \in colons : pos <= j
    BY <1>5
  <2> HIDE DEF pos
  <2>2. pos <= 2 /\ 2 <= pos /\ pos \in Nat
    BY <1>5, <2>1
  <2> QED BY <1>5, <2>2
<1>7. SplitField(line).name = name
      /\ SplitField(line).value = IF rest # <<>> /\ Head(rest) = Space THEN Tail(rest) ELSE rest
  BY <1>6 DEF SplitField
<1> HIDE DEF pos, colons
<1>8. name = SubSeq(line, 1, 1) /\ rest = SubSeq(line, 3, N + 3)
  BY <1>4, <1>6
<1>9. name = <<n>>
  <2> DEFINE one == <<n>>
  <2>1. one \in Seq(D) /\ Len(one) = 1 /\ one[1] = n
    OBVIOUS
  <2>2. 1 \in Int /\ \A i \in 1 .. 1 : line[i] \in D
    BY <1>4
  <2>3. /\ SubSeq(line, 1, 1) \in Seq(D) /\ Len(SubSeq(line, 1, 1)) = (IF 1 <= 1 THEN 1 - 1 + 1 ELSE 0)
        /\ \A i \in 1 .. 1 - 1 + 1 : SubSeq(line, 1, 1)[i] = line[1 + i - 1]
    BY <2>2, SubSeqProperties
  <2> HIDE DEF name, one
  <2>4. name \in Seq(D) /\ Len(name) = 1 /\ name[1] = n
    BY <1>4, <1>8, <2>3
  <2>5. \A i \in 1 .. Len(name) : name[i] = one[i]
    BY <2>1, <2>4
  <2>6. name = one
    BY <2>1, <2>4, <2>5, SeqEqual
  <2> QED BY <2>6 DEF one
<1> HIDE DEF rest
<1>10. /\ rest \in Seq(D) /\ Len(rest) = N + 1 /\ rest[1] = Space
       /\ \A j \in 1 .. N : rest[j + 1] = x[j]
  <2>1. Around(D, line, 2, SubSeq(line, 1, 2 - 1), SubSeq(line, 2 + 1, Len(line)))
    <3>1. 2 \in 1 .. Len(line)
      BY <1>2, <1>4
    <3> QED BY <1>4, <3>1, CutAround
  <2>2. rest = SubSeq(line, 2 + 1, Len(line))
    BY <1>4, <1>8
  <2>3. rest \in Seq(D) /\ Len(rest) = N + 1 /\ \A j \in 1 .. N + 1 : rest[j] = line[2 + j]
    BY <1>2, <1>4, <2>1, <2>2 DEF Around
  <2>4. rest[1] = Space
    <3>1. 1 \in 1 .. N + 1
      BY <1>2
    <3> QED BY <1>4, <2>3, <3>1
  <2>5. ASSUME NEW j \in 1 .. N
        PROVE  rest[j + 1] = x[j]
    <3>1. j + 1 \in 1 .. N + 1 /\ 2 + (j + 1) = j + 3
      BY <1>2
    <3> QED BY <1>4, <2>3, <3>1
  <2> QED BY <2>3, <2>4, <2>5
<1>11. rest # <<>> /\ Head(rest) = Space
  <2>1. rest # <<>>
    BY <1>2, <1>10
  <2> QED BY <1>10, <2>1
<1>12. Tail(rest) = x
  <2> DEFINE t == Tail(rest)
  <2>1. t \in Seq(D) /\ Len(t) = N + 1 - 1 /\ \A i \in 1 .. Len(t) : t[i] = rest[i + 1]
    BY <1>10, <1>11, HeadTailProperties
  <2> HIDE DEF t
  <2>2. Len(t) = N /\ \A i \in 1 .. Len(t) : t[i] = x[i]
    BY <1>2, <1>10, <2>1
  <2>3. t = x
    BY <2>1, <2>2, SeqEqual
  <2> QED BY <2>3 DEF t
<1>13. line # <<>>
  BY <1>2, <1>4
<1> QED BY <1>4, <1>7, <1>9, <1>11, <1>12, <1>13 DEF FieldLine, line, head

(* What can be written in one data line, as it is. *)
OneLine(D) == {x \in Seq(D) : ~Ending(x) /\ ~Contains(x, Invalid)}

(* What a reader is left with after whole frames. *)
Clean(D, bytes) ==
  /\ Split(D)[bytes].line = <<>> /\ ~AfterReturn(D, bytes)
  /\ Read(D, bytes).frame = EmptyFrame

Framing == {Word("event"), Word("message"), Word("data"), Colon, Space, LF}

(* The words of the syntax differ. *)
LEMMA WordsDiffer ==
  /\ Word("event") # Colon /\ Word("data") # Colon /\ Word("data") # Word("event")
  /\ Word("message") # Invalid /\ LF # CR /\ LF \in Terminators
  /\ \A w \in {Word("event"), Word("message"), Word("data"), Colon, Space} : w \notin Terminators
<1>1. \A v, w : Word(v) = Word(w) => v = w
  <2> SUFFICES ASSUME NEW v, NEW w, Word(v) = Word(w)
               PROVE  v = w
    OBVIOUS
  <2>1. Word(v).v = v /\ Word(w).v = w
    BY DEF Word
  <2> QED BY <2>1
<1>2. /\ "event" # ":" /\ "data" # ":" /\ "data" # "event" /\ "message" # "invalid" /\ "LF" # "CR"
      /\ \A w \in {"event", "message", "data", ":", " "} : w # "LF" /\ w # "CR"
  OBVIOUS
<1>3. /\ Word("event") # Word(":") /\ Word("data") # Word(":") /\ Word("data") # Word("event")
      /\ Word("message") # Word("invalid") /\ Word("LF") # Word("CR")
  BY <1>1, <1>2
<1>4. \A w \in {"event", "message", "data", ":", " "} : Word(w) # Word("LF") /\ Word(w) # Word("CR")
  BY <1>1, <1>2
<1>5. ASSUME NEW w \in {Word("event"), Word("message"), Word("data"), Word(":"), Word(" ")}
      PROVE  w # Word("LF") /\ w # Word("CR")
  BY <1>4
<1> QED BY <1>3, <1>5 DEF Colon, Space, Invalid, LF, CR, Terminators

EventSet(p, value) == [p EXCEPT !.frame.event = value]
DataSet(p, value) == [p EXCEPT !.frame.data = value, !.frame.seen = TRUE]

(* A field line sets the event of the frame, or its data. *)
LEMMA EventHandled ==
  ASSUME NEW p, NEW line, line # <<>>, NEW value,
         SplitField(line).name = <<Word("event")>>, Text(SplitField(line).value) = value
  PROVE  HandleLine(p, line) = EventSet(p, value)
<1>1. <<Word("event")>> # <<Word("data")>>
  BY WordsDiffer
<1> QED BY <1>1 DEF HandleLine, EventSet

LEMMA DataHandled ==
  ASSUME NEW p, NEW line, line # <<>>, NEW value, ~p.frame.seen,
         SplitField(line).name = <<Word("data")>>, Text(SplitField(line).value) = value
  PROVE  HandleLine(p, line) = DataSet(p, value)
<1>1. <<Word("event")>> # <<Word("data")>>
  BY WordsDiffer
<1>2. HandleLine(p, line) = [p EXCEPT !.frame.data = IF p.frame.seen
                                                     THEN @ \o <<LF>> \o value ELSE value,
                                      !.frame.seen = TRUE]
  BY <1>1 DEF HandleLine
<1> QED BY <1>2 DEF DataSet

(* A frame of the encoder is read as its payload. *)
LEMMA EncodedRead ==
  ASSUME NEW D, Framing \subseteq D, NEW b \in Seq(D), NEW x \in OneLine(D), Clean(D, b)
  PROVE  /\ EncodeOne(x) \in Seq(D)
         /\ Clean(D, b \o EncodeOne(x))
         /\ Read(D, b \o EncodeOne(x)).pending = Append(Read(D, b).pending, x)
<1> DEFINE message == <<Word("message")>>
           line1 == <<Word("event"), Colon, Space>> \o message
           head2 == <<Word("data"), Colon, Space>>
           line2 == head2 \o x
           lf == <<LF>>
           b1 == (b \o line1) \o lf
           b2 == (b1 \o line2) \o lf
           b3 == (b2 \o <<>>) \o lf
           q == Read(D, b)
           q1 == HandleLine(q, line1)
           q2 == HandleLine(q1, line2)
           q3 == HandleLine(q2, <<>>)
<1>1. /\ LF \in D /\ Colon \in D /\ Space \in D /\ Word("event") \in D /\ Word("data") \in D
      /\ Word("message") \in D /\ x \in Seq(D) /\ ~Ending(x) /\ ~Contains(x, Invalid)
  BY DEF Framing, OneLine
<1>2. /\ Word("event") # Colon /\ Word("data") # Colon /\ Word("data") # Word("event")
      /\ Word("message") # Invalid /\ LF # CR /\ LF \in Terminators
      /\ \A w \in {Word("event"), Word("message"), Word("data"), Colon, Space} : w \notin Terminators
  BY WordsDiffer
<1>3. message \in Seq(D) /\ lf \in Seq(D) /\ head2 \in Seq(D)
  BY <1>1
<1>4. /\ line1 \in Seq(D) /\ line1 # <<>>
      /\ SplitField(line1).name = <<Word("event")>> /\ SplitField(line1).value = message
  <2>1. FieldLine(D, Word("event"), message, line1)
    <3> HIDE DEF message
    <3> QED BY <1>1, <1>2, <1>3, FieldSplits
  <2> QED BY <2>1 DEF FieldLine
<1>5. /\ line2 \in Seq(D) /\ line2 # <<>>
      /\ SplitField(line2).name = <<Word("data")>> /\ SplitField(line2).value = x
  <2>1. FieldLine(D, Word("data"), x, line2)
    BY <1>1, <1>2, FieldSplits
  <2> QED BY <2>1 DEF FieldLine
<1>6. ~Ending(line1) /\ ~Ending(line2)
  <2>1. Len(message) = 1 /\ message[1] = Word("message")
    OBVIOUS
  <2>2. ASSUME NEW n \in {Word("event"), Word("data")}, NEW y \in Seq(D), ~Ending(y)
        PROVE  ~Ending(<<n, Colon, Space>> \o y)
    <3> DEFINE h == <<n, Colon, Space>>
               l == h \o y
    <3>1. h \in Seq(D) /\ Len(h) = 3 /\ h[1] = n /\ h[2] = Colon /\ h[3] = Space
      BY <1>1
    <3> HIDE DEF h
    <3>2. Joins(D, h, y, l)
      BY <3>1, ConcatJoins
    <3> HIDE DEF l
    <3>3. Len(y) \in Nat
      BY LenProperties
    <3> SUFFICES ASSUME NEW i \in 1 .. Len(l)
                 PROVE  l[i] \notin Terminators
      BY DEF Ending, l, h
    <3>4. i \in 1 .. 3 + Len(y) /\ l[i] = IF i <= 3 THEN h[i] ELSE y[i - 3]
      BY <3>1, <3>2 DEF Joins
    <3>5. CASE i <= 3
      <4>1. i = 1 \/ i = 2 \/ i = 3
        BY <3>3, <3>4, <3>5
      <4> QED BY <1>2, <3>1, <3>4, <3>5, <4>1
    <3>6. CASE ~(i <= 3)
      <4>1. i - 3 \in 1 .. Len(y)
        BY <3>3, <3>4, <3>6
      <4> QED BY <2>2, <3>4, <3>6, <4>1 DEF Ending
    <3> QED BY <3>5, <3>6
  <2>3. ~Ending(message)
    BY <1>2, <2>1 DEF Ending
  <2> HIDE DEF message
  <2> QED BY <1>1, <1>3, <2>2, <2>3
<1>7. EncodeOne(x) \in Seq(D) /\ b \o EncodeOne(x) = b3
  <2> DEFINE head1 == line1 \o lf
             ll == lf \o lf
             y == head1 \o line2
             e == <<Word("event"), Colon, Space, Word("message"), LF,
                    Word("data"), Colon, Space>>
  <2>1. ll = <<LF, LF>>
    <3> DEFINE two == <<LF, LF>>
    <3>1. lf \in Seq(D) /\ Len(lf) = 1 /\ lf[1] = LF
      BY <1>1
    <3>2. two \in Seq(D) /\ Len(two) = 2 /\ two[1] = LF /\ two[2] = LF
      BY <1>1
    <3> HIDE DEF lf, two
    <3>3. Joins(D, lf, lf, ll)
      BY <3>1, ConcatJoins
    <3> HIDE DEF ll
    <3>4. /\ ll \in Seq(D) /\ Len(ll) = 2
          /\ \A i \in 1 .. 2 : ll[i] = IF i <= 1 THEN lf[i] ELSE lf[i - 1]
      BY <3>1, <3>3 DEF Joins
    <3>5. \A i \in 1 .. 2 : ll[i] = two[i]
      <4>1. ll[1] = LF /\ ll[2] = LF
        BY <3>1, <3>4
      <4>2. \A i \in 1 .. 2 : i = 1 \/ i = 2
        OBVIOUS
      <4> QED BY <3>2, <4>1, <4>2
    <3>6. ll = two
      BY <3>2, <3>4, <3>5, SeqEqual
    <3> QED BY <3>6 DEF two
  <2>2. e = head1 \o head2
    <3> DEFINE start == <<Word("event"), Colon, Space>>
               h == start \o message
               y8 == head1 \o head2
    <3>1. /\ start \in Seq(D) /\ Len(start) = 3 /\ message \in Seq(D) /\ Len(message) = 1
          /\ lf \in Seq(D) /\ Len(lf) = 1 /\ head2 \in Seq(D) /\ Len(head2) = 3
          /\ e \in Seq(D) /\ Len(e) = 8
      BY <1>1
    <3>2. /\ start[1] = e[1] /\ start[2] = e[2] /\ start[3] = e[3] /\ message[1] = e[4]
          /\ lf[1] = e[5] /\ head2[1] = e[6] /\ head2[2] = e[7] /\ head2[3] = e[8]
      OBVIOUS
    <3> HIDE DEF start, message, lf, head2, e
    <3>3. Joins(D, start, message, h)
      BY <3>1, ConcatJoins
    <3> HIDE DEF h
    <3>4. /\ h \in Seq(D) /\ Len(h) = 4
          /\ \A i \in 1 .. 4 : h[i] = IF i <= 3 THEN start[i] ELSE message[i - 3]
      BY <3>1, <3>3 DEF Joins
    <3>5. h[1] = e[1] /\ h[2] = e[2] /\ h[3] = e[3] /\ h[4] = e[4]
      BY <3>2, <3>4
    <3>6. head1 = h \o lf
      BY DEF h, line1, start
    <3> HIDE DEF head1
    <3>7. Joins(D, h, lf, head1)
      BY <3>1, <3>4, <3>6, ConcatJoins
    <3>8. /\ head1 \in Seq(D) /\ Len(head1) = 5
          /\ \A i \in 1 .. 5 : head1[i] = IF i <= 4 THEN h[i] ELSE lf[i - 4]
      BY <3>1, <3>4, <3>7 DEF Joins
    <3>9. head1[1] = e[1] /\ head1[2] = e[2] /\ head1[3] = e[3] /\ head1[4] = e[4]
          /\ head1[5] = e[5]
      BY <3>2, <3>5, <3>8
    <3>10. Joins(D, head1, head2, y8)
      BY <3>1, <3>8, ConcatJoins
    <3> HIDE DEF y8
    <3>11. /\ y8 \in Seq(D) /\ Len(y8) = 8
           /\ \A i \in 1 .. 8 : y8[i] = IF i <= 5 THEN head1[i] ELSE head2[i - 5]
      BY <3>1, <3>8, <3>10 DEF Joins
    <3>12. \A i \in 1 .. 8 : y8[i] = e[i]
      <4>1. /\ y8[1] = e[1] /\ y8[2] = e[2] /\ y8[3] = e[3] /\ y8[4] = e[4]
            /\ y8[5] = e[5] /\ y8[6] = e[6] /\ y8[7] = e[7] /\ y8[8] = e[8]
        BY <3>2, <3>9, <3>11
      <4>2. \A i \in 1 .. 8 : i = 1 \/ i = 2 \/ i = 3 \/ i = 4 \/ i = 5 \/ i = 6 \/ i = 7 \/ i = 8
        OBVIOUS
      <4> QED BY <4>1, <4>2
    <3>13. y8 = e
      BY <3>1, <3>11, <3>12, SeqEqual
    <3> QED BY <3>13 DEF y8
  <2>3. EncodeOne(x) = (e \o x) \o <<LF, LF>>
    BY DEF EncodeOne
  <2> HIDE DEF line1, lf, head2, e
  <2>4. head1 \in Seq(D) /\ ll \in Seq(D)
    BY <1>3, <1>4, ConcatProperties
  <2> HIDE DEF ll
  <2>5. Regroups(head1, head2, x)
    <3> HIDE DEF head1
    <3> QED BY <1>1, <1>3, <2>4, Regroup
  <2>6. EncodeOne(x) = y \o ll
    BY <2>1, <2>2, <2>3, <2>5 DEF Regroups
  <2>7. y \in Seq(D)
    <3> HIDE DEF head1, line2
    <3> QED BY <1>5, <2>4, ConcatProperties
  <2>8. Regroups(b, line1, lf)
    BY <1>3, <1>4, Regroup
  <2>9. Regroups(b, head1, line2)
    <3> HIDE DEF head1, line2
    <3> QED BY <1>5, <2>4, Regroup
  <2>10. Regroups(b, y, ll)
    <3> HIDE DEF y
    <3> QED BY <2>4, <2>7, Regroup
  <2>11. b1 \in Seq(D) /\ b1 \o line2 \in Seq(D) /\ b2 \in Seq(D)
    <3>1. b \o line1 \in Seq(D)
      BY <1>4, ConcatProperties
    <3> DEFINE bl == b \o line1
    <3> HIDE DEF bl
    <3>2. bl \o lf \in Seq(D)
      BY <1>3, <3>1, ConcatProperties DEF bl
    <3>3. b1 \in Seq(D)
      BY <3>2 DEF bl
    <3> HIDE DEF b1, line2
    <3>4. b1 \o line2 \in Seq(D)
      BY <1>5, <3>3, ConcatProperties
    <3> DEFINE b1l == b1 \o line2
    <3> HIDE DEF b1l
    <3>5. b1l \o lf \in Seq(D)
      BY <1>3, <3>4, ConcatProperties DEF b1l
    <3> QED BY <3>3, <3>4, <3>5 DEF b1l
  <2>12. Regroups(b1 \o line2, lf, lf)
    <3> DEFINE b1l == b1 \o line2
    <3>1. b1l \in Seq(D)
      BY <2>11
    <3> HIDE DEF b1l
    <3>2. Regroups(b1l, lf, lf)
      BY <1>3, <3>1, Regroup
    <3> QED BY <3>2 DEF b1l
  <2>13. b2 \o <<>> = b2
    <3> HIDE DEF b2
    <3> QED BY <2>11, ConcatEmptySeq
  <2>14. EncodeOne(x) \in Seq(D)
    <3> HIDE DEF y
    <3> QED BY <2>4, <2>6, <2>7, ConcatProperties
  <2>15. b \o y = b1 \o line2
    BY <2>8, <2>9 DEF Regroups
  <2>16. b \o EncodeOne(x) = (b1 \o line2) \o ll
    <3> HIDE DEF y
    <3> QED BY <2>6, <2>10, <2>15 DEF Regroups
  <2>17. (b1 \o line2) \o ll = b2 \o lf
    BY <2>12 DEF Regroups, ll
  <2> QED BY <2>13, <2>14, <2>16, <2>17
<1>8. q \in ParserType(D) /\ q.frame = EmptyFrame
  BY <1>1, ReadTyped DEF Clean
<1>9. Split(D)[b].line = <<>> /\ ~AfterReturn(D, b)
  BY DEF Clean
<1> HIDE DEF q, line1, line2, message
<1>10. /\ b1 \in Seq(D) /\ Split(D)[b1].line = <<>> /\ ~AfterReturn(D, b1)
       /\ Read(D, b1) = q1
  <2>1. b1 \in Seq(D)
    <3>1. b \o line1 \in Seq(D)
      BY <1>4, ConcatProperties
    <3> HIDE DEF lf
    <3> QED BY <1>3, <3>1, ConcatProperties
  <2>2. HandsOver(D, b, line1, LF, b1)
    BY <1>1, <1>2, <1>4, <1>6, <1>9, LineRead
  <2> QED BY <1>2, <2>1, <2>2 DEF HandsOver, q
<1> HIDE DEF b1, q1
<1>11. /\ b2 \in Seq(D) /\ Split(D)[b2].line = <<>> /\ ~AfterReturn(D, b2)
       /\ Read(D, b2) = q2
  <2>1. b2 \in Seq(D)
    <3>1. b1 \o line2 \in Seq(D)
      BY <1>5, <1>10, ConcatProperties
    <3> HIDE DEF lf
    <3> QED BY <1>3, <3>1, ConcatProperties
  <2>2. HandsOver(D, b1, line2, LF, b2)
    BY <1>1, <1>2, <1>5, <1>6, <1>10, LineRead
  <2> QED BY <1>2, <1>10, <2>1, <2>2 DEF HandsOver
<1> HIDE DEF b2, q2
<1>12. /\ Split(D)[b3].line = <<>> /\ ~AfterReturn(D, b3)
       /\ Read(D, b3) = q3
  <2> DEFINE nothing == <<>>
  <2>1. nothing \in Seq(D) /\ ~Ending(nothing)
    BY DEF Ending
  <2>2. HandsOver(D, b2, nothing, LF, (b2 \o nothing) \o <<LF>>)
    <3> HIDE DEF nothing
    <3> QED BY <1>1, <1>2, <1>11, <2>1, LineRead
  <2> QED BY <1>2, <1>11, <2>2 DEF HandsOver
<1>13. q1 = EventSet(q, message)
  <2>1. Text(message) = message
    BY <1>2 DEF Text, Contains, message
  <2> QED BY <1>4, <2>1, EventHandled DEF q1
<1>14. /\ q1 \in ParserType(D) /\ q1.pending = q.pending
       /\ q1.frame.event = message /\ q1.frame.seen = FALSE
  <2>1. q.frame.seen = FALSE
    <3>1. EmptyFrame.seen = FALSE
      BY DEF EmptyFrame
    <3> QED BY <1>8, <3>1
  <2>2. /\ q.frame \in FrameType(D) /\ q.pending \in Seq(Seq(D)) /\ q.buf \in Seq(D)
        /\ q = [buf |-> q.buf, frame |-> q.frame, pending |-> q.pending]
    BY <1>8 DEF ParserType
  <2> DEFINE frame == [q.frame EXCEPT !.event = message]
  <2>3. q1.frame = frame /\ q1.pending = q.pending /\ q1 = [q EXCEPT !.frame = frame]
    BY <1>13, <2>2 DEF EventSet
  <2>4. frame \in FrameType(D) /\ frame.event = message /\ frame.seen = q.frame.seen
    BY <1>3, <2>2 DEF FrameType
  <2> HIDE DEF frame
  <2>5. q1 \in ParserType(D)
    BY <2>2, <2>3, <2>4 DEF ParserType
  <2> QED BY <2>1, <2>3, <2>4, <2>5
<1>15. /\ q2.frame.event = message /\ q2.frame.data = x /\ q2.frame.seen = TRUE
       /\ q2.pending = q.pending
       /\ q2 = [buf |-> q2.buf, frame |-> q2.frame, pending |-> q2.pending]
  <2>1. Text(x) = x
    BY <1>1 DEF Text
  <2>2. q2 = DataSet(q1, x)
    <3>1. ~q1.frame.seen
      BY <1>14
    <3> QED BY <1>5, <2>1, <3>1, DataHandled DEF q2
  <2>3. /\ q1.frame \in FrameType(D)
        /\ q1 = [buf |-> q1.buf, frame |-> q1.frame, pending |-> q1.pending]
    BY <1>14 DEF ParserType
  <2> DEFINE frame == [q1.frame EXCEPT !.data = x, !.seen = TRUE]
  <2>4. q2.frame = frame /\ q2.pending = q1.pending /\ q2 = [q1 EXCEPT !.frame = frame]
    BY <2>2, <2>3 DEF DataSet
  <2>5. frame.event = message /\ frame.data = x /\ frame.seen = TRUE
    BY <1>14, <2>3 DEF FrameType
  <2> HIDE DEF frame
  <2>6. q2 = [buf |-> q2.buf, frame |-> q2.frame, pending |-> q2.pending]
    BY <2>3, <2>4
  <2> QED BY <1>14, <2>4, <2>5, <2>6
<1>16. q3.frame = EmptyFrame /\ q3.pending = Append(q.pending, x)
  <2>1. Dispatches(q2.frame)
    BY <1>15 DEF Dispatches, message
  <2>2. q3 = [q2 EXCEPT !.frame = EmptyFrame, !.pending = Append(q2.pending, x)]
    BY <1>15, <2>1 DEF HandleLine
  <2> QED BY <1>15, <2>2
<1> QED BY <1>7, <1>12, <1>16 DEF Clean, q

(* Nothing has been read of no bytes. *)
LEMMA EmptyClean ==
  ASSUME NEW D, LF \in D
  PROVE  Clean(D, <<>>) /\ Read(D, <<>>).pending = <<>>
<1>1. Split(D)[<<>>] = NothingRead
  BY SplitFacts
<1>2. Handled(D)[<<>>] = EmptyParser
  BY HandledFacts
<1>3. Split(D)[<<>>].line = <<>> /\ Split(D)[<<>>].lines = <<>> /\ Split(D)[<<>>].afterCR = FALSE
  BY <1>1 DEF NothingRead
<1>4. Read(D, <<>>) = EmptyParser
  BY <1>2, <1>3 DEF Read
<1>5. Read(D, <<>>).frame = EmptyFrame /\ Read(D, <<>>).pending = <<>>
  BY <1>4 DEF EmptyParser
<1> QED BY <1>3, <1>5 DEF Clean, AfterReturn

(* What the encoder writes is read as it was given.                        *)
THEOREM EncoderRoundTrip ==
  ASSUME NEW D, Framing \subseteq D, NEW ps \in Seq(OneLine(D))
  PROVE  EncodeResults(ps) \in Seq(D) /\ DecodeFrames(EncodeResults(ps)) = ps
<1> DEFINE O == OneLine(D)
           F == [x \in O |-> EncodeOne(x)]
           T == {s \in Seq(O) : /\ EncodeResults(s) \in Seq(D)
                                /\ Clean(D, EncodeResults(s))
                                /\ Read(D, EncodeResults(s)).pending = s}
<1>1. F \in [O -> Seq(D)]
  <2> SUFFICES ASSUME NEW x \in O
               PROVE  EncodeOne(x) \in Seq(D)
    OBVIOUS
  <2>1. <<>> \in Seq(D) /\ LF \in D
    BY DEF Framing
  <2>2. Clean(D, <<>>)
    BY <2>1, EmptyClean
  <2> QED BY <2>1, <2>2, EncodedRead
<1>2. ASSUME NEW s \in Seq(O)
      PROVE  EncodeResults(s) = FlattenSeq(Mapped(s, F))
  <2>1. \A i \in DOMAIN s : s[i] \in O
    <3>1. DOMAIN s = 1 .. Len(s)
      BY LenProperties
    <3> HIDE DEF O
    <3> QED BY <3>1, ElementOfSeq
  <2>2. Mapped(s, F) = [i \in DOMAIN s |-> EncodeOne(s[i])]
    BY <2>1 DEF Mapped
  <2> QED BY <2>2 DEF EncodeResults
<1>3. FlatGrowing(D)
  BY FlattenGrows
<1> HIDE DEF F
<1>0. LF \in D
  BY DEF Framing
<1>4. <<>> \in T
  <2> DEFINE e == <<>>
             m == Mapped(e, F)
  <2>1. e \in Seq(O) /\ e \in Seq(D)
    OBVIOUS
  <2>2. EncodeResults(e) = FlattenSeq(m)
    BY <1>2, <2>1
  <2>3. m = e
    <3>1. \A i \in DOMAIN e : FALSE
      OBVIOUS
    <3>2. e \in Seq(O) /\ Len(e) = 0
      OBVIOUS
    <3>3. MapsTo(e, F, Seq(D), m)
      <4> HIDE DEF O, e
      <4> QED BY <1>1, <2>1, MappedList
    <3>4. m \in Seq(Seq(D)) /\ Len(m) = 0
      <4> HIDE DEF e, m
      <4> QED BY <3>2, <3>3 DEF MapsTo
    <3> HIDE DEF m
    <3> QED BY <3>4, EmptySeq
  <2>4. EncodeResults(e) = e
    BY <1>3, <2>2, <2>3 DEF FlatGrowing
  <2>5. Clean(D, e) /\ Read(D, e).pending = e
    BY <1>0, EmptyClean
  <2> HIDE DEF e
  <2>6. e \in T
    BY <2>1, <2>4, <2>5
  <2> QED BY <2>6 DEF e
<1>5. ASSUME NEW s \in Seq(O), NEW x \in O, s \in T
      PROVE  Append(s, x) \in T
  <2> DEFINE r == EncodeResults(s)
             m == Mapped(s, F)
  <2>1. r \in Seq(D) /\ Clean(D, r) /\ Read(D, r).pending = s
    BY <1>5
  <2>2. Append(s, x) \in Seq(O)
    <3> HIDE DEF O
    <3> QED BY AppendProperties
  <2>3. EncodeResults(Append(s, x)) = r \o EncodeOne(x)
    <3>1. EncodeResults(Append(s, x)) = FlattenSeq(Mapped(Append(s, x), F))
      BY <1>2, <2>2
    <3>2. F[x] = EncodeOne(x) /\ F[x] \in Seq(D)
      BY <1>1 DEF F
    <3>3. Mapped(Append(s, x), F) = Append(m, F[x]) /\ MapsTo(s, F, Seq(D), m)
      <4> HIDE DEF O
      <4> QED BY <1>1, MappedGrows, MappedList
    <3>4. FlattenSeq(Append(m, F[x])) = FlattenSeq(m) \o F[x]
      <4>1. m \in Seq(Seq(D))
        BY <3>3 DEF MapsTo
      <4> HIDE DEF m
      <4> QED BY <1>3, <3>2, <4>1 DEF FlatGrowing
    <3> QED BY <1>2, <3>1, <3>2, <3>3, <3>4
  <2>4. /\ EncodeOne(x) \in Seq(D) /\ Clean(D, r \o EncodeOne(x))
        /\ Read(D, r \o EncodeOne(x)).pending = Append(s, x)
    <3> HIDE DEF r
    <3> QED BY <2>1, EncodedRead
  <2>5. r \o EncodeOne(x) \in Seq(D)
    <3> HIDE DEF r
    <3> QED BY <2>1, <2>4, ConcatProperties
  <2> HIDE DEF O
  <2> QED BY <2>2, <2>3, <2>4, <2>5
<1>6. ps \in T
  <2> HIDE DEF T, O
  <2>1. ps \in Seq(O)
    BY DEF O
  <2> QED BY <1>4, <1>5, <2>1, ListInduction
<1> QED BY <1>0, <1>6, DecodeIsRead

-----------------------------------------------------------------------------
(* What the invariant is made of.  Documents are what an answer of the     *)
(* server holds, or what its text is read as; Answers are results of them. *)
Documents == (UNION {DocumentsOf(r) : r \in Replies}) \cup {LF, [t |-> "text"]}
Answers == {ResultOf(doc) : doc \in Documents}

Classified ==
  \E http \in Inbounds :
    request = [kind |-> FromAxum(http).kind, rpcs |-> FromAxum(http).rpcs, http |-> http]

TypeInv ==
  /\ pc \in {"intake", "upstream", "stream", "done", "gone"}
  /\ request = NoRequest \/ Classified
  /\ sent \in Seq(ToSet(sent))
  /\ results \in Seq(Answers)
  /\ body \in Seq(Documents)
  /\ at \in 0 .. Len(body)
  /\ parser \in ParserType(Documents) /\ ended \in BOOLEAN
  /\ events \in Seq(ToSet(events))
  /\ now \in 0 .. MaxTime /\ started \in 0 .. now

PhaseInv ==
  /\ pc = "intake" => request = NoRequest /\ results = <<>>
  /\ pc \in {"upstream", "stream"} => Classified
  /\ pc \in {"intake", "upstream"} =>
       events = <<>> /\ at = 0 /\ routed = Running /\ firstItem = Running

(* While a stream is relayed all its events report the span that ended     *)
(* with the first item; before that item there is none.                    *)
TimesInv ==
  /\ pc = "stream" =>
       /\ request.kind = "mcp"
       /\ routed \in started .. now
       /\ firstItem = Running \/ firstItem \in routed .. now
       /\ \A i \in DOMAIN events :
            events[i].type = "request" => /\ firstItem # Running
                                          /\ events[i].upstream = firstItem - started
                                          /\ events[i].latency <= now - started
  /\ \A i \in DOMAIN events :
       events[i].type = "request" => events[i].upstream \in Nat /\ events[i].latency \in Nat
  /\ TimesConsistent

(* What the server has had of the calls while the exchange is upstream, in *)
(* number and in content.                                                  *)
SentInv ==
  /\ pc = "intake" => sent = <<>>
  /\ pc = "upstream" =>
       IF request.kind \in {"mcp", "batch"}
       THEN /\ Len(sent) = Len(results)
            /\ Len(results) <= Len(request.rpcs)
            /\ request.rpcs = <<>> \/ Len(results) < Len(request.rpcs)
            /\ \A i \in 1 .. Len(sent) : sent[i].body = EncodeRequest(request.rpcs[i])
       ELSE sent = <<>>
  /\ pc = "stream" => SentDocuments = [i \in DOMAIN request.rpcs |-> EncodeRequest(request.rpcs[i])]
  /\ NothingSkipped

(* What the sinks rely on: a single call is one, and the results of a      *)
(* batch are a list of results.                                            *)
IsResultRecord(r) == r = [id |-> r.id, kind |-> r.kind, body |-> r.body]

ForSinks(e) ==
  /\ e.request.kind = "mcp" => /\ e.request.rpcs = <<e.request.rpcs[1]>>
                               /\ e.response.kind # "batch"
  /\ e.request.kind \in {"mcp", "batch"} /\ e.response.kind = "batch" =>
       /\ e.response.results \in Seq(ToSet(e.response.results))
       /\ \A r \in ToSet(e.response.results) : IsResultRecord(r)

SinksInv == \A e \in ToSet(events) : e.type = "request" => ForSinks(e)

(* What a client is told of results, of the frames of a stream, and the    *)
(* bytes that tell it.                                                     *)
TellOf(rs, methods) == [i \in DOMAIN rs |-> EncodeResult(RewriteIfKnown(rs[i], methods))]

Told(frames, methods) == TellOf(ResultsOf(frames), methods)

BytesOf(docs) == EncodeResults([i \in DOMAIN docs |-> <<docs[i]>>])

(* What the stream has come to: of the bytes that have arrived the parser   *)
(* has handed over the frames popped and holds the next ones; the client    *)
(* has been told the results in the popped ones, rewritten, in the bytes    *)
(* of as many frames.                                                       *)
StreamTold(popped) ==
  /\ "body" \in DOMAIN answer
  /\ answer.body = [t |-> "frames", bytes |-> BytesOf(Told(popped, Methods))]
  /\ raw = ResultsOf(popped)

StreamInv ==
  /\ pc \in {"intake", "upstream"} =>
       /\ body = <<>> /\ parser = EmptyParser /\ ended = FALSE
       /\ answer = NoAnswer /\ raw = <<>>
  /\ pc = "stream" => Streamed
  /\ Settled(parser, ended)
  /\ \E popped \in Seq(Seq(Documents)) :
       /\ Consumed(Documents, parser, popped, SubSeq(body, 1, at), ended)
       /\ Streamed => StreamTold(popped)

(* What has been logged of results, and what has been announced of them.   *)
LogDocOf(r, methods) == EncodeResult(SlimResult(RewriteIfKnown(r, methods), methods))
LogDocs(methods) == {LogDocOf(r, methods) : r \in Answers}
LogF(methods) == [r \in Answers |-> LogDocOf(r, methods)]

StagesKept ==
  /\ raw \in Seq(Answers)
  /\ \A e \in ToSet(events) :
       e.type = "request" => Encoded(e.response.results) \in Seq(LogDocs(Methods))
  /\ Logged = Mapped(raw, LogF(Methods))
  /\ SchemaEventsSent = SchemaEvents(raw, Methods)

(* What is answered in one piece is the results, or nothing to log.        *)
Buffered ==
  \/ Answered = TellOf(raw, Methods)
  \/ /\ raw = <<>> /\ EntriesOf(Answered) = <<>>
     /\ \A e \in ToSet(events) : e.type = "request" => ~AnswersMcp(e)

StagesInv ==
  /\ StagesKept
  /\ ~Streamed => Buffered
  /\ pc = "done" /\ ~Streamed /\ request # NoRequest => Len(RequestEvents) = 1

IInv == TypeInv /\ PhaseInv /\ TimesInv /\ SentInv /\ SinksInv /\ StreamInv /\ StagesInv

-----------------------------------------------------------------------------
(* The answers of the server. *)
LEMMA DocumentsReadable ==
  ASSUME NEW doc \in Documents, NEW method \in DOMAIN ListOf
  PROVE  LET entries == ItemsOf(Get(Get(doc, "result"), ListOf[method].array))
         IN  entries \in Seq(ToSet(entries))
<1>1. CASE \E r \in Replies : doc \in DocumentsOf(r)
  BY <1>1, ExchangeAssumption DEF ProperList
<1>2. CASE doc \in {LF, [t |-> "text"]}
  <2>1. ~IsObject(doc) /\ ~IsObject(Missing) /\ ~IsArray(Missing)
    BY <1>2 DEF IsObject, IsArray, LF, Word, Missing
  <2>2. ItemsOf(Get(Get(doc, "result"), ListOf[method].array)) = <<>>
    BY <2>1 DEF Get, ItemsOf
  <2>3. <<>> \in Seq(ToSet(<<>>))
    OBVIOUS
  <2> QED BY <2>2, <2>3
<1> QED BY <1>1, <1>2 DEF Documents

LEMMA ParseTyped ==
  ASSUME NEW D, NEW text \in Seq(D)
  PROVE  Parse(text) \in D \cup {[t |-> "text"]}
<1> DEFINE K == D \cap (ToSet(text) \ {LF, Space})
           tokens == Only(text, ToSet(text) \ {LF, Space})
<1>1. tokens \in Seq(K) /\ K \subseteq D
  BY OnlyKeeps
<1> HIDE DEF K
<1>2. Parse(text) = IF Len(tokens) = 1 THEN Head(tokens) ELSE [t |-> "text"]
  BY DEF Parse
<1> HIDE DEF tokens
<1>3. Len(tokens) = 1 => Head(tokens) \in D
  BY <1>1
<1> QED BY <1>2, <1>3

-----------------------------------------------------------------------------
(* What a stream tells, as a composition of functions.                     *)
ReadAs(D) == D \cup {[t |-> "text"]}
ParseF(D) == [text \in Seq(D) |-> Parse(text)]
ResultDocs(D) == {d \in ReadAs(D) : IsResult(d)}
AnswersIn(D) == {ResultOf(d) : d \in ReadAs(D)}
ResultF(D) == [d \in ReadAs(D) |-> ResultOf(d)]

LEMMA ResultsComposed ==
  ASSUME NEW D, NEW frames \in Seq(Seq(D))
  PROVE  /\ Mapped(frames, ParseF(D)) \in Seq(ReadAs(D))
         /\ Only(Mapped(frames, ParseF(D)), ResultDocs(D)) \in Seq(ReadAs(D))
         /\ ResultsOf(frames)
              = Mapped(Only(Mapped(frames, ParseF(D)), ResultDocs(D)), ResultF(D))
<1> DEFINE L == Seq(D)
           R == ReadAs(D)
           texts == [i \in DOMAIN frames |-> Parse(frames[i])]
           m == Mapped(frames, ParseF(D))
           docs == Only(texts, {d \in ToSet(texts) : IsResult(d)})
           only == Only(m, ResultDocs(D))
<1>1. ParseF(D) \in [L -> R]
  BY ParseTyped DEF ParseF, ReadAs
<1>2. frames \in Seq(L) /\ DOMAIN frames = 1 .. Len(frames) /\ \A i \in 1 .. Len(frames) : frames[i] \in L
  BY LenProperties
<1>3. MapsTo(frames, ParseF(D), R, m)
  <2> HIDE DEF L, R
  <2> QED BY <1>1, <1>2, MappedList
<1>4. m \in Seq(R)
  BY <1>3 DEF MapsTo
<1>5. texts = m
  <2>1. \A i \in DOMAIN frames : Parse(frames[i]) = ParseF(D)[frames[i]]
    BY <1>2 DEF ParseF
  <2> QED BY <2>1 DEF Mapped
<1> HIDE DEF m, texts
<1>6. docs = only
  <2>1. \A d \in ToSet(m) : d \in R
    <3>1. DOMAIN m = 1 .. Len(m) /\ \A i \in 1 .. Len(m) : m[i] \in R
      BY <1>4, LenProperties
    <3> QED BY <3>1 DEF ToSet
  <2> DEFINE A == {d \in ToSet(m) : IsResult(d)}
             B == ResultDocs(D)
  <2>2. \A d \in ToSet(m) : d \in A <=> d \in B
    BY <2>1 DEF ResultDocs
  <2> HIDE DEF A, B, R
  <2>3. Only(m, A) = Only(m, B)
    BY <1>4, <2>2, OnlyAgrees
  <2> QED BY <1>5, <2>3 DEF A, B
<1>7. only \in Seq(R)
  <2> HIDE DEF R
  <2> QED BY <1>4, OnlyTyped
<1>8. ResultsOf(frames) = [i \in DOMAIN docs |-> ResultOf(docs[i])]
  BY DEF ResultsOf, texts
<1> HIDE DEF docs, only
<1>9. DOMAIN only = 1 .. Len(only) /\ \A i \in 1 .. Len(only) : only[i] \in R
  BY <1>7, LenProperties
<1>10. [i \in DOMAIN only |-> ResultOf(only[i])] = Mapped(only, ResultF(D))
  BY <1>9 DEF Mapped, ResultF
<1> QED BY <1>4, <1>6, <1>7, <1>8, <1>10 DEF only, m

LEMMA ResultsTyped ==
  ASSUME NEW D, NEW frames \in Seq(Seq(D))
  PROVE  ResultsOf(frames) \in Seq(AnswersIn(D))
<1> DEFINE s == Only(Mapped(frames, ParseF(D)), ResultDocs(D))
           R == ReadAs(D)
           A == AnswersIn(D)
<1>1. ResultF(D) \in [R -> A]
  BY DEF ResultF, AnswersIn
<1>2. s \in Seq(R) /\ ResultsOf(frames) = Mapped(s, ResultF(D))
  BY ResultsComposed
<1> HIDE DEF s, R, A
<1>3. MapsTo(s, ResultF(D), A, Mapped(s, ResultF(D)))
  BY <1>1, <1>2, MappedList
<1> QED BY <1>2, <1>3 DEF MapsTo, A

(* The results of two lists of frames are those of one and of the other. *)
LEMMA ResultsJoin ==
  ASSUME NEW D, NEW f \in Seq(Seq(D)), NEW g \in Seq(Seq(D))
  PROVE  ResultsOf(f \o g) = ResultsOf(f) \o ResultsOf(g)
<1> DEFINE L == Seq(D)
           R == ReadAs(D)
           A == AnswersIn(D)
           P == ParseF(D)
           S == ResultDocs(D)
           F == ResultF(D)
           fg == f \o g
<1>1. P \in [L -> R] /\ F \in [R -> A]
  BY ParseTyped DEF ParseF, ReadAs, ResultF, AnswersIn
<1>2. f \in Seq(L) /\ g \in Seq(L)
  OBVIOUS
<1>3. fg \in Seq(L)
  <2> HIDE DEF L
  <2> QED BY <1>2, ConcatProperties
<1>4. /\ ResultsOf(f) = Mapped(Only(Mapped(f, P), S), F)
      /\ ResultsOf(g) = Mapped(Only(Mapped(g, P), S), F)
      /\ ResultsOf(fg) = Mapped(Only(Mapped(fg, P), S), F)
      /\ Only(Mapped(f, P), S) \in Seq(R) /\ Only(Mapped(g, P), S) \in Seq(R)
      /\ Mapped(f, P) \in Seq(R) /\ Mapped(g, P) \in Seq(R)
  BY <1>3, ResultsComposed
<1> HIDE DEF L, R, A, P, S, F
<1>5. Mapped(f \o g, P) = Mapped(f, P) \o Mapped(g, P)
  <2>1. P \in Mapping(L, R)
    BY <1>1, <1>2 DEF Mapping
  <2> QED BY <1>1, <1>2, <2>1, MappedConcat
<1> DEFINE mf == Mapped(f, P)
           mg == Mapped(g, P)
           of == Only(mf, S)
           og == Only(mg, S)
<1> HIDE DEF mf, mg
<1>6. Only(mf \o mg, S) = of \o og
  BY <1>4, OnlyConcat DEF mf, mg
<1>7. of \in Seq(R) /\ og \in Seq(R)
  BY <1>4 DEF mf, mg
<1> HIDE DEF of, og
<1>8. Mapped(of \o og, F) = Mapped(of, F) \o Mapped(og, F)
  <2>1. F \in Mapping(R, A)
    BY <1>1, <1>7 DEF Mapping
  <2> QED BY <1>1, <1>7, <2>1, MappedConcat
<1> QED BY <1>4, <1>5, <1>6, <1>8 DEF of, og, mf, mg

(* What a client is told of results.                                       *)
TellDocs(A, methods) == {EncodeResult(RewriteIfKnown(r, methods)) : r \in A}
TellF(A, methods) == [r \in A |-> EncodeResult(RewriteIfKnown(r, methods))]
ToldDocs(D, methods) == TellDocs(AnswersIn(D), methods)

LEMMA TellComposed ==
  ASSUME NEW A, NEW rs \in Seq(A), NEW methods
  PROVE  /\ TellOf(rs, methods) = Mapped(rs, TellF(A, methods))
         /\ TellF(A, methods) \in [A -> TellDocs(A, methods)]
         /\ TellOf(rs, methods) \in Seq(TellDocs(A, methods))
<1> DEFINE T == TellDocs(A, methods)
           F == TellF(A, methods)
<1>1. F \in [A -> T]
  BY DEF TellF, TellDocs
<1>2. DOMAIN rs = 1 .. Len(rs) /\ \A i \in 1 .. Len(rs) : rs[i] \in A
  BY LenProperties
<1>3. TellOf(rs, methods) = Mapped(rs, F)
  BY <1>2 DEF TellOf, TellF, Mapped
<1> HIDE DEF T, F
<1>4. MapsTo(rs, F, T, Mapped(rs, F))
  BY <1>1, MappedList
<1>5. Mapped(rs, F) \in Seq(T)
  BY <1>4 DEF MapsTo
<1> QED BY <1>1, <1>3, <1>5 DEF T, F

LEMMA ToldTyped ==
  ASSUME NEW D, NEW frames \in Seq(Seq(D)), NEW methods
  PROVE  Told(frames, methods) \in Seq(ToldDocs(D, methods))
BY ResultsTyped, TellComposed DEF Told, ToldDocs

(* What is told of two lists of frames is told of one and then the other. *)
LEMMA ToldJoins ==
  ASSUME NEW D, NEW f \in Seq(Seq(D)), NEW g \in Seq(Seq(D)), NEW methods
  PROVE  Told(f \o g, methods) = Told(f, methods) \o Told(g, methods)
<1> DEFINE A == AnswersIn(D)
           T == TellDocs(A, methods)
           F == TellF(A, methods)
           rf == ResultsOf(f)
           rg == ResultsOf(g)
           both == rf \o rg
<1>1. rf \in Seq(A) /\ rg \in Seq(A)
  BY ResultsTyped
<1>2. ResultsOf(f \o g) = both
  BY ResultsJoin
<1> HIDE DEF A, rf, rg
<1>3. both \in Seq(A)
  BY <1>1, ConcatProperties
<1>4. /\ TellOf(rf, methods) = Mapped(rf, F) /\ TellOf(rg, methods) = Mapped(rg, F)
      /\ TellOf(both, methods) = Mapped(both, F) /\ F \in [A -> T]
  BY <1>1, <1>3, TellComposed
<1> HIDE DEF T, F
<1>5. Mapped(both, F) = Mapped(rf, F) \o Mapped(rg, F)
  <2>1. F \in Mapping(A, T)
    BY <1>1, <1>4 DEF Mapping
  <2> QED BY <1>1, <1>4, <2>1, MappedConcat
<1> QED BY <1>2, <1>4, <1>5 DEF Told, rf, rg

-----------------------------------------------------------------------------
(* A document is one token that means nothing to the syntax of a stream.   *)
Objects(E) == \A e \in E : e.t = "object"

LEMMA ToldObjects ==
  ASSUME NEW D, NEW methods
  PROVE  Objects(ToldDocs(D, methods))
<1>1. \A members : Obj(members).t = "object"
  BY DEF Obj
<1>2. \A r : EncodeResult(r).t = "object"
  BY <1>1 DEF EncodeResult
<1> QED BY <1>2 DEF Objects, ToldDocs, TellDocs

LEMMA ObjectsAreTokens ==
  ASSUME NEW e, e.t = "object"
  PROVE  \A w : e # Word(w)
BY DEF Word

Bytes(E) == Framing \cup E
SingleF(E) == [e \in E |-> <<e>>]
EncodeF(E) == [x \in OneLine(Bytes(E)) |-> EncodeOne(x)]

(* A document is one line of text. *)
LEMMA ObjectIsLine ==
  ASSUME NEW E, Objects(E), NEW e \in E
  PROVE  <<e>> \in OneLine(Bytes(E))
<1> DEFINE x == <<e>>
<1>1. x \in Seq(Bytes(E)) /\ Len(x) = 1 /\ x[1] = e
  BY DEF Bytes
<1>2. e \notin Terminators /\ e # Invalid
  BY ObjectsAreTokens DEF Objects, Terminators, LF, CR, Invalid
<1> HIDE DEF x
<1>3. ~Ending(x)
  BY <1>1, <1>2 DEF Ending
<1>4. ~Contains(x, Invalid)
  BY <1>1, <1>2, LenProperties DEF Contains
<1> QED BY <1>1, <1>3, <1>4 DEF OneLine, x

(* The encoder, as a composition of functions. *)
LEMMA BytesComposed ==
  ASSUME NEW E, Objects(E), NEW docs \in Seq(E)
  PROVE  /\ Mapped(docs, SingleF(E)) \in Seq(OneLine(Bytes(E)))
         /\ [i \in DOMAIN docs |-> <<docs[i]>>] = Mapped(docs, SingleF(E))
         /\ BytesOf(docs) = FlattenSeq(Mapped(Mapped(docs, SingleF(E)), EncodeF(E)))
<1> DEFINE O == OneLine(Bytes(E))
           m == Mapped(docs, SingleF(E))
<1>1. SingleF(E) \in [E -> O]
  BY ObjectIsLine DEF SingleF
<1>2. MapsTo(docs, SingleF(E), O, m)
  <2> HIDE DEF O
  <2> QED BY <1>1, MappedList
<1>3. DOMAIN docs = 1 .. Len(docs) /\ \A i \in 1 .. Len(docs) : docs[i] \in E
  BY LenProperties
<1>4. [i \in DOMAIN docs |-> <<docs[i]>>] = m
  BY <1>3 DEF Mapped, SingleF
<1>5. m \in Seq(O)
  BY <1>2 DEF MapsTo
<1> HIDE DEF m
<1>6. DOMAIN m = 1 .. Len(m) /\ \A i \in 1 .. Len(m) : m[i] \in O
  <2> HIDE DEF O
  <2> QED BY <1>5, LenProperties
<1>7. [i \in DOMAIN m |-> EncodeOne(m[i])] = Mapped(m, EncodeF(E))
  BY <1>6 DEF Mapped, EncodeF
<1> QED BY <1>4, <1>5, <1>7 DEF BytesOf, EncodeResults, m

LEMMA BytesTyped ==
  ASSUME NEW E, Objects(E), NEW docs \in Seq(E)
  PROVE  BytesOf(docs) \in Seq(Bytes(E))
<1> DEFINE m == Mapped(docs, SingleF(E))
<1>1. m \in Seq(OneLine(Bytes(E))) /\ BytesOf(docs) = EncodeResults(m)
  BY BytesComposed DEF BytesOf
<1>2. Framing \subseteq Bytes(E)
  BY DEF Bytes
<1> HIDE DEF m
<1> QED BY <1>1, <1>2, EncoderRoundTrip

LEMMA EncodedTyped ==
  ASSUME NEW D, Framing \subseteq D, NEW x \in OneLine(D)
  PROVE  EncodeOne(x) \in Seq(D)
<1>1. <<>> \in Seq(D) /\ LF \in D
  BY DEF Framing
<1>2. Clean(D, <<>>)
  BY <1>1, EmptyClean
<1> QED BY <1>1, <1>2, EncodedRead

(* The bytes that tell two lists of documents. *)
LEMMA BytesJoin ==
  ASSUME NEW E, Objects(E), NEW f \in Seq(E), NEW g \in Seq(E)
  PROVE  BytesOf(f \o g) = BytesOf(f) \o BytesOf(g)
<1> DEFINE B == Bytes(E)
           O == OneLine(B)
           W == Seq(B)
           S == SingleF(E)
           F == EncodeF(E)
           fg == f \o g
           mf == Mapped(f, S)
           mg == Mapped(g, S)
           wf == Mapped(mf, F)
           wg == Mapped(mg, F)
<1>1. F \in [O -> W]
  <2>1. Framing \subseteq B
    BY DEF Bytes
  <2> QED BY <2>1, EncodedTyped DEF EncodeF
<1>2. S \in [E -> O]
  BY ObjectIsLine DEF SingleF
<1>3. fg \in Seq(E)
  BY ConcatProperties
<1>4. /\ BytesOf(f) = FlattenSeq(wf) /\ BytesOf(g) = FlattenSeq(wg)
      /\ BytesOf(fg) = FlattenSeq(Mapped(Mapped(fg, S), F))
      /\ mf \in Seq(O) /\ mg \in Seq(O)
  BY <1>3, BytesComposed
<1> HIDE DEF O, W, S, F
<1>5. Mapped(fg, S) = mf \o mg
  <2>1. S \in Mapping(E, O)
    BY <1>2 DEF Mapping
  <2> QED BY <1>2, <2>1, MappedConcat
<1> HIDE DEF mf, mg
<1>6. Mapped(mf \o mg, F) = wf \o wg
  <2>1. F \in Mapping(O, W)
    BY <1>1, <1>4 DEF Mapping
  <2> QED BY <1>1, <1>4, <2>1, MappedConcat
<1>7. wf \in Seq(W) /\ wg \in Seq(W)
  <2>1. MapsTo(mf, F, W, wf) /\ MapsTo(mg, F, W, wg)
    BY <1>1, <1>4, MappedList
  <2> QED BY <2>1 DEF MapsTo
<1> HIDE DEF wf, wg
<1>8. FlattenSeq(wf \o wg) = FlattenSeq(wf) \o FlattenSeq(wg)
  <2> HIDE DEF B
  <2> QED BY <1>7, FlattenConcat DEF W
<1> QED BY <1>4, <1>5, <1>6, <1>8

(* A document is read as itself. *)
LEMMA ObjectParses ==
  ASSUME NEW e, e.t = "object"
  PROVE  Parse(<<e>>) = e
<1> DEFINE x == <<e>>
           D == {e}
           S == ToSet(x) \ {LF, Space}
<1>1. x \in Seq(D) /\ Len(x) = 1 /\ x[1] = e /\ x = Append(<<>>, e) /\ <<>> \in Seq(D)
  OBVIOUS
<1>2. e \in S
  <2>1. e \in ToSet(x)
    <3>1. 1 \in DOMAIN x
      BY <1>1
    <3> QED BY <1>1, <3>1 DEF ToSet
  <2>2. e # LF /\ e # Space
    BY ObjectsAreTokens DEF LF, Space
  <2> QED BY <2>1, <2>2
<1>3. Parse(x) = IF Len(Only(x, S)) = 1 THEN Head(Only(x, S)) ELSE [t |-> "text"]
  BY DEF Parse
<1> HIDE DEF S
<1>4. Only(x, S) = x
  <2>1. KeepsGrowing(D, S)
    BY OnlyGrows
  <2>2. Only(<<>>, S) = <<>>
    BY <2>1 DEF KeepsGrowing
  <2>3. Only(Append(<<>>, e), S) = Append(Only(<<>>, S), e)
    BY <1>1, <1>2, <2>1 DEF KeepsGrowing
  <2> QED BY <1>1, <2>2, <2>3
<1>5. Head(x) = e
  OBVIOUS
<1> QED BY <1>1, <1>3, <1>4, <1>5

(* A client reads off the bytes the documents it is told. *)
LEMMA BytesRead ==
  ASSUME NEW E, Objects(E), NEW docs \in Seq(E)
  PROVE  LET frames == DecodeFrames(BytesOf(docs))
         IN  [i \in DOMAIN frames |-> Parse(frames[i])] = docs
<1> DEFINE m == Mapped(docs, SingleF(E))
<1>1. m \in Seq(OneLine(Bytes(E))) /\ BytesOf(docs) = EncodeResults(m)
  BY BytesComposed DEF BytesOf
<1>2. DecodeFrames(EncodeResults(m)) = m
  <2>1. Framing \subseteq Bytes(E)
    BY DEF Bytes
  <2> HIDE DEF m
  <2> QED BY <1>1, <2>1, EncoderRoundTrip
<1>3. DOMAIN docs = 1 .. Len(docs) /\ \A i \in 1 .. Len(docs) : docs[i] \in E
  BY LenProperties
<1>4. docs = [i \in DOMAIN docs |-> docs[i]]
  BY <1>3
<1>5. DOMAIN m = DOMAIN docs /\ \A i \in DOMAIN docs : m[i] = <<docs[i]>>
  BY <1>3 DEF Mapped, SingleF
<1>6. \A i \in DOMAIN docs : Parse(<<docs[i]>>) = docs[i]
  BY <1>3, ObjectParses DEF Objects
<1> HIDE DEF m
<1>7. [i \in DOMAIN m |-> Parse(m[i])] = [i \in DOMAIN docs |-> docs[i]]
  BY <1>5, <1>6
<1> QED BY <1>1, <1>2, <1>4, <1>7

LEMMA ResultsOfTyped ==
  ASSUME NEW D, NEW frames \in Seq(Seq(D)), D \subseteq Documents
  PROVE  ResultsOf(frames) \in Seq(Answers)
<1> DEFINE N == Len(frames)
           texts == [i \in DOMAIN frames |-> Parse(frames[i])]
           results_ == {d \in ToSet(texts) : IsResult(d)}
           docs == Only(texts, results_)
           answers == [i \in DOMAIN docs |-> ResultOf(docs[i])]
           L == Seq(D)
<1>1. N \in Nat /\ DOMAIN frames = 1 .. N /\ \A i \in 1 .. N : frames[i] \in L
  BY LenProperties
<1>2. texts \in Seq(Documents)
  <2>1. \A i \in 1 .. N : Parse(frames[i]) \in Documents
    BY <1>1, ParseTyped DEF Documents
  <2>2. texts \in [1 .. N -> Documents]
    BY <1>1, <2>1
  <2> HIDE DEF texts, N
  <2> QED BY <1>1, <2>2, FunctionIsList
<1> HIDE DEF texts, results_
<1>3. docs \in Seq(Documents)
  <2> DEFINE K == Documents \cap results_
  <2>1. docs \in Seq(K) /\ K \subseteq Documents
    BY <1>2, OnlyKeeps
  <2> HIDE DEF K, docs
  <2> QED BY <2>1, SeqMonotonic
<1> HIDE DEF docs
<1>4. answers \in Seq(Answers)
  <2>1. Len(docs) \in Nat /\ DOMAIN docs = 1 .. Len(docs) /\ \A i \in 1 .. Len(docs) : docs[i] \in Documents
    BY <1>3, LenProperties
  <2>2. answers \in [1 .. Len(docs) -> Answers]
    BY <2>1 DEF Answers
  <2> HIDE DEF answers
  <2> QED BY <2>1, <2>2, FunctionIsList
<1> QED BY <1>4 DEF ResultsOf, docs, texts, results_

LEMMA FromHyperTyped ==
  ASSUME NEW r \in Replies
  PROVE  /\ FromHyper(r).results \in Seq(Answers)
         /\ FromHyper(r).kind \in {"mcp", "batch", "http"}
         /\ FromHyper(r).kind = "mcp" => Len(FromHyper(r).results) = 1
<1> DEFINE streamed == IF r.body.t = "frames"
                       THEN ResultsOf(DecodeFrames(r.body.bytes)) ELSE <<>>
           listed == [i \in DOMAIN r.body.items |-> ResultOf(r.body.items[i])]
           single == <<ResultOf(r.body)>>
<1>1. streamed \in Seq(Answers)
  <2>1. CASE r.body.t = "frames"
    <3> DEFINE D == ToSet(r.body.bytes) \cup {LF}
    <3>1. r.body.bytes \in Seq(ToSet(r.body.bytes))
      BY <2>1, ExchangeAssumption
    <3>2. r.body.bytes \in Seq(D)
      <4> DEFINE B == ToSet(r.body.bytes)
      <4>1. r.body.bytes \in Seq(B) /\ B \subseteq D
        BY <3>1
      <4> HIDE DEF B, D
      <4> QED BY <4>1, SeqMonotonic
    <3>3. D \subseteq Documents
      BY <2>1 DEF Documents, DocumentsOf
    <3>4. LF \in D
      OBVIOUS
    <3> HIDE DEF D
    <3>5. DecodeFrames(r.body.bytes) \in Seq(Seq(D))
      BY <3>2, <3>4, DecodeFramesTyped
    <3> QED BY <2>1, <3>3, <3>5, ResultsOfTyped
  <2>2. CASE r.body.t # "frames"
    BY <2>2
  <2> QED BY <2>1, <2>2
<1>2. IsArray(r.body) => listed \in Seq(Answers)
  <2> SUFFICES ASSUME IsArray(r.body)
               PROVE  listed \in Seq(Answers)
    OBVIOUS
  <2> DEFINE items == r.body.items
             D == ToSet(items)
  <2>1. items \in Seq(D)
    BY ExchangeAssumption DEF ProperList, ItemsOf
  <2>2. D \subseteq Documents
    BY DEF Documents, DocumentsOf, ItemsOf
  <2> HIDE DEF D
  <2>3. Len(items) \in Nat /\ DOMAIN items = 1 .. Len(items) /\ \A i \in 1 .. Len(items) : items[i] \in D
    BY <2>1, LenProperties
  <2>4. listed \in [1 .. Len(items) -> Answers]
    BY <2>2, <2>3 DEF Answers
  <2> HIDE DEF listed, items
  <2> QED BY <2>3, <2>4, FunctionIsList
<1>3. single \in Seq(Answers) /\ Len(single) = 1
  <2>1. ResultOf(r.body) \in Answers
    BY DEF Answers, Documents, DocumentsOf
  <2> QED BY <2>1
<1>4. \/ IsArray(r.body) /\ FromHyper(r) = [kind |-> "batch", results |-> listed]
      \/ FromHyper(r) = [kind |-> "mcp", results |-> single]
      \/ FromHyper(r) = [kind |-> IF Len(streamed) = 1 THEN "mcp" ELSE "batch",
                         results |-> streamed]
      \/ FromHyper(r) = [kind |-> "http", results |-> <<>>]
  <2> HIDE DEF listed, single, streamed
  <2> QED BY DEF FromHyper, All, streamed, listed, single
<1>5. <<>> \in Seq(Answers)
  OBVIOUS
<1> HIDE DEF streamed, listed, single
<1> DEFINE reply == FromHyper(r)
<1>6. CASE IsArray(r.body) /\ reply = [kind |-> "batch", results |-> listed]
  BY <1>2, <1>6
<1>7. CASE reply = [kind |-> "mcp", results |-> single]
  BY <1>3, <1>7
<1>8. CASE reply = [kind |-> IF Len(streamed) = 1 THEN "mcp" ELSE "batch", results |-> streamed]
  BY <1>1, <1>8
<1>9. CASE reply = [kind |-> "http", results |-> <<>>]
  BY <1>5, <1>9
<1> QED BY <1>4, <1>6, <1>7, <1>8, <1>9

(* A list of results makes a list of schema events. *)
LEMMA SchemaEventsOfTyped ==
  ASSUME NEW r \in Answers, NEW methods
  PROVE  /\ SchemaEventsOf(r, methods) \in Seq(ToSet(SchemaEventsOf(r, methods)))
         /\ \A e \in ToSet(SchemaEventsOf(r, methods)) : e.type = "schema"
<1> DEFINE method == MethodOf(methods, r.id)
           list == ListOf[method]
           entries == ItemsOf(Get(r.body, list.array))
           complete == {item \in ToSet(entries) : \A key \in list.needs : Has(item, key)}
           items == Only(entries, complete)
           made == [i \in DOMAIN items |->
                      [type |-> "schema", kind |-> list.kind, item |-> Typed(items[i], list)]]
<1>1. CASE r.kind = "error" \/ None(r.body) \/ method \notin DOMAIN ListOf
  <2>1. SchemaEventsOf(r, methods) = <<>>
    BY <1>1 DEF SchemaEventsOf
  <2>2. <<>> \in Seq(ToSet(<<>>)) /\ ToSet(<<>>) = {}
    BY DEF ToSet
  <2> QED BY <2>1, <2>2
<1>2. CASE ~(r.kind = "error" \/ None(r.body) \/ method \notin DOMAIN ListOf)
  <2>1. PICK doc \in Documents : r = ResultOf(doc)
    BY DEF Answers
  <2>2. r.body = Get(doc, "result")
    BY <1>2, <2>1 DEF ResultOf
  <2>3. entries \in Seq(ToSet(entries))
    BY <1>2, <2>2, DocumentsReadable
  <2> DEFINE K == ToSet(entries) \cap complete
  <2>4. items \in Seq(K)
    <3> HIDE DEF complete, entries
    <3> QED BY <2>3, OnlyKeeps
  <2>5. SchemaEventsOf(r, methods) = made
    BY <1>2 DEF SchemaEventsOf
  <2> HIDE DEF K, items, list
  <2>6. Len(items) \in Nat /\ DOMAIN items = 1 .. Len(items)
    BY <2>4, LenProperties
  <2>7. made \in Seq(ToSet(made))
    <3>1. made \in [1 .. Len(items) -> ToSet(made)]
      BY <2>6 DEF ToSet
    <3> HIDE DEF made
    <3> QED BY <2>6, <3>1, FunctionIsList
  <2>8. \A e \in ToSet(made) : e.type = "schema"
    BY DEF ToSet
  <2> HIDE DEF made
  <2> QED BY <2>5, <2>7, <2>8
<1> QED BY <1>1, <1>2

LEMMA SchemaEventsTyped ==
  ASSUME NEW rs \in Seq(Answers), NEW methods
  PROVE  \E S : /\ SchemaEvents(rs, methods) \in Seq(S)
                /\ \A e \in S : e.type = "schema"
<1> DEFINE of(i) == SchemaEventsOf(rs[i], methods)
           S == UNION {ToSet(of(i)) : i \in DOMAIN rs}
           seqs == [i \in DOMAIN rs |-> of(i)]
           L == Seq(S)
<1>1. Len(rs) \in Nat /\ DOMAIN rs = 1 .. Len(rs) /\ \A i \in 1 .. Len(rs) : rs[i] \in Answers
  BY LenProperties
<1>2. ASSUME NEW i \in 1 .. Len(rs)
      PROVE  of(i) \in L /\ \A e \in ToSet(of(i)) : e.type = "schema"
  <2> DEFINE B == ToSet(of(i))
  <2>1. of(i) \in Seq(B) /\ \A e \in B : e.type = "schema"
    BY <1>1, SchemaEventsOfTyped
  <2>2. B \subseteq S
    BY <1>1
  <2> HIDE DEF S, B, of
  <2>3. of(i) \in Seq(S)
    BY <2>1, <2>2, SeqMonotonic
  <2> QED BY <2>1, <2>3 DEF B
<1>3. \A e \in S : e.type = "schema"
  <2> HIDE DEF of
  <2> QED BY <1>1, <1>2
<1> HIDE DEF of, S
<1>4. seqs \in Seq(L)
  <2>1. seqs \in [1 .. Len(rs) -> L]
    <3> HIDE DEF L
    <3> QED BY <1>1, <1>2
  <2> HIDE DEF seqs
  <2> QED BY <1>1, <2>1, FunctionIsList
<1>5. SchemaEvents(rs, methods) = FlattenSeq(seqs)
  BY DEF SchemaEvents, of
<1> HIDE DEF seqs
<1>6. FlattenSeq(seqs) \in Seq(S)
  BY <1>4, FlattenTyped
<1> QED BY <1>3, <1>5, <1>6

(* The stages add to the events those about schemas, and one in last place *)
(* about the request.                                                      *)
Adds(new, old, e) ==
  /\ new \in Seq(ToSet(new))
  /\ Len(old) < Len(new)
  /\ \A i \in DOMAIN new :
       \/ i < Len(new) /\ i \in DOMAIN old /\ new[i] = old[i]
       \/ i < Len(new) /\ new[i].type = "schema"
       \/ i = Len(new) /\ new[i] = e

LEMMA StagesAdd ==
  ASSUME NEW old, old \in Seq(ToSet(old)), NEW rs \in Seq(Answers), NEW methods, NEW e
  PROVE  Adds(Append(old \o SchemaEvents(rs, methods), e), old, e)
<1> DEFINE A == ToSet(old)
           made == SchemaEvents(rs, methods)
<1>1. PICK S : made \in Seq(S) /\ \A x \in S : x.type = "schema"
  BY SchemaEventsTyped
<1> DEFINE D == A \cup S \cup {e}
           both == old \o made
           new == Append(both, e)
<1> HIDE DEF made, A
<1>2. old \in Seq(D) /\ made \in Seq(D) /\ old \in Seq(A)
  <2>1. A \subseteq D /\ S \subseteq D /\ old \in Seq(A)
    BY DEF A
  <2> HIDE DEF D
  <2> QED BY <1>1, <2>1, SeqMonotonic
<1>3. /\ both \in Seq(D)
      /\ Len(both) = Len(old) + Len(made)
      /\ \A i \in 1 .. Len(old) + Len(made) :
           both[i] = IF i <= Len(old) THEN old[i] ELSE made[i - Len(old)]
  <2> HIDE DEF D
  <2> QED BY <1>2, ConcatProperties
<1>4. Len(old) \in Nat /\ Len(made) \in Nat /\ DOMAIN old = 1 .. Len(old) /\ DOMAIN made = 1 .. Len(made)
  BY <1>1, <1>2, LenProperties
<1>5. \A i \in 1 .. Len(made) : made[i].type = "schema"
  BY <1>1, ElementOfSeq
<1>6. /\ new \in Seq(D)
      /\ Len(new) = Len(both) + 1
      /\ DOMAIN new = 1 .. Len(both) + 1
      /\ \A i \in 1 .. Len(both) : new[i] = both[i]
      /\ new[Len(both) + 1] = e
  <2>1. e \in D
    OBVIOUS
  <2> HIDE DEF D, both
  <2> QED BY <1>3, <2>1, AppendProperties, LenProperties
<1> HIDE DEF D, both
<1>7. new \in Seq(ToSet(new))
  <2> HIDE DEF new
  <2> QED BY <1>6, ListOfItself
<1> HIDE DEF new
<1>8. ASSUME NEW i \in DOMAIN new
      PROVE  \/ i < Len(new) /\ i \in DOMAIN old /\ new[i] = old[i]
             \/ i < Len(new) /\ new[i].type = "schema"
             \/ i = Len(new) /\ new[i] = e
  <2>1. CASE i \in 1 .. Len(old)
    <3>1. i \in 1 .. Len(both) /\ i <= Len(old) /\ i < Len(new) /\ i \in 1 .. Len(old) + Len(made)
      BY <1>3, <1>4, <1>6, <2>1
    <3> QED BY <1>3, <1>4, <1>6, <2>1, <3>1
  <2>2. CASE i \in Len(old) + 1 .. Len(both)
    <3>1. /\ i \in 1 .. Len(both) /\ ~(i <= Len(old)) /\ i < Len(new)
          /\ i \in 1 .. Len(old) + Len(made) /\ i - Len(old) \in 1 .. Len(made)
      BY <1>3, <1>4, <1>6, <2>2
    <3> QED BY <1>3, <1>5, <1>6, <3>1
  <2>3. CASE i = Len(both) + 1
    BY <1>6, <2>3
  <2> QED BY <1>3, <1>4, <1>6, <2>1, <2>2, <2>3
<1>9. Len(old) < Len(new)
  BY <1>3, <1>4, <1>6
<1> QED BY <1>7, <1>8, <1>9 DEF Adds, new, both, made

-----------------------------------------------------------------------------
(* The sinks. *)
LEMMA GreatestNumber ==
  ASSUME NEW n \in Nat, NEW S \in SUBSET (1 .. n), S # {}
  PROVE  \E i \in S : \A j \in S : j <= i
<1> DEFINE R == {n - i : i \in S}
<1>1. R \in SUBSET Nat /\ R # {} /\ R \subseteq 0 .. n
  <2>1. \A i \in S : i \in 1 .. n
    OBVIOUS
  <2>2. \A i \in 1 .. n : n - i \in 0 .. n
    OBVIOUS
  <2>3. R \subseteq 0 .. n
    BY <2>1, <2>2
  <2>4. R # {}
    OBVIOUS
  <2> HIDE DEF R
  <2> QED BY <2>3, <2>4
<1>2. IsFiniteSet(R)
  <2>1. 0 \in Int /\ n \in Int
    OBVIOUS
  <2>2. IsFiniteSet(0 .. n)
    BY <2>1, FS_Interval
  <2> HIDE DEF R
  <2> QED BY <1>1, <2>2, FS_Subset
<1>3. PICK r \in R : \A q \in R : r <= q
  <2> HIDE DEF R
  <2> QED BY <1>1, <1>2, LeastNumber
<1>4. PICK i \in S : r = n - i
  OBVIOUS
<1>5. ASSUME NEW j \in S
      PROVE  j <= i
  <2>1. n - i <= n - j
    BY <1>3, <1>4
  <2> QED BY <2>1
<1> QED BY <1>5

LEMMA EncodedIds ==
  /\ \A r : Get(EncodeResult(r), "id") = r.id
  /\ \A rpc : Get(EncodeRequest(rpc), "id") = rpc.id
<1>1. ASSUME NEW f, NEW g, "id" \in DOMAIN f
      PROVE  Get(Obj(Joined(f, g)), "id") = f["id"]
  BY <1>1 DEF Get, Obj, IsObject, Joined
<1>2. ASSUME NEW r
      PROVE  Get(EncodeResult(r), "id") = r.id
  <2> DEFINE f == [jsonrpc |-> Str("2.0"), id |-> r.id]
             g == IF r.kind = "error" THEN [error |-> r.body] ELSE Optional("result", r.body)
  <2>1. "id" \in DOMAIN f /\ f["id"] = r.id
    OBVIOUS
  <2>2. EncodeResult(r) = Obj(Joined(f, g))
    BY DEF EncodeResult
  <2> HIDE DEF f, g
  <2> QED BY <1>1, <2>1, <2>2
<1>3. ASSUME NEW rpc
      PROVE  Get(EncodeRequest(rpc), "id") = rpc.id
  <2> DEFINE f == [jsonrpc |-> Str("2.0"), id |-> rpc.id, method |-> Str(WireName(rpc.method))]
             g == Optional("params", rpc.params)
  <2>1. "id" \in DOMAIN f /\ f["id"] = rpc.id
    OBVIOUS
  <2>2. EncodeRequest(rpc) = Obj(Joined(f, g))
    BY DEF EncodeRequest
  <2> HIDE DEF f, g
  <2> QED BY <1>1, <2>1, <2>2
<1> QED BY <1>2, <1>3

(* The answer of a call in a batch: a result with its id if there is one.  *)
LEMMA BatchResultAnswers ==
  ASSUME NEW response, response.kind = "batch",
         response.results \in Seq(ToSet(response.results)),
         \A r \in ToSet(response.results) : IsResultRecord(r),
         NEW id
  PROVE  IF \E k \in DOMAIN response.results : response.results[k].id = id
         THEN \E k \in DOMAIN response.results :
                /\ BatchResult(response, id) = response.results[k]
                /\ response.results[k].id = id
                /\ response.results[k] # Missing
         ELSE BatchResult(response, id) = Missing
<1> DEFINE rs == response.results
           with == {k \in DOMAIN rs : rs[k].id = id}
           k == CHOOSE i \in with : \A j \in with : j <= i
<1>1. Len(rs) \in Nat /\ DOMAIN rs = 1 .. Len(rs)
  BY LenProperties
<1>2. CASE with = {}
  BY <1>2 DEF BatchResult
<1>3. CASE with # {}
  <2>1. with \in SUBSET (1 .. Len(rs))
    BY <1>1
  <2>2. \E i \in with : \A j \in with : j <= i
    <3> HIDE DEF with
    <3> QED BY <1>1, <1>3, <2>1, GreatestNumber
  <2>3. k \in with
    <3> HIDE DEF with
    <3> QED BY <2>2
  <2>4. BatchResult(response, id) = rs[k]
    BY <1>3 DEF BatchResult
  <2> HIDE DEF k
  <2>5. IsResultRecord(rs[k])
    BY <2>3 DEF ToSet
  <2>6. rs[k] # Missing
    <3> DEFINE r == rs[k]
    <3>1. r = [id |-> r.id, kind |-> r.kind, body |-> r.body]
      BY <2>5 DEF IsResultRecord
    <3> HIDE DEF r
    <3>2. DOMAIN r = {"id", "kind", "body"}
      BY <3>1
    <3>3. DOMAIN Missing = {"t"}
      BY DEF Missing
    <3> QED BY <3>2, <3>3 DEF r
  <2> QED BY <2>3, <2>4, <2>6
<1> QED BY <1>2, <1>3

LEMMA StoryOfEvent ==
  ASSUME NEW e, e.request.kind \in {"mcp", "batch"}, ForSinks(e)
  PROVE  OneStory(e)
<1> DEFINE rpcs == e.request.rpcs
           rs == e.response.results
           envelopes == EncodeEnvelopes(e)
           line == FormatTransaction(e, TRUE)
           told(i) == IF e.request.kind = "mcp" THEN SingleResult(e.response)
                      ELSE BatchResult(e.response, rpcs[i].id)
<1>1. envelopes = [i \in DOMAIN rpcs |-> McpPayload(e, rpcs[i], told(i))]
  <2>1. CASE e.request.kind = "batch"
    BY <2>1 DEF EncodeEnvelopes
  <2>2. CASE e.request.kind = "mcp"
    <3> DEFINE one == McpPayload(e, rpcs[1], SingleResult(e.response))
    <3>1. envelopes = <<one>>
      BY <2>2 DEF EncodeEnvelopes
    <3>2. DOMAIN rpcs = 1 .. 1
      BY <2>2 DEF ForSinks
    <3>3. [i \in DOMAIN rpcs |-> McpPayload(e, rpcs[i], told(i))] = [i \in 1 .. 1 |-> one]
      BY <2>2, <3>2
    <3> HIDE DEF one
    <3>4. [i \in 1 .. 1 |-> one] = <<one>>
      OBVIOUS
    <3> QED BY <3>1, <3>3, <3>4
  <2> QED BY <2>1, <2>2
<1>2. /\ line.rpcs = [i \in DOMAIN rpcs |-> EncodeRequest(rpcs[i])]
      /\ line.results = [i \in DOMAIN rs |-> EncodeResult(rs[i])]
      /\ line.session = ExtractSession(e)
      /\ line.latency = e.latency /\ line.upstream = e.upstream
      /\ line.auth = IF ObservedNothing(e.auth) THEN Missing ELSE e.auth
      /\ line.challenge = e.challenge
  BY DEF FormatTransaction
<1>3. ResolveSession(e) = ExtractSession(e)
  BY DEF ResolveSession, ExtractSession
<1>4. ASSUME NEW i \in DOMAIN rpcs
      PROVE  LET v == McpPayload(e, rpcs[i], told(i))
             IN  /\ v.rpc = EncodeRequest(rpcs[i])
                 /\ v.session = ExtractSession(e)
                 /\ v.latency = e.latency /\ v.upstream = e.upstream
                 /\ v.auth = IF ObservedNothing(e.auth) THEN Missing ELSE e.auth
                 /\ v.challenge = e.challenge
                 /\ v.result = IF told(i) = Missing THEN Missing ELSE EncodeResult(told(i))
  <2> HIDE DEF told
  <2> QED BY <1>3 DEF McpPayload, AuthBlock
<1> DEFINE ids == {Get(line.results[i], "id") : i \in DOMAIN line.results}
<1> HIDE DEF line
<1>5. ids = {rs[k].id : k \in DOMAIN rs}
  <2>1. DOMAIN line.results = DOMAIN rs
    BY <1>2
  <2>2. \A k \in DOMAIN rs : Get(line.results[k], "id") = rs[k].id
    BY <1>2, EncodedIds
  <2> QED BY <2>1, <2>2
<1>6. ASSUME NEW i \in DOMAIN rpcs, e.response.kind = "batch"
      PROVE  LET v == McpPayload(e, rpcs[i], told(i))
             IN  IF Get(v.rpc, "id") \in ids
                 THEN v.result \in ToSet(line.results) /\ Get(v.result, "id") = Get(v.rpc, "id")
                 ELSE v.result = Missing
  <2> DEFINE v == McpPayload(e, rpcs[i], told(i))
             id == rpcs[i].id
             answer_ == BatchResult(e.response, id)
  <2>1. told(i) = answer_
    BY <1>6 DEF ForSinks
  <2>2. /\ Get(v.rpc, "id") = id
        /\ v.result = IF answer_ = Missing THEN Missing ELSE EncodeResult(answer_)
    BY <1>4, <2>1, EncodedIds
  <2>3. IF \E k \in DOMAIN rs : rs[k].id = id
        THEN \E k \in DOMAIN rs : answer_ = rs[k] /\ rs[k].id = id /\ rs[k] # Missing
        ELSE answer_ = Missing
    BY <1>6, BatchResultAnswers DEF ForSinks
  <2> HIDE DEF v, answer_, id, ids
  <2>4. CASE id \in ids
    <3>1. PICK k \in DOMAIN rs : answer_ = rs[k] /\ rs[k].id = id /\ rs[k] # Missing
      BY <1>5, <2>3, <2>4
    <3>2. v.result = EncodeResult(rs[k])
      BY <2>2, <3>1
    <3>3. v.result \in ToSet(line.results)
      BY <1>2, <3>2 DEF ToSet
    <3>4. Get(v.result, "id") = id
      BY <3>1, <3>2, EncodedIds
    <3> QED BY <2>2, <2>4, <3>3, <3>4 DEF v
  <2>5. CASE id \notin ids
    <3>1. answer_ = Missing
      BY <1>5, <2>3, <2>5
    <3> QED BY <2>2, <2>5, <3>1 DEF v
  <2> QED BY <2>4, <2>5
<1>7. [i \in DOMAIN envelopes |-> envelopes[i].rpc] = line.rpcs
  <2> HIDE DEF told, envelopes
  <2> QED BY <1>1, <1>2, <1>4
<1>8. ASSUME NEW i \in DOMAIN envelopes
      PROVE  LET v == envelopes[i]
             IN  /\ <<v.session, v.latency, v.upstream, v.auth, v.challenge>>
                      = <<line.session, line.latency, line.upstream, line.auth, line.challenge>>
                 /\ e.response.kind = "batch" =>
                      IF Get(v.rpc, "id") \in ids
                      THEN v.result \in ToSet(line.results) /\ Get(v.result, "id") = Get(v.rpc, "id")
                      ELSE v.result = Missing
  <2> HIDE DEF told, envelopes, ids
  <2>1. i \in DOMAIN rpcs /\ envelopes[i] = McpPayload(e, rpcs[i], told(i))
    BY <1>1
  <2> QED BY <1>2, <1>4, <1>6, <2>1
<1> QED BY <1>7, <1>8 DEF OneStory, line

-----------------------------------------------------------------------------
(* What the gateway takes a request for. *)
LEMMA RequestsAreObjects ==
  ASSUME NEW doc, IsRequest(doc)
  PROVE  ~IsArray(doc)
<1>1. IsObject(doc)
  <2>1. Get(doc, "jsonrpc") = Str("2.0")
    BY DEF IsRequest, ValidVersion
  <2>2. Missing # Str("2.0")
    <3>1. Missing.t # Str("2.0").t
      BY DEF Missing, Str
    <3> QED BY <3>1
  <2> QED BY <2>1, <2>2 DEF Get
<1> QED BY <1>1 DEF IsObject, IsArray

LEMMA RequestsClassified ==
  ASSUME NEW http \in Inbounds, NEW q, NEW calls, NEW understood,
         q = [kind |-> FromAxum(http).kind, rpcs |-> FromAxum(http).rpcs, http |-> http],
         calls = IF IsArray(http.body) THEN http.body.items ELSE <<http.body>>,
         understood = [i \in DOMAIN calls |->
                         IF IsRequest(calls[i]) THEN EncodeRequest(RequestOf(calls[i]))
                                                ELSE calls[i]]
  PROVE  /\ q.kind \in {"oauth", "batch", "mcp", "http"}
         /\ q # NoRequest
         /\ q.kind \in {"oauth", "http"} => q.rpcs = <<>>
         /\ q.kind = "mcp" => q.rpcs = <<q.rpcs[1]>>
         /\ q.rpcs \in Seq(ToSet(q.rpcs))
         /\ understood \in Seq(ToSet(understood))
         /\ q.kind \in {"batch", "mcp"} =>
              understood = [i \in DOMAIN q.rpcs |-> EncodeRequest(q.rpcs[i])]
<1> DEFINE items == http.body.items
           batch == [i \in DOMAIN items |-> RequestOf(items[i])]
           single == <<RequestOf(http.body)>>
<1>2. /\ q.http = http
      /\ q.kind = FromAxum(http).kind
      /\ q.rpcs = FromAxum(http).rpcs
  OBVIOUS
<1>3. IsArray(http.body) => /\ items \in Seq(ToSet(items))
                            /\ Len(items) \in Nat /\ DOMAIN items = 1 .. Len(items)
  <2>1. IsArray(http.body) => items \in Seq(ToSet(items))
    BY ExchangeAssumption DEF ProperList, ItemsOf
  <2> QED BY <2>1, LenProperties
<1>4. calls = IF IsArray(http.body) THEN items ELSE <<http.body>>
  OBVIOUS
<1>5. \/ /\ q.kind = "oauth" /\ q.rpcs = <<>>
      \/ /\ q.kind = "batch" /\ q.rpcs = batch
         /\ IsArray(http.body) /\ \A i \in DOMAIN items : IsRequest(items[i])
      \/ q.kind = "mcp" /\ q.rpcs = single /\ IsRequest(http.body)
      \/ q.kind = "http" /\ q.rpcs = <<>>
  <2> HIDE DEF batch, single
  <2> QED BY <1>2 DEF FromAxum, All, batch, single
<1>6. q # NoRequest
  <2>1. q.kind # "none" /\ NoRequest.kind = "none"
    BY <1>5 DEF NoRequest
  <2> QED BY <2>1
<1>7. understood \in Seq(ToSet(understood))
  <2> DEFINE known(i) == IF IsRequest(calls[i]) THEN EncodeRequest(RequestOf(calls[i]))
                                                ELSE calls[i]
  <2>1. \E n \in Nat : DOMAIN calls = 1 .. n
    <3>1. CASE IsArray(http.body)
      BY <1>3, <1>4, <3>1
    <3>2. CASE ~IsArray(http.body)
      <4>1. DOMAIN calls = 1 .. 1
        BY <1>4, <3>2
      <4> QED BY <4>1
    <3> QED BY <3>1, <3>2
  <2>2. PICK n \in Nat : DOMAIN calls = 1 .. n
    BY <2>1
  <2>3. understood = [i \in 1 .. n |-> known(i)]
    BY <2>2
  <2> HIDE DEF known
  <2>4. understood \in [1 .. n -> ToSet(understood)]
    BY <2>3 DEF ToSet
  <2> QED BY <2>2, <2>4, FunctionIsList
<1>8. CASE q.kind \in {"oauth", "http"} /\ q.rpcs = <<>>
  <2>1. <<>> \in Seq(ToSet(<<>>))
    OBVIOUS
  <2> HIDE DEF items, batch, single
  <2> QED BY <1>6, <1>7, <1>8, <2>1
<1>10. CASE /\ q.kind = "batch" /\ q.rpcs = batch
            /\ IsArray(http.body) /\ \A i \in DOMAIN items : IsRequest(items[i])
  <2>1. understood = [i \in DOMAIN items |-> EncodeRequest(RequestOf(items[i]))]
    BY <1>4, <1>10
  <2>2. DOMAIN q.rpcs = DOMAIN items /\ \A i \in DOMAIN items : q.rpcs[i] = RequestOf(items[i])
    BY <1>10
  <2>3. understood = [i \in DOMAIN q.rpcs |-> EncodeRequest(q.rpcs[i])]
    BY <2>1, <2>2
  <2>4. q.rpcs \in Seq(ToSet(q.rpcs))
    <3>1. q.rpcs \in [1 .. Len(items) -> ToSet(q.rpcs)]
      BY <1>3, <1>10 DEF ToSet
    <3> HIDE DEF items
    <3> QED BY <1>3, <1>10, <3>1, FunctionIsList
  <2> QED BY <1>6, <1>7, <1>10, <2>3, <2>4
<1>11. CASE q.kind = "mcp" /\ q.rpcs = single /\ IsRequest(http.body)
  <2>1. ~IsArray(http.body)
    BY <1>11, RequestsAreObjects
  <2>2. calls = <<http.body>>
    BY <1>4, <2>1
  <2>3. /\ DOMAIN q.rpcs = 1 .. 1 /\ DOMAIN calls = 1 .. 1
        /\ q.rpcs[1] = RequestOf(http.body) /\ calls[1] = http.body
    BY <1>11, <2>2
  <2>4. understood = [i \in DOMAIN q.rpcs |-> EncodeRequest(q.rpcs[i])]
    BY <1>11, <2>3
  <2>5. q.rpcs \in Seq(ToSet(q.rpcs)) /\ q.rpcs = <<q.rpcs[1]>>
    <3>1. q.rpcs = <<q.rpcs[1]>>
      BY <1>11
    <3>2. ToSet(q.rpcs) = {q.rpcs[1]}
      BY <2>3 DEF ToSet
    <3>3. q.rpcs[1] \in ToSet(q.rpcs)
      BY <3>2
    <3> DEFINE one == q.rpcs[1]
    <3>4. <<one>> \in Seq(ToSet(q.rpcs))
      <4> HIDE DEF one
      <4> QED BY <3>3 DEF one
    <3> QED BY <3>1, <3>4
  <2> QED BY <1>6, <1>7, <1>11, <2>4, <2>5
<1> QED BY <1>5, <1>8, <1>10, <1>11

LEMMA ClassifiedRequests ==
  ASSUME Classified
  PROVE  /\ request.kind \in {"oauth", "batch", "mcp", "http"}
         /\ request # NoRequest
         /\ request.kind \in {"oauth", "http"} => request.rpcs = <<>>
         /\ request.kind = "mcp" => request.rpcs = <<request.rpcs[1]>>
         /\ request.rpcs \in Seq(ToSet(request.rpcs))
         /\ Understood \in Seq(ToSet(Understood))
         /\ request.kind \in {"batch", "mcp"} =>
              Understood = [i \in DOMAIN request.rpcs |-> EncodeRequest(request.rpcs[i])]
<1>1. PICK http \in Inbounds :
        request = [kind |-> FromAxum(http).kind, rpcs |-> FromAxum(http).rpcs, http |-> http]
  BY DEF Classified
<1>2. /\ Calls = IF IsArray(http.body) THEN http.body.items ELSE <<http.body>>
      /\ Understood = [i \in DOMAIN Calls |->
                         IF IsRequest(Calls[i]) THEN EncodeRequest(RequestOf(Calls[i]))
                                                ELSE Calls[i]]
  BY <1>1 DEF Calls, Understood
<1> QED BY <1>1, <1>2, RequestsClassified

-----------------------------------------------------------------------------
(* What the event of a request says. *)
Response(r) ==
  /\ {"kind", "results", "parts"} \subseteq DOMAIN r
  /\ r.kind \in {"mcp", "batch", "http"}
  /\ r.results \in Seq(Answers)

LEMMA RequestEventFields ==
  ASSUME NEW response, NEW routerEnd, NEW bodyEnd
  PROVE  LET e == RequestEvent(response, routerEnd, bodyEnd)
         IN  /\ e.type = "request"
             /\ e.latency = now - started
             /\ e.upstream = UpstreamTime(routerEnd, bodyEnd)
             /\ e.request.kind = request.kind /\ e.request.rpcs = request.rpcs
             /\ e.response = IF response = NoResponse THEN response
                             ELSE LoggedResponse(response, Methods)
  BY DEF RequestEvent, LoggedRequest

LEMMA FailureForSinks ==
  ASSUME Classified, NEW routerEnd, NEW bodyEnd
  PROVE  ForSinks(RequestEvent(NoResponse, routerEnd, bodyEnd))
<1> DEFINE e == RequestEvent(NoResponse, routerEnd, bodyEnd)
<1>1. e.request.kind = request.kind /\ e.request.rpcs = request.rpcs /\ e.response = NoResponse
  BY RequestEventFields
<1>2. NoResponse.kind # "batch"
  BY DEF NoResponse
<1> HIDE DEF e
<1> QED BY <1>1, <1>2, ClassifiedRequests DEF ForSinks, e

LEMMA AnswerForSinks ==
  ASSUME Classified, NEW response, Response(response),
         request.kind = "mcp" => response.kind # "batch",
         NEW routerEnd, NEW bodyEnd
  PROVE  ForSinks(RequestEvent(Rewritten(response), routerEnd, bodyEnd))
<1> DEFINE e == RequestEvent(Rewritten(response), routerEnd, bodyEnd)
           rs == response.results
           rewritten == [i \in DOMAIN rs |-> RewriteIfKnown(rs[i], Methods)]
           logged == [i \in DOMAIN rs |-> SlimResult(RewriteIfKnown(rs[i], Methods), Methods)]
<1>1. rs \in Seq(Answers) /\ Len(rs) \in Nat /\ DOMAIN rs = 1 .. Len(rs)
      /\ \A i \in 1 .. Len(rs) : rs[i] \in Answers
  BY LenProperties DEF Response
<1>2. /\ Rewritten(response).results = rewritten
      /\ Rewritten(response).kind = response.kind
      /\ "results" \in DOMAIN Rewritten(response) /\ "kind" \in DOMAIN Rewritten(response)
  BY DEF Rewritten, Response
<1>3. Rewritten(response) # NoResponse
  BY <1>2 DEF NoResponse, Response
<1>4. e.response = LoggedResponse(Rewritten(response), Methods)
  BY <1>3, RequestEventFields
<1>5. e.response.results = logged /\ e.response.kind = response.kind
  <2> DEFINE before == Rewritten(response)
             methods == Methods
  <2>1. /\ before.results = rewritten /\ before.kind = response.kind
        /\ "results" \in DOMAIN before /\ "kind" \in DOMAIN before
    BY <1>2
  <2> HIDE DEF before
  <2>2. /\ LoggedResponse(before, methods).kind = before.kind
        /\ LoggedResponse(before, methods).results
             = [i \in DOMAIN before.results |-> SlimResult(before.results[i], methods)]
    BY <2>1 DEF LoggedResponse
  <2>3. [i \in DOMAIN before.results |-> SlimResult(before.results[i], methods)] = logged
    BY <2>1
  <2> QED BY <1>4, <2>1, <2>2, <2>3 DEF before
<1>6. ASSUME NEW i \in 1 .. Len(rs)
      PROVE  IsResultRecord(logged[i])
  <2> DEFINE after == RewriteIfKnown(rs[i], Methods)
  <2>1. IsResultRecord(rs[i])
    <3>1. PICK doc \in Documents : rs[i] = ResultOf(doc)
      BY <1>1 DEF Answers
    <3> QED BY <3>1 DEF ResultOf, IsResultRecord
  <2>2. ASSUME NEW r, NEW x, IsResultRecord(r)
        PROVE  IsResultRecord([r EXCEPT !.body = x])
    <3>1. r = [id |-> r.id, kind |-> r.kind, body |-> r.body]
      BY <2>2 DEF IsResultRecord
    <3>2. [r EXCEPT !.body = x] = [id |-> r.id, kind |-> r.kind, body |-> x]
      BY <3>1
    <3> QED BY <3>2 DEF IsResultRecord
  <2>3. IsResultRecord(after)
    <3> DEFINE r == rs[i]
               x == Rewrite(MethodOf(Methods, r.id), r.body)
    <3>1. after = r \/ after = [r EXCEPT !.body = x]
      BY DEF RewriteIfKnown
    <3>2. IsResultRecord(r)
      BY <2>1
    <3> HIDE DEF r, x, after
    <3>3. IsResultRecord([r EXCEPT !.body = x])
      BY <2>2, <3>2
    <3> QED BY <3>1, <3>2, <3>3
  <2> HIDE DEF after
  <2>4. IsResultRecord(SlimResult(after, Methods))
    <3> DEFINE method == MethodOf(Methods, after.id)
               x == SlimArray(after.body, Kept[method].array, Kept[method].keep)
    <3>1. SlimResult(after, Methods) = after \/ SlimResult(after, Methods) = [after EXCEPT !.body = x]
      BY DEF SlimResult
    <3> HIDE DEF x
    <3> QED BY <2>2, <2>3, <3>1
  <2>5. logged[i] = SlimResult(after, Methods)
    BY <1>1 DEF after
  <2> HIDE DEF logged
  <2> QED BY <2>4, <2>5
<1>7. logged \in Seq(ToSet(logged)) /\ \A r \in ToSet(logged) : IsResultRecord(r)
  <2>1. DOMAIN logged = 1 .. Len(rs)
    BY <1>1
  <2>2. logged \in [1 .. Len(rs) -> ToSet(logged)]
    BY <2>1 DEF ToSet
  <2> HIDE DEF logged
  <2>3. logged \in Seq(ToSet(logged))
    BY <1>1, <2>2, FunctionIsList
  <2> QED BY <1>6, <2>1, <2>3 DEF ToSet
<1>8. e.request.kind = request.kind /\ e.request.rpcs = request.rpcs
  BY RequestEventFields
<1> HIDE DEF e, logged
<1> QED BY <1>5, <1>7, <1>8, ClassifiedRequests DEF ForSinks, e

-----------------------------------------------------------------------------
(* Which action changes what. *)
LEMMA Changes ==
  ASSUME [Next]_vars
  PROVE  /\ request' = request \/ Intake
         /\ sent' = sent \/ OpenGetSse \/ HandleHttpRequest \/ HandleMcpRequest
              \/ UpstreamFails \/ OpenStream
         /\ results' = results \/ HandleMcpRequest
         /\ body' = body \/ OpenStream
         /\ at' = at \/ Receive
         /\ ended' = ended \/ BodyEnds
         /\ parser' = parser \/ Receive \/ BodyEnds \/ Relay
         /\ events' = events \/ ServeOAuth \/ HandleHttpRequest \/ HandleMcpRequest
              \/ EmptyBatch \/ UpstreamFails \/ Relay
         /\ now' = now \/ Tick
         /\ started' = started \/ Intake
         /\ routed' = routed \/ (pc = "upstream" /\ pc' \in {"stream", "done"})
         /\ firstItem' = firstItem \/ Relay
         /\ pc' = pc \/ pc = "intake" \/ pc = "upstream"
              \/ (pc = "stream" /\ pc' \in {"done", "gone"})
         /\ answer' = answer \/ pc \in {"intake", "upstream"} \/ Relay
<1>1. CASE Intake \/ BadBody \/ OpenGetSse
  BY <1>1 DEF Intake, BadBody, OpenGetSse
<1>2. CASE ServeOAuth \/ HandleHttpRequest \/ EmptyBatch
  BY <1>2 DEF ServeOAuth, HandleHttpRequest, EmptyBatch, Finish
<1>3. CASE HandleMcpRequest
  <2>1. pc = "upstream" /\ UNCHANGED <<request, body, at, parser, ended, now, started, firstItem>>
    BY <1>3 DEF HandleMcpRequest
  <2>2. routed' = routed \/ pc' = "done"
    BY <1>3 DEF HandleMcpRequest, Finish, Fail
  <2> QED BY <1>3, <2>1, <2>2
<1>4. CASE UpstreamFails
  BY <1>4 DEF UpstreamFails, Fail
<1>5. CASE OpenStream
  BY <1>5 DEF OpenStream
<1>6. CASE Receive \/ BodyEnds \/ BodyFails \/ StreamEnds \/ ClientLeaves
  BY <1>6 DEF Receive, BodyEnds, BodyFails, StreamEnds, ClientLeaves
<1>7. CASE Relay
  BY <1>7 DEF Relay
<1>8. CASE Tick
  BY <1>8 DEF Tick
<1>9. CASE UNCHANGED vars
  BY <1>9 DEF vars
<1> QED BY <1>1, <1>2, <1>3, <1>4, <1>5, <1>6, <1>7, <1>8, <1>9 DEF Next

(* An exchange that is over has told its one event, unless it streamed. *)
Closes ==
  /\ pc = "upstream" /\ pc' = "done"
  /\ UNCHANGED <<now, started, firstItem>>
  /\ \E e : /\ Adds(events', events, e)
            /\ e.type = "request"
            /\ ForSinks(e)
            /\ e.latency = now - started
            /\ e.upstream \in {0, now - started}

LEMMA FinishCloses ==
  ASSUME TypeInv, PhaseInv, pc = "upstream", UNCHANGED <<now, started, firstItem>>,
         NEW response, Response(response),
         request.kind = "mcp" => response.kind # "batch",
         Finish(response)
  PROVE  Closes
<1> DEFINE e == RequestEvent(Rewritten(response), now, Running)
           rs == response.results
<1>1. pc' = "done" /\ events' = Append(events \o SchemaEvents(rs, Methods), e)
  BY DEF Finish, RunStages
<1>2. e.type = "request" /\ e.latency = now - started /\ e.upstream = UpstreamTime(now, Running)
  BY RequestEventFields
<1>3. UpstreamTime(now, Running) = now - started
  BY ExchangeAssumption DEF UpstreamTime, Running, TypeInv
<1>4. ForSinks(e)
  BY AnswerForSinks DEF PhaseInv
<1>5. Adds(events', events, e)
  <2> DEFINE methods == Methods
  <2>1. events \in Seq(ToSet(events)) /\ rs \in Seq(Answers)
    BY DEF TypeInv, Response
  <2> HIDE DEF e, rs, methods
  <2>2. Adds(Append(events \o SchemaEvents(rs, methods), e), events, e)
    BY <2>1, StagesAdd
  <2> QED BY <1>1, <2>2 DEF methods
<1> HIDE DEF e
<1> QED BY <1>1, <1>2, <1>3, <1>4, <1>5 DEF Closes

LEMMA FailCloses ==
  ASSUME TypeInv, PhaseInv, pc = "upstream", UNCHANGED <<now, started, firstItem>>, Fail
  PROVE  Closes
<1> DEFINE e == RequestEvent(NoResponse, routed, firstItem)
<1>1. pc' = "done" /\ events' = Append(events, e) /\ events = <<>>
  BY DEF Fail, PhaseInv
<1>2. e.type = "request" /\ e.latency = now - started /\ e.upstream = UpstreamTime(routed, firstItem)
  BY RequestEventFields
<1>3. UpstreamTime(routed, firstItem) = 0
  BY DEF PhaseInv, UpstreamTime
<1>4. ForSinks(e)
  BY FailureForSinks DEF PhaseInv
<1> HIDE DEF e
<1>5. Adds(events', events, e)
  <2> DEFINE new == Append(<<>>, e)
  <2>1. new \in Seq({e}) /\ Len(new) = 1 /\ DOMAIN new = 1 .. 1 /\ new[1] = e
    OBVIOUS
  <2> HIDE DEF new
  <2>2. new \in Seq(ToSet(new))
    BY <2>1, ListOfItself
  <2>3. \A i \in DOMAIN new : i = Len(new) /\ new[i] = e
    BY <2>1
  <2>4. Len(<<>>) < Len(new)
    BY <2>1
  <2> QED BY <1>1, <2>2, <2>3, <2>4 DEF Adds, new
<1> QED BY <1>1, <1>2, <1>3, <1>4, <1>5 DEF Closes

(* A frame of a stream makes no event, or tells of one more answer.        *)
Relays ==
  /\ pc = "stream" /\ pc' = "stream"
  /\ UNCHANGED <<now, started, routed>>
  /\ firstItem' \in routed .. now
  /\ firstItem # Running => firstItem' = firstItem
  /\ \E e : /\ Adds(events', events, e)
            /\ e.type = "request"
            /\ ForSinks(e)
            /\ e.latency = now - started
            /\ e.upstream = firstItem' - started

LEMMA RelayRelays ==
  ASSUME TypeInv, PhaseInv, TimesInv, Relay
  PROVE  UNCHANGED <<events, firstItem>> \/ Relays
<1> DEFINE rs == ResultsOf(<<Head(parser.pending)>>)
           response == [kind |-> "mcp", results |-> rs, parts |-> parts]
           e == RequestEvent(Rewritten(response), routed, firstItem')
           methods == Methods
<1>1. CASE rs = <<>>
  BY <1>1 DEF Relay
<1>2. CASE rs # <<>>
  <2>1. /\ pc = "stream" /\ pc' = pc /\ UNCHANGED <<now, started, routed>>
        /\ firstItem' = IF firstItem = Running THEN now ELSE firstItem
        /\ events' = Append(events \o SchemaEvents(rs, methods), e)
    BY <1>2 DEF Relay, RunStages
  <2>2. rs \in Seq(Answers)
    <3> DEFINE D == Documents
               one == Head(parser.pending)
    <3>1. parser.pending \in Seq(Seq(D)) /\ parser.pending # <<>>
      BY DEF TypeInv, ParserType, Relay
    <3> HIDE DEF D
    <3>2. one \in Seq(D)
      BY <3>1
    <3> HIDE DEF one
    <3>3. <<one>> \in Seq(Seq(D))
      BY <3>2
    <3>4. ResultsOf(<<one>>) \in Seq(Answers)
      BY <3>3, ResultsOfTyped DEF D
    <3> QED BY <3>4 DEF one
  <2>3. Response(response)
    BY <2>2 DEF Response
  <2>4. ForSinks(e)
    BY <2>1, <2>3, AnswerForSinks DEF PhaseInv
  <2>5. Adds(events', events, e)
    <3>1. events \in Seq(ToSet(events))
      BY DEF TypeInv
    <3> HIDE DEF e, rs, methods
    <3>2. Adds(Append(events \o SchemaEvents(rs, methods), e), events, e)
      BY <2>2, <3>1, StagesAdd
    <3> QED BY <2>1, <3>2
  <2>6. /\ now \in 0 .. MaxTime /\ started \in 0 .. now /\ routed \in started .. now
        /\ firstItem' \in routed .. now /\ firstItem' # Running /\ routed # Running
    <3>1. now \in 0 .. MaxTime /\ started \in 0 .. now
      BY DEF TypeInv
    <3>2. routed \in started .. now /\ (firstItem = Running \/ firstItem \in routed .. now)
      BY <2>1 DEF TimesInv
    <3>3. MaxTime \in Nat /\ Running = MaxTime + 1
      BY ExchangeAssumption DEF Running
    <3>4. now \in Nat /\ started \in Nat /\ routed \in Nat /\ routed <= now /\ now <= MaxTime
      BY <3>1, <3>2, <3>3
    <3>5. firstItem' \in routed .. now
      BY <2>1, <3>2, <3>4
    <3> HIDE DEF e, rs, methods
    <3> QED BY <3>1, <3>2, <3>3, <3>4, <3>5
  <2>7. UpstreamTime(routed, firstItem') = firstItem' - started
    BY <2>6 DEF UpstreamTime
  <2>8. e.type = "request" /\ e.latency = now - started /\ e.upstream = UpstreamTime(routed, firstItem')
    BY RequestEventFields
  <2> HIDE DEF e
  <2> QED BY <2>1, <2>4, <2>5, <2>6, <2>7, <2>8 DEF Relays
<1> QED BY <1>1, <1>2

LEMMA EventsEffect ==
  ASSUME TypeInv, PhaseInv, TimesInv, SentInv, [Next]_vars
  PROVE  UNCHANGED <<events, firstItem>> \/ Closes \/ Relays
<1>1. CASE Relay
  BY <1>1, RelayRelays
<1>2. CASE ServeOAuth
  <2> DEFINE response == [kind |-> "http", results |-> <<>>, body |-> [t |-> "metadata"],
                          parts |-> [EmptyParts EXCEPT !.contentType = "application/json"]]
  <2>1. Finish(response) /\ pc = "upstream" /\ UNCHANGED <<now, started, firstItem>>
    BY <1>2 DEF ServeOAuth
  <2>2. Response(response)
    BY DEF Response
  <2> QED BY <2>1, <2>2, FinishCloses
<1>3. CASE HandleHttpRequest
  <2>1. PICK r \in Replies :
          Finish([kind |-> FromHyper(r).kind, results |-> FromHyper(r).results,
                  parts |-> PartsOf(r), body |-> r.body])
    BY <1>3 DEF HandleHttpRequest
  <2> DEFINE response == [kind |-> FromHyper(r).kind, results |-> FromHyper(r).results,
                          parts |-> PartsOf(r), body |-> r.body]
  <2>2. Response(response)
    BY FromHyperTyped DEF Response
  <2>3. request.kind # "mcp" /\ pc = "upstream" /\ UNCHANGED <<now, started, firstItem>>
    BY <1>3 DEF HandleHttpRequest, Forwards
  <2> QED BY <2>1, <2>2, <2>3, FinishCloses
<1>4. CASE HandleMcpRequest
  <2>1. PICK r \in Replies :
          \/ Fail
          \/ /\ FromHyper(r).kind = "mcp"
             /\ IF Len(results \o FromHyper(r).results) = Len(request.rpcs)
                THEN Finish([kind |-> request.kind, results |-> results \o FromHyper(r).results,
                             parts |-> PartsOf(r)])
                ELSE UNCHANGED events
    BY <1>4 DEF HandleMcpRequest
  <2>2. /\ request.kind \in {"mcp", "batch"} /\ pc = "upstream"
        /\ UNCHANGED <<now, started, firstItem>>
    BY <1>4 DEF HandleMcpRequest
  <2>3. CASE Fail
    BY <2>2, <2>3, FailCloses
  <2>4. CASE UNCHANGED events
    BY <2>2, <2>4
  <2> DEFINE all == results \o FromHyper(r).results
             response == [kind |-> request.kind, results |-> all, parts |-> PartsOf(r)]
  <2>5. CASE Finish(response)
    <3>1. all \in Seq(Answers)
      <4> DEFINE more == FromHyper(r).results
      <4>1. results \in Seq(Answers) /\ more \in Seq(Answers)
        BY FromHyperTyped DEF TypeInv
      <4> HIDE DEF more
      <4>2. results \o more \in Seq(Answers)
        BY <4>1
      <4> QED BY <4>2 DEF more
    <3>2. Response(response)
      <4> HIDE DEF all
      <4> QED BY <2>2, <3>1 DEF Response
    <3> QED BY <2>2, <2>5, <3>2, FinishCloses
  <2> QED BY <2>1, <2>3, <2>4, <2>5
<1>5. CASE EmptyBatch
  <2> DEFINE response == [kind |-> "batch", results |-> <<>>, parts |-> EmptyParts]
  <2>1. /\ Finish(response) /\ pc = "upstream" /\ request.kind = "batch"
        /\ UNCHANGED <<now, started, firstItem>>
    BY <1>5 DEF EmptyBatch
  <2>2. Response(response)
    BY DEF Response
  <2> QED BY <2>1, <2>2, FinishCloses
<1>6. CASE UpstreamFails
  <2>1. Fail /\ pc = "upstream" /\ UNCHANGED <<now, started, firstItem>>
    BY <1>6 DEF UpstreamFails
  <2> QED BY <2>1, FailCloses
<1>7. CASE events' = events /\ firstItem' = firstItem
  BY <1>7
<1> QED BY <1>1, <1>2, <1>3, <1>4, <1>5, <1>6, <1>7, FailCloses, Changes

-----------------------------------------------------------------------------
(* The steps. *)
LEMMA AppendedList ==
  ASSUME NEW s, s \in Seq(ToSet(s)), NEW x
  PROVE  Append(s, x) \in Seq(ToSet(Append(s, x)))
<1> DEFINE A == ToSet(s)
           D == A \cup {x}
           new == Append(s, x)
<1>1. s \in Seq(A) /\ A \subseteq D /\ x \in D
  OBVIOUS
<1> HIDE DEF A, D
<1>2. s \in Seq(D)
  BY <1>1, SeqMonotonic
<1>3. new \in Seq(D)
  BY <1>1, <1>2
<1> HIDE DEF new
<1>4. new \in Seq(ToSet(new))
  BY <1>3, ListOfItself
<1> QED BY <1>4 DEF new

(* A request goes upstream while there is an exchange for it.              *)
LEMMA SentEffect ==
  ASSUME [Next]_vars
  PROVE  \/ UNCHANGED sent
         \/ OpenGetSse
         \/ pc = "upstream" /\ \E x : sent' = Append(sent, x)
<1>1. ASSUME HandleHttpRequest \/ HandleMcpRequest \/ OpenStream
      PROVE  pc = "upstream" /\ \E x : sent' = Append(sent, x)
  BY <1>1 DEF HandleHttpRequest, HandleMcpRequest, OpenStream
<1>2. ASSUME UpstreamFails
      PROVE  pc = "upstream" /\ (UNCHANGED sent \/ \E x : sent' = Append(sent, x))
  BY <1>2 DEF UpstreamFails
<1> QED BY <1>1, <1>2, Changes

LEMMA StreamOpens ==
  ASSUME TypeInv, OpenStream
  PROVE  body' \in Seq(Documents)
<1>1. PICK r \in Replies : IsEventStream(r.contentType) /\ body' = r.body.bytes
  BY DEF OpenStream
<1> DEFINE D == ToSet(r.body.bytes)
<1>2. r.body.t = "frames" /\ body' \in Seq(D)
  BY <1>1, ExchangeAssumption
<1>3. D \subseteq Documents
  BY <1>2 DEF Documents, DocumentsOf
<1> HIDE DEF D
<1> QED BY <1>2, <1>3, SeqMonotonic

(* Of no frames nothing is told. *)
LEMMA NoFramesTold ==
  ASSUME NEW methods
  PROVE  /\ ResultsOf(<<>>) = <<>>
         /\ Told(<<>>, methods) = <<>> /\ BytesOf(<<>>) = <<>>
<1> DEFINE e == <<>>
           F == Mapped(e, ParseF(Documents))
<1>1. e \in Seq(Seq(Documents)) /\ e \in Seq(ToldDocs(Documents, methods))
  OBVIOUS
<1> DEFINE told == Told(e, methods)
           rs == ResultsOf(e)
           T == ToldDocs(Documents, methods)
           b == BytesOf(e)
<1> HIDE DEF e
<1>2. e \o e = e
  BY <1>1, ConcatEmptySeq DEF e
<1>3. told \in Seq(T) /\ told = told \o told
  <2>1. told \in Seq(T)
    BY <1>1, ToldTyped
  <2>2. Told(e \o e, methods) = Told(e, methods) \o Told(e, methods)
    BY <1>1, ToldJoins
  <2> QED BY <1>2, <2>1, <2>2
<1>4. Objects(T)
  BY ToldObjects
<1>5. b = b \o b
  BY <1>1, <1>2, <1>4, BytesJoin
<1>6. b \in Seq(Bytes(T))
  BY <1>1, <1>4, BytesTyped
<1>7. ASSUME NEW D, NEW s \in Seq(D), s = s \o s
      PROVE  s = <<>>
  <2>1. Len(s) \in Nat /\ Len(s) = Len(s) + Len(s)
    BY <1>7, ConcatProperties, LenProperties
  <2>2. Len(s) = 0
    BY <2>1
  <2> QED BY <2>2, EmptySeq
<1>8. rs \in Seq(AnswersIn(Documents)) /\ rs = rs \o rs
  <2>1. ResultsOf(e \o e) = ResultsOf(e) \o ResultsOf(e)
    BY <1>1, ResultsJoin
  <2> QED BY <1>1, <1>2, <2>1, ResultsTyped
<1> HIDE DEF told, b, T, rs
<1>9. told = <<>>
  BY <1>3, <1>7
<1>10. b = <<>>
  BY <1>5, <1>6, <1>7
<1>11. rs = <<>>
  BY <1>7, <1>8
<1> QED BY <1>9, <1>10, <1>11 DEF told, b, rs, e

(* A new parser has consumed nothing. *)
LEMMA NothingConsumed ==
  ASSUME NEW D, LF \in D
  PROVE  Consumed(D, EmptyParser, <<>>, <<>>, FALSE) /\ Settled(EmptyParser, FALSE)
<1> DEFINE e == <<>>
<1>1. e \in Seq(D) /\ e \in Seq(Seq(D)) /\ e \o e = e
  <2>1. e \in Seq(D) /\ e \in Seq(Seq(D))
    OBVIOUS
  <2> HIDE DEF e
  <2> QED BY <2>1, ConcatEmptySeq DEF e
<1>2. /\ Split(D)[e].line = <<>> /\ ~AfterReturn(D, e)
      /\ Read(D, e).frame = EmptyFrame /\ Read(D, e).pending = e
  BY EmptyClean DEF Clean
<1>3. EmptyParser.buf = e /\ EmptyParser.frame = EmptyFrame /\ EmptyParser.pending = e
  BY DEF EmptyParser
<1>4. ConsumedTo(D, EmptyParser, e, e, FALSE, e)
  <2> HIDE DEF e
  <2> QED BY <1>1, <1>2, <1>3 DEF ConsumedTo, e
<1>5. Settled(EmptyParser, FALSE)
  <2>1. DOMAIN e = {}
    OBVIOUS
  <2>2. FindLineEnd(e, FALSE) = NoLineEnd
    BY <2>1 DEF FindLineEnd
  <2> QED BY <1>3, <2>2 DEF Settled
<1> QED BY <1>1, <1>4, <1>5 DEF Consumed

(* The chunks of a stream, one after the other. *)
LEMMA ParserStep ==
  ASSUME TypeInv, StreamInv, Receive \/ BodyEnds
  PROVE  /\ parser' \in ParserType(Documents) /\ Settled(parser', ended')
         /\ \A popped \in Seq(Seq(Documents)) :
              Consumed(Documents, parser, popped, SubSeq(body, 1, at), ended)
                => Consumed(Documents, parser', popped, SubSeq(body', 1, at'), ended')
<1> DEFINE D == Documents
           received == SubSeq(body, 1, at)
<1>1. parser \in ParserType(D) /\ body \in Seq(D) /\ at \in 0 .. Len(body) /\ LF \in D
  BY DEF TypeInv, Documents
<1>2. ended = FALSE
  BY DEF Receive, BodyEnds, TypeInv
<1>3. PICK popped0 \in Seq(Seq(D)) : Consumed(D, parser, popped0, received, ended)
  BY DEF StreamInv
<1> HIDE DEF D
<1>4. received \in Seq(D)
  <2>1. at \in Nat /\ at <= Len(body) /\ 1 \in Nat /\ 1 <= 1
    BY <1>1, LenProperties
  <2> QED BY <1>1, <2>1, CutTyped
<1>5. ASSUME NEW chunk \in Seq(D), NEW e \in BOOLEAN, parser' = Feed(parser, chunk, e),
             ended' = e, SubSeq(body', 1, at') = received \o chunk
      PROVE  /\ parser' \in ParserType(D) /\ Settled(parser', ended')
             /\ \A popped \in Seq(Seq(D)) :
                  Consumed(D, parser, popped, received, ended)
                    => Consumed(D, parser', popped, SubSeq(body', 1, at'), ended')
  <2> HIDE DEF received
  <2> QED BY <1>1, <1>2, <1>3, <1>4, <1>5, FeedConsumes
<1>6. CASE Receive
  <2>1. PICK to \in at + 1 .. Len(body) :
          at' = to /\ parser' = Feed(parser, SubSeq(body, at + 1, to), FALSE)
    BY <1>6 DEF Receive
  <2>2. UNCHANGED <<body, ended>>
    BY <1>6 DEF Receive
  <2> DEFINE first == at + 1
             chunk == SubSeq(body, first, to)
  <2>3. /\ first \in Nat /\ 1 <= first /\ to \in Nat /\ to <= Len(body) /\ at \in Nat
        /\ at <= to /\ at \in 1 - 1 .. to
    BY <1>1, <2>1, LenProperties
  <2> HIDE DEF first
  <2>4. chunk \in Seq(D)
    BY <1>1, <2>3, CutTyped
  <2>5. received \o chunk = SubSeq(body, 1, to)
    BY <1>1, <2>3, ConcatAdjacentSubSeq DEF first
  <2>6. parser' = Feed(parser, chunk, FALSE)
    BY <2>1 DEF first
  <2> HIDE DEF chunk, received
  <2> QED BY <1>2, <1>5, <2>1, <2>2, <2>4, <2>5, <2>6 DEF D, received
<1>7. CASE BodyEnds
  <2> DEFINE nothing == <<>>
  <2>1. parser' = Feed(parser, nothing, TRUE) /\ ended' = TRUE /\ UNCHANGED <<body, at>>
    BY <1>7 DEF BodyEnds
  <2>2. nothing \in Seq(D) /\ received \o nothing = received
    <3>1. nothing \in Seq(D)
      OBVIOUS
    <3> HIDE DEF received
    <3> QED BY <1>4, <3>1, ConcatEmptySeq
  <2> HIDE DEF nothing, received
  <2> QED BY <1>5, <2>1, <2>2 DEF D, received
<1> QED BY <1>6, <1>7

(* A frame that is relayed is one the parser no longer holds.              *)
LEMMA Handover ==
  ASSUME NEW L, NEW popped \in Seq(L), NEW pending \in Seq(L), pending # <<>>
  PROVE  /\ popped \o <<Head(pending)>> \in Seq(L)
         /\ Tail(pending) \in Seq(L)
         /\ (popped \o <<Head(pending)>>) \o Tail(pending) = popped \o pending
<1> DEFINE one == <<Head(pending)>>
           rest == Tail(pending)
<1>1. Head(pending) \in L /\ rest \in Seq(L)
  OBVIOUS
<1>2. one \in Seq(L)
  BY <1>1
<1>3. pending = one \o rest
  <2>1. Len(one) = 1 /\ one[1] = pending[1]
    OBVIOUS
  <2>2. rest \in Seq(L) /\ Len(rest) = Len(pending) - 1 /\ \A i \in 1 .. Len(rest) : rest[i] = pending[i + 1]
    BY HeadTailProperties
  <2>3. Len(pending) \in Nat /\ Len(pending) # 0
    BY LenProperties, EmptySeq
  <2> DEFINE both == one \o rest
  <2> HIDE DEF one, rest
  <2>4. Joins(L, one, rest, both)
    BY <1>2, <2>2, ConcatJoins
  <2> HIDE DEF both
  <2>5. both \in Seq(L) /\ Len(both) = Len(pending)
    BY <2>1, <2>2, <2>3, <2>4 DEF Joins
  <2>6. ASSUME NEW i \in 1 .. Len(pending)
        PROVE  pending[i] = both[i]
    <3>1. i \in 1 .. Len(one) + Len(rest)
      BY <2>1, <2>2, <2>3
    <3>2. both[i] = IF i <= 1 THEN one[i] ELSE rest[i - 1]
      BY <2>1, <2>4, <3>1 DEF Joins
    <3>3. i <= 1 => i = 1
      BY <2>3
    <3>4. ~(i <= 1) => i - 1 \in 1 .. Len(rest) /\ (i - 1) + 1 = i
      BY <2>2, <2>3
    <3> QED BY <2>1, <2>2, <3>2, <3>3, <3>4
  <2>7. pending = both
    BY <2>5, <2>6, SeqEqual
  <2> QED BY <2>7 DEF both
<1> HIDE DEF one, rest
<1>4. popped \o one \in Seq(L)
  BY <1>2, ConcatProperties
<1>5. Regroups(popped, one, rest)
  BY <1>1, <1>2, Regroup
<1> QED BY <1>1, <1>3, <1>4, <1>5 DEF Regroups, one, rest

(* Relaying keeps what is known of the parser, with one more frame popped. *)
LEMMA RelayedParser ==
  ASSUME TypeInv, StreamInv, Relay
  PROVE  /\ parser' \in ParserType(Documents) /\ Settled(parser', ended')
         /\ <<Head(parser.pending)>> \in Seq(Seq(Documents))
         /\ \A popped \in Seq(Seq(Documents)) :
              Consumed(Documents, parser, popped, SubSeq(body, 1, at), ended)
                => /\ popped \o <<Head(parser.pending)>> \in Seq(Seq(Documents))
                   /\ Consumed(Documents, parser', popped \o <<Head(parser.pending)>>,
                               SubSeq(body', 1, at'), ended')
<1> DEFINE D == Documents
           L == Seq(D)
           pending == parser.pending
           received == SubSeq(body, 1, at)
           one == <<Head(pending)>>
<1>1. pending # <<>> /\ parser' = [parser EXCEPT !.pending = Tail(pending)]
      /\ UNCHANGED <<body, at, ended>>
  BY DEF Relay
<1>2. parser \in ParserType(D) /\ pending \in Seq(L)
  BY DEF TypeInv, ParserType
<1>3. Tail(pending) \in Seq(L) /\ one \in Seq(L)
  <2> HIDE DEF L, pending
  <2>1. Head(pending) \in L
    BY <1>1, <1>2
  <2> QED BY <1>1, <1>2, <2>1
<1>4. /\ parser' \in ParserType(D) /\ parser'.buf = parser.buf /\ parser'.frame = parser.frame
      /\ parser'.pending = Tail(pending)
  <2> DEFINE rest == Tail(pending)
  <2>1. rest \in Seq(L) /\ parser' = [parser EXCEPT !.pending = rest]
    BY <1>1, <1>3
  <2> HIDE DEF rest
  <2> QED BY <1>2, <2>1 DEF ParserType, rest
<1>5. Settled(parser', ended')
  BY <1>1, <1>4 DEF Settled, StreamInv
<1>6. ASSUME NEW popped \in Seq(L), Consumed(D, parser, popped, received, ended)
      PROVE  popped \o one \in Seq(L) /\ Consumed(D, parser', popped \o one, received, ended)
  <2>1. /\ popped \o one \in Seq(L)
        /\ (popped \o one) \o Tail(pending) = popped \o pending
    <3> HIDE DEF L, pending
    <3> QED BY <1>1, <1>2, Handover
  <2>2. PICK w \in Seq(D) : ConsumedTo(D, parser, popped, received, ended, w)
    BY <1>6 DEF Consumed
  <2> HIDE DEF one, pending, received
  <2>3. ConsumedTo(D, parser', popped \o one, received, ended, w)
    BY <1>4, <2>1, <2>2 DEF ConsumedTo, pending
  <2> QED BY <2>1, <2>3 DEF Consumed
<1> QED BY <1>1, <1>3, <1>4, <1>5, <1>6

LEMMA TypeStep ==
  ASSUME TypeInv, PhaseInv, TimesInv, SentInv, StreamInv, [Next]_vars
  PROVE  TypeInv'
<1>1. (pc \in {"intake", "upstream", "stream", "done", "gone"})'
  BY DEF TypeInv, Next, vars, Intake, BadBody, OpenGetSse, ServeOAuth, HandleHttpRequest,
         HandleMcpRequest, EmptyBatch, UpstreamFails, OpenStream, Receive, BodyEnds,
         BodyFails, Relay, StreamEnds, ClientLeaves, Tick, Finish, Fail
<1>2. (request = NoRequest \/ Classified)'
  <2>1. CASE Intake
    BY <2>1 DEF Intake, Classified
  <2>2. CASE UNCHANGED request
    BY <2>2 DEF TypeInv, Classified
  <2> QED BY <2>1, <2>2, Changes
<1>3. (sent \in Seq(ToSet(sent)))'
  <2>1. CASE UNCHANGED sent
    BY <2>1 DEF TypeInv
  <2>2. CASE OpenGetSse
    <3>1. PICK x : sent' = <<x>>
      BY <2>2 DEF OpenGetSse
    <3>2. <<x>> \in Seq({x})
      OBVIOUS
    <3> DEFINE one == <<x>>
    <3> HIDE DEF one
    <3>3. one \in Seq(ToSet(one))
      BY <3>2, ListOfItself DEF one
    <3> QED BY <3>1, <3>3 DEF one
  <2>3. ASSUME NEW x, sent' = Append(sent, x)
        PROVE  sent' \in Seq(ToSet(sent'))
    BY <2>3, AppendedList DEF TypeInv
  <2> QED BY <2>1, <2>2, <2>3, SentEffect
<1>4. (results \in Seq(Answers))'
  <2>1. CASE UNCHANGED results
    BY <2>1 DEF TypeInv
  <2>2. CASE HandleMcpRequest
    <3>1. PICK r \in Replies : results' = results \/ results' = results \o FromHyper(r).results
      BY <2>2 DEF HandleMcpRequest
    <3> DEFINE more == FromHyper(r).results
    <3>2. results \in Seq(Answers) /\ more \in Seq(Answers)
      BY FromHyperTyped DEF TypeInv
    <3>3. results' = results \/ results' = results \o more
      BY <3>1
    <3> HIDE DEF more
    <3>4. results \o more \in Seq(Answers)
      BY <3>2
    <3> QED BY <3>2, <3>3, <3>4
  <2> QED BY <2>1, <2>2, Changes
<1>5. (body \in Seq(Documents) /\ at \in 0 .. Len(body))'
  <2>1. CASE OpenStream
    <3>1. at' = 0 /\ body' \in Seq(Documents)
      BY <2>1, StreamOpens DEF OpenStream, PhaseInv
    <3>2. Len(body') \in Nat
      BY <3>1, LenProperties
    <3> QED BY <3>1, <3>2
  <2>2. CASE Receive
    BY <2>2 DEF Receive, TypeInv
  <2>3. CASE UNCHANGED <<body, at>>
    BY <2>3 DEF TypeInv
  <2>4. UNCHANGED body \/ UNCHANGED at
    BY <2>1, <2>2, Changes DEF Receive
  <2> QED BY <2>1, <2>2, <2>3, Changes
<1>6. (parser \in ParserType(Documents) /\ ended \in BOOLEAN)'
  <2>1. ended' \in BOOLEAN
    BY Changes DEF BodyEnds, TypeInv
  <2>2. parser' \in ParserType(Documents)
    <3>1. Relay => parser' \in ParserType(Documents)
      BY RelayedParser
    <3>2. Receive \/ BodyEnds => parser' \in ParserType(Documents)
      BY ParserStep
    <3> QED BY <3>1, <3>2, Changes DEF TypeInv
  <2> QED BY <2>1, <2>2
<1>7. (events \in Seq(ToSet(events)))'
  BY EventsEffect DEF Closes, Relays, Adds, TypeInv
<1>8. (now \in 0 .. MaxTime /\ started \in 0 .. now)'
  <2>1. CASE Intake
    BY <2>1 DEF Intake, TypeInv
  <2>2. CASE Tick
    BY <2>2, ExchangeAssumption DEF Tick, TypeInv
  <2>3. CASE UNCHANGED <<now, started>>
    BY <2>3 DEF TypeInv
  <2> QED BY <2>1, <2>2, <2>3, Changes
<1> QED BY <1>1, <1>2, <1>3, <1>4, <1>5, <1>6, <1>7, <1>8 DEF TypeInv

LEMMA PhaseStep ==
  ASSUME TypeInv, PhaseInv, TimesInv, SentInv, [Next]_vars
  PROVE  PhaseInv'
<1>1. (pc = "intake" => request = NoRequest /\ results = <<>>)'
  <2>1. pc' = "intake" => pc = "intake" /\ ~Intake /\ ~HandleMcpRequest
    BY Changes DEF Next, vars, Intake, BadBody, OpenGetSse, ServeOAuth, HandleHttpRequest,
         HandleMcpRequest, EmptyBatch, UpstreamFails, OpenStream, Receive, BodyEnds,
         BodyFails, Relay, StreamEnds, ClientLeaves, Tick, Finish, Fail
  <2> QED BY <2>1, Changes DEF PhaseInv
<1>2. (pc \in {"upstream", "stream"} => Classified)'
  <2>1. CASE Intake
    BY <2>1 DEF Intake, Classified
  <2>2. CASE ~Intake
    <3>1. pc' \in {"upstream", "stream"} => pc \in {"upstream", "stream"}
      BY <2>2 DEF Next, vars, BadBody, OpenGetSse, ServeOAuth, HandleHttpRequest,
         HandleMcpRequest, EmptyBatch, UpstreamFails, OpenStream, Receive, BodyEnds,
         BodyFails, Relay, StreamEnds, ClientLeaves, Tick, Finish, Fail
    <3>2. UNCHANGED request
      BY <2>2, Changes
    <3> QED BY <3>1, <3>2 DEF PhaseInv, Classified
  <2> QED BY <2>1, <2>2
<1>3. (pc \in {"intake", "upstream"} =>
         events = <<>> /\ at = 0 /\ routed = Running /\ firstItem = Running)'
  <2>1. pc' \in {"intake", "upstream"} => /\ pc \in {"intake", "upstream"}
                                          /\ ~Receive /\ ~Relay
    BY DEF Next, vars, Intake, BadBody, OpenGetSse, ServeOAuth, HandleHttpRequest,
         HandleMcpRequest, EmptyBatch, UpstreamFails, OpenStream, Receive, BodyEnds,
         BodyFails, Relay, StreamEnds, ClientLeaves, Tick, Finish, Fail
  <2>2. pc' \in {"intake", "upstream"} => UNCHANGED <<events, firstItem>>
    BY EventsEffect DEF Closes, Relays
  <2> QED BY <2>1, <2>2, Changes DEF PhaseInv, Running
<1> QED BY <1>1, <1>2, <1>3 DEF PhaseInv

(* An event that fits those before it keeps the times consistent.          *)
LEMMA AddedTimes ==
  ASSUME TimesInv, NEW e, Adds(events', events, e), e.type = "request",
         e.upstream \in Nat, e.latency \in Nat, e.upstream <= e.latency,
         \A i \in DOMAIN events :
           events[i].type = "request" => /\ events[i].upstream = e.upstream
                                         /\ events[i].latency <= e.latency
  PROVE  /\ \A i \in DOMAIN events' :
              events'[i].type = "request" => /\ events'[i].upstream = e.upstream
                                             /\ events'[i].latency \in Nat
                                             /\ events'[i].latency <= e.latency
         /\ TimesConsistent'
<1> DEFINE R == {i \in DOMAIN events' : events'[i].type = "request"}
           old(i) == /\ i < Len(events') /\ i \in DOMAIN events /\ events'[i] = events[i]
                     /\ events[i].type = "request"
           new(i) == i = Len(events') /\ events'[i] = e
<1>1. Len(events') \in Nat /\ DOMAIN events' = 1 .. Len(events')
  BY LenProperties DEF Adds
<1>2. ASSUME NEW i \in R
      PROVE  i \in Nat /\ (old(i) \/ new(i))
  <2>1. \/ i < Len(events') /\ i \in DOMAIN events /\ events'[i] = events[i]
        \/ i < Len(events') /\ events'[i].type = "schema"
        \/ i = Len(events') /\ events'[i] = e
    BY DEF Adds
  <2> QED BY <1>1, <2>1
<1>3. ASSUME NEW i \in R
      PROVE  /\ events'[i].upstream = e.upstream
             /\ events'[i].latency \in Nat
             /\ events'[i].latency <= e.latency
             /\ events'[i].upstream <= events'[i].latency
  <2>1. CASE old(i)
    <3>1. /\ events[i].upstream = e.upstream /\ events[i].latency <= e.latency
          /\ events[i].latency \in Nat
      BY <2>1 DEF TimesInv
    <3>2. events[i].upstream <= events[i].latency
      BY <2>1 DEF TimesInv, TimesConsistent
    <3> QED BY <2>1, <3>1, <3>2
  <2>2. CASE new(i)
    BY <2>2
  <2> QED BY <1>2, <2>1, <2>2
<1>4. ASSUME NEW i \in R, NEW j \in R, i <= j
      PROVE  events'[i].latency <= events'[j].latency
  <2>1. CASE old(i) /\ old(j)
    <3>1. events[i].latency <= events[j].latency
      BY <1>4, <2>1 DEF TimesInv, TimesConsistent
    <3> QED BY <2>1, <3>1
  <2>2. CASE new(j)
    BY <1>3, <2>2
  <2>3. CASE new(i) /\ old(j)
    BY <1>1, <1>2, <1>4, <2>3
  <2> QED BY <1>2, <2>1, <2>2, <2>3
<1>5. TimesConsistent'
  <2>1. \A i, j \in R : /\ events'[i].upstream <= events'[i].latency
                        /\ i <= j => /\ events'[i].latency <= events'[j].latency
                                     /\ events'[i].upstream = events'[j].upstream
    <3> HIDE DEF R, old, new
    <3> QED BY <1>3, <1>4
  <2> QED BY <2>1 DEF TimesConsistent
<1> QED BY <1>3, <1>5

LEMMA TimesStep ==
  ASSUME TypeInv, PhaseInv, TimesInv, SentInv, [Next]_vars
  PROVE  TimesInv'
<1> DEFINE N == now - started
<1>1. /\ now \in 0 .. MaxTime /\ started \in 0 .. now /\ N \in Nat
      /\ now \in Nat /\ started \in Nat /\ MaxTime \in Nat
  BY ExchangeAssumption DEF TypeInv
<1>2. CASE Closes
  <2>1. pc = "upstream" /\ pc' = "done" /\ events = <<>>
    BY <1>2 DEF Closes, PhaseInv
  <2>2. PICK e : /\ Adds(events', events, e) /\ e.type = "request"
                 /\ e.latency = N /\ e.upstream \in {0, N}
    BY <1>2 DEF Closes
  <2>3. \A i \in DOMAIN events' :
          events'[i].type = "request" => /\ events'[i].upstream = e.upstream
                                         /\ events'[i].latency \in Nat
    BY <1>1, <2>1, <2>2, AddedTimes
  <2>4. TimesConsistent'
    BY <1>1, <2>1, <2>2, AddedTimes
  <2> QED BY <1>1, <2>1, <2>2, <2>3, <2>4 DEF TimesInv
<1>3. CASE Relays
  <2>1. /\ pc = "stream" /\ UNCHANGED <<pc, now, started, routed>>
        /\ firstItem' \in routed .. now
        /\ firstItem # Running => firstItem' = firstItem
    BY <1>3 DEF Relays
  <2>2. PICK e : /\ Adds(events', events, e) /\ e.type = "request"
                 /\ e.latency = N /\ e.upstream = firstItem' - started
    BY <1>3 DEF Relays
  <2>3. /\ routed \in started .. now /\ firstItem' # Running
        /\ e.upstream \in Nat /\ e.upstream <= e.latency
    BY <1>1, <2>1, <2>2 DEF TimesInv, Running
  <2>4. \A i \in DOMAIN events :
          events[i].type = "request" => /\ events[i].upstream = e.upstream
                                        /\ events[i].latency <= e.latency
    BY <2>1, <2>2 DEF TimesInv
  <2>5. \A i \in DOMAIN events' :
          events'[i].type = "request" => /\ events'[i].upstream = e.upstream
                                         /\ events'[i].latency \in Nat
                                         /\ events'[i].latency <= e.latency
    BY <1>1, <2>2, <2>3, <2>4, AddedTimes
  <2>6. TimesConsistent'
    BY <1>1, <2>2, <2>3, <2>4, AddedTimes
  <2>7. UNCHANGED request
    BY <2>1, Changes DEF Intake
  <2>8. request.kind = "mcp"
    BY <2>1 DEF TimesInv
  <2> QED BY <2>1, <2>2, <2>3, <2>5, <2>6, <2>7, <2>8 DEF TimesInv
<1>4. CASE UNCHANGED <<events, firstItem>>
  <2>1. UNCHANGED TimesConsistent
    BY <1>4 DEF TimesConsistent
  <2>2. CASE pc' = "stream" /\ pc = "stream"
    <3>1. UNCHANGED <<request, started, routed>>
      BY <2>2, Changes DEF Intake
    <3>2. now' = now \/ now' = now + 1
      BY Changes DEF Tick
    <3>3. routed' \in started' .. now' /\ (firstItem' = Running \/ firstItem' \in routed' .. now')
      BY <1>1, <1>4, <2>2, <3>1, <3>2 DEF TimesInv
    <3>4. request'.kind = "mcp"
      BY <2>2, <3>1 DEF TimesInv
    <3>5. ASSUME NEW i \in DOMAIN events', events'[i].type = "request"
          PROVE  /\ firstItem' # Running
                 /\ events'[i].upstream = firstItem' - started'
                 /\ events'[i].latency <= now' - started'
      <4>1. /\ firstItem # Running /\ events[i].upstream = firstItem - started
            /\ events[i].latency \in Nat /\ events[i].latency <= N
        BY <1>4, <2>2, <3>5 DEF TimesInv
      <4> QED BY <1>1, <1>4, <3>1, <3>2, <4>1
    <3>6. \A i \in DOMAIN events' : events'[i].type = "request" =>
            events'[i].upstream \in Nat /\ events'[i].latency \in Nat
      BY <1>4 DEF TimesInv
    <3> QED BY <2>1, <3>3, <3>4, <3>5, <3>6 DEF TimesInv, Running
  <2>3. CASE pc' = "stream" /\ pc # "stream"
    <3>1. OpenStream
      BY <2>3 DEF Next, vars, Intake, BadBody, OpenGetSse, ServeOAuth, HandleHttpRequest,
         HandleMcpRequest, EmptyBatch, UpstreamFails, Receive, BodyEnds,
         BodyFails, Relay, StreamEnds, ClientLeaves, Tick, Finish, Fail
    <3>2. /\ request'.kind = "mcp" /\ routed' = now /\ UNCHANGED <<now, started>>
          /\ pc = "upstream"
      BY <3>1 DEF OpenStream
    <3>3. events' = <<>> /\ firstItem' = Running
      BY <1>4, <3>2 DEF PhaseInv, Running
    <3> QED BY <1>1, <2>1, <3>2, <3>3 DEF TimesInv, Running
  <2>4. CASE pc' # "stream"
    BY <1>4, <2>1, <2>4 DEF TimesInv
  <2> QED BY <2>2, <2>3, <2>4
<1> QED BY <1>2, <1>3, <1>4, EventsEffect

LEMMA SinksStep ==
  ASSUME TypeInv, PhaseInv, TimesInv, SentInv, SinksInv, [Next]_vars
  PROVE  SinksInv'
<1>1. ASSUME NEW e, Adds(events', events, e), ForSinks(e)
      PROVE  SinksInv'
  <2>1. ASSUME NEW x \in ToSet(events'), x.type = "request"
        PROVE  ForSinks(x)
    <3>1. PICK i \in DOMAIN events' : x = events'[i]
      BY DEF ToSet
    <3>2. \/ i \in DOMAIN events /\ x = events[i]
          \/ x.type = "schema"
          \/ x = e
      BY <1>1, <3>1 DEF Adds
    <3> QED BY <1>1, <2>1, <3>2 DEF SinksInv, ToSet
  <2> QED BY <2>1 DEF SinksInv, ForSinks, IsResultRecord
<1>2. CASE UNCHANGED events
  BY <1>2 DEF SinksInv, ForSinks, IsResultRecord
<1> QED BY <1>1, <1>2, EventsEffect DEF Closes, Relays

(* Calls that have gone out in order are a beginning of those understood.  *)
LEMMA EmptyPrefix ==
  ASSUME NEW t, t \in Seq(ToSet(t))
  PROVE  IsPrefix(<<>>, t)
<1>1. Len(t) \in Nat /\ Len(<<>>) = 0
  BY LenProperties
<1>2. SubSeq(<<>>, 1, 0) = SubSeq(t, 1, 0)
  OBVIOUS
<1> QED BY <1>1, <1>2 DEF IsPrefix

LEMMA WholePrefix ==
  ASSUME NEW t, t \in Seq(ToSet(t))
  PROVE  IsPrefix(t, t)
<1>1. Len(t) \in Nat
  BY LenProperties
<1> QED BY <1>1 DEF IsPrefix

LEMMA CallsInOrder ==
  ASSUME Classified, request.kind \in {"mcp", "batch"}, UNCHANGED request,
         sent' \in Seq(ToSet(sent')), Len(sent') <= Len(request.rpcs),
         \A i \in 1 .. Len(sent') : sent'[i].body = EncodeRequest(request.rpcs[i])
  PROVE  /\ IsPrefix(SentDocuments', Understood')
         /\ Len(sent') = Len(request.rpcs) =>
              /\ SentDocuments' = Understood'
              /\ SentDocuments' = [i \in DOMAIN request'.rpcs |-> EncodeRequest(request'.rpcs[i])]
<1> DEFINE rpcs == request.rpcs
           calls == [i \in DOMAIN rpcs |-> EncodeRequest(rpcs[i])]
           docs == SentDocuments'
           n == Len(sent')
           body_(i) == sent'[i].body
<1>1. /\ rpcs \in Seq(ToSet(rpcs)) /\ Understood \in Seq(ToSet(Understood))
      /\ Understood = calls /\ Understood' = Understood
  BY ClassifiedRequests DEF Understood, Calls
<1>2. Len(rpcs) \in Nat /\ DOMAIN rpcs = 1 .. Len(rpcs) /\ n \in Nat /\ DOMAIN sent' = 1 .. n
  BY <1>1, LenProperties
<1>3. docs = [i \in 1 .. n |-> body_(i)]
  BY <1>2 DEF SentDocuments
<1>4. \A i \in 1 .. n : docs[i] = EncodeRequest(rpcs[i])
  BY <1>3
<1>5. docs \in Seq(ToSet(docs)) /\ Len(docs) = n /\ DOMAIN docs = 1 .. n
  <2>1. docs \in [1 .. n -> ToSet(docs)]
    BY <1>3 DEF ToSet
  <2> HIDE DEF docs, n
  <2> QED BY <1>2, <2>1, FunctionIsList
<1>6. calls \in Seq(ToSet(calls)) /\ Len(calls) = Len(rpcs)
  <2>1. DOMAIN calls = 1 .. Len(rpcs) /\ calls \in Seq(ToSet(calls))
    BY <1>1, <1>2
  <2> HIDE DEF calls
  <2> QED BY <1>2, <2>1, LenProperties
<1>7. \A i \in 1 .. Len(rpcs) : calls[i] = EncodeRequest(rpcs[i])
  BY <1>2
<1>8. n = Len(rpcs) => docs = calls
  <2>1. ASSUME n = Len(rpcs)
        PROVE  docs = calls
    <3>1. docs = [i \in 1 .. n |-> docs[i]] /\ calls = [i \in 1 .. n |-> calls[i]]
      BY <1>2, <1>3, <2>1
    <3>2. \A i \in 1 .. n : docs[i] = calls[i]
      BY <1>4, <1>7, <2>1
    <3> HIDE DEF docs, calls, n
    <3> QED BY <3>1, <3>2
  <2> QED BY <2>1
<1> HIDE DEF docs, calls
<1>9. IsPrefix(docs, calls)
  <2>1. SubSeq(docs, 1, n) = [i \in 1 .. n |-> docs[i]]
    BY <1>2, <1>5
  <2>2. SubSeq(calls, 1, n) = [i \in 1 .. n |-> calls[i]]
    BY <1>2, <1>6
  <2>3. \A i \in 1 .. n : docs[i] = calls[i]
    BY <1>2, <1>4, <1>7
  <2> HIDE DEF n
  <2>4. SubSeq(docs, 1, n) = SubSeq(calls, 1, n)
    BY <2>1, <2>2, <2>3
  <2> QED BY <1>5, <1>6, <2>4 DEF IsPrefix, n
<1> QED BY <1>1, <1>8, <1>9 DEF docs, calls

LEMMA AppendedCall ==
  ASSUME TypeInv, SentInv, pc = "upstream", request.kind \in {"mcp", "batch"},
         sent' = Append(sent, Call(NextCall))
  PROVE  /\ sent' \in Seq(ToSet(sent')) /\ Len(sent') = Len(results) + 1
         /\ \A i \in 1 .. Len(sent') : sent'[i].body = EncodeRequest(request.rpcs[i])
<1> DEFINE call == Call(NextCall)
           n == Len(results)
<1>1. /\ sent \in Seq(ToSet(sent)) /\ Len(sent) = n /\ n \in Nat
      /\ \A i \in 1 .. n : sent[i].body = EncodeRequest(request.rpcs[i])
  BY LenProperties DEF TypeInv, SentInv
<1>2. call.body = EncodeRequest(request.rpcs[n + 1])
  BY DEF Call, NextCall
<1>3. sent' = Append(sent, call)
  OBVIOUS
<1> HIDE DEF call, n
<1>4. sent' \in Seq(ToSet(sent'))
  BY <1>1, <1>3, AppendedList
<1> DEFINE D == ToSet(sent) \cup {call}
<1>5. sent \in Seq(D) /\ call \in D
  <2> DEFINE A == ToSet(sent)
  <2>1. sent \in Seq(A) /\ A \subseteq D /\ call \in D
    BY <1>1
  <2> HIDE DEF A, D
  <2> QED BY <2>1, SeqMonotonic
<1> HIDE DEF D
<1>6. /\ Len(sent') = n + 1
      /\ \A i \in 1 .. n : sent'[i] = sent[i]
      /\ sent'[n + 1] = call
  BY <1>1, <1>3, <1>5, AppendProperties
<1>7. ASSUME NEW i \in 1 .. n + 1
      PROVE  sent'[i].body = EncodeRequest(request.rpcs[i])
  <2>1. CASE i \in 1 .. n
    BY <1>1, <1>6, <2>1
  <2>2. CASE i = n + 1
    BY <1>2, <1>6, <2>2
  <2> QED BY <1>1, <2>1, <2>2
<1> QED BY <1>4, <1>6, <1>7 DEF n

LEMMA SentStep ==
  ASSUME TypeInv, PhaseInv, TimesInv, SentInv, [Next]_vars
  PROVE  SentInv'
<1> DEFINE whole == SentDocuments' = <<request'.http.body>>
           begun == IsPrefix(SentDocuments', Understood')
           ended_ == SentDocuments' = Understood'
           following == request.kind \in {"mcp", "batch"}
<1> USE DEF whole
<1>1. CASE pc = "intake"
  <2>1. sent = <<>> /\ results = <<>> /\ request = NoRequest
    BY <1>1 DEF SentInv, PhaseInv
  <2>2. CASE Intake
    <3>1. pc' = "upstream" /\ sent' = <<>> /\ results' = <<>> /\ Classified'
      BY <2>1, <2>2 DEF Intake, Classified
    <3>2. request'.rpcs \in Seq(ToSet(request'.rpcs)) /\ Understood' \in Seq(ToSet(Understood'))
      <4>1. PICK http \in Inbounds :
              request' = [kind |-> FromAxum(http).kind, rpcs |-> FromAxum(http).rpcs,
                          http |-> http]
        BY <3>1 DEF Classified
      <4>2. /\ Calls' = IF IsArray(http.body) THEN http.body.items ELSE <<http.body>>
            /\ Understood' = [i \in DOMAIN Calls' |->
                                IF IsRequest(Calls'[i]) THEN EncodeRequest(RequestOf(Calls'[i]))
                                                        ELSE Calls'[i]]
        BY <4>1 DEF Calls, Understood
      <4> QED BY <4>1, <4>2, RequestsClassified
    <3>3. Len(request'.rpcs) \in Nat /\ Len(<<>>) = 0 /\ (Len(request'.rpcs) = 0 => request'.rpcs = <<>>)
      BY <3>2, LenProperties, EmptySeq
    <3>4. SentDocuments' = <<>>
      BY <3>1 DEF SentDocuments
    <3>5. begun
      BY <3>2, <3>4, EmptyPrefix
    <3>6. \A i \in 1 .. Len(<<>>) : FALSE
      BY <3>3
    <3> QED BY <3>1, <3>3, <3>5, <3>6 DEF SentInv, NothingSkipped
  <2>3. CASE BadBody \/ OpenGetSse
    BY <2>1, <2>3 DEF BadBody, OpenGetSse, SentInv, NothingSkipped
  <2>4. CASE UNCHANGED vars
    BY <1>1, <2>1, <2>4 DEF vars, SentInv, NothingSkipped
  <2> QED BY <1>1, <2>2, <2>3, <2>4
       DEF Next, ServeOAuth, HandleHttpRequest, HandleMcpRequest, EmptyBatch, UpstreamFails,
           OpenStream, Receive, BodyEnds, BodyFails, Relay, StreamEnds, ClientLeaves, Tick
<1>2. CASE pc # "intake"
  <2>1. UNCHANGED request /\ UNCHANGED Understood
    BY <1>2, Changes DEF Intake, Understood, Calls
  <2> DEFINE n == Len(results)
             rpcs == request.rpcs
  <2>2. CASE pc = "upstream"
    <3>1. /\ Classified /\ Classified' /\ request.kind \in {"oauth", "batch", "mcp", "http"}
          /\ request # NoRequest
          /\ request.kind \in {"oauth", "http"} => rpcs = <<>>
          /\ request.kind = "mcp" => rpcs = <<rpcs[1]>>
          /\ rpcs \in Seq(ToSet(rpcs))
          /\ Understood \in Seq(ToSet(Understood))
      BY <2>1, <2>2, ClassifiedRequests DEF PhaseInv, Classified
    <3>2. ~following => sent = <<>>
      BY <2>2 DEF SentInv
    <3>3. following => /\ Len(sent) = n /\ n <= Len(rpcs)
                       /\ rpcs = <<>> \/ n < Len(rpcs)
                       /\ \A i \in 1 .. Len(sent) : sent[i].body = EncodeRequest(rpcs[i])
      BY <2>2 DEF SentInv
    <3>4. n \in Nat /\ Len(rpcs) \in Nat /\ sent \in Seq(ToSet(sent))
      BY <3>1, LenProperties DEF TypeInv
    <3>5. ASSUME UNCHANGED sent
          PROVE  begun
      <4>1. CASE following
        BY <2>1, <3>1, <3>3, <3>4, <3>5, <4>1, CallsInOrder
      <4>2. CASE ~following
        <5>1. SentDocuments' = <<>>
          BY <3>2, <3>5, <4>2 DEF SentDocuments
        <5> QED BY <2>1, <3>1, <5>1, EmptyPrefix
      <4> QED BY <4>1, <4>2
    <3>6. ASSUME sent' = Append(sent, Call(NextCall)), following, n < Len(rpcs)
          PROVE  /\ Len(sent') = n + 1
                 /\ \A i \in 1 .. Len(sent') : sent'[i].body = EncodeRequest(rpcs[i])
                 /\ begun
                 /\ n + 1 = Len(rpcs) =>
                      /\ ended_
                      /\ SentDocuments' = [i \in DOMAIN request'.rpcs |-> EncodeRequest(request'.rpcs[i])]
      <4>1. /\ sent' \in Seq(ToSet(sent')) /\ Len(sent') = n + 1
            /\ \A i \in 1 .. Len(sent') : sent'[i].body = EncodeRequest(rpcs[i])
        BY <2>2, <3>6, AppendedCall
      <4>2. Len(sent') <= Len(rpcs)
        BY <3>4, <3>6, <4>1
      <4> QED BY <2>1, <3>1, <3>6, <4>1, <4>2, CallsInOrder
    <3>7. ASSUME sent' = Append(sent, ForwardedRequest), ~following
          PROVE  whole
      <4> DEFINE forwarded == ForwardedRequest
      <4>1. sent = <<>> /\ sent' = Append(sent, forwarded)
        BY <3>2, <3>7
      <4>2. forwarded.body = request.http.body
        BY DEF ForwardedRequest
      <4> HIDE DEF forwarded
      <4>3. DOMAIN sent' = 1 .. 1 /\ sent'[1] = forwarded
        BY <4>1
      <4>4. SentDocuments' = [i \in 1 .. 1 |-> request.http.body]
        BY <4>2, <4>3 DEF SentDocuments
      <4> QED BY <2>1, <4>4
    <3>8. ASSUME pc' = "done" \/ pc' = "gone",
                 \/ whole
                 \/ begun /\ (pc' = "gone" \/ answer'.status = BadGateway.status \/ request.kind = "oauth")
                 \/ begun /\ ended_
          PROVE  SentInv'
      <4> HIDE DEF whole
      <4>1. NothingSkipped'
        BY <2>1, <3>8 DEF NothingSkipped, whole
      <4> QED BY <3>8, <4>1 DEF SentInv
    <3>9. CASE ServeOAuth
      <4>1. pc' = "done" /\ UNCHANGED sent /\ request.kind = "oauth"
        BY <3>9 DEF ServeOAuth, Finish
      <4> QED BY <3>5, <3>8, <4>1
    <3>10. CASE HandleHttpRequest
      <4>1. pc' = "done" /\ sent' = Append(sent, ForwardedRequest) /\ ~following
        BY <3>10 DEF HandleHttpRequest, Finish, Forwards
      <4> QED BY <3>7, <3>8, <4>1
    <3>11. CASE HandleMcpRequest
      <4>1. following /\ n < Len(rpcs) /\ sent' = Append(sent, Call(NextCall))
        BY <3>11 DEF HandleMcpRequest
      <4>2. PICK r \in Replies :
              \/ Fail
              \/ /\ FromHyper(r).kind = "mcp"
                 /\ results' = results \o FromHyper(r).results
                 /\ IF Len(results') = Len(rpcs) THEN pc' = "done" ELSE UNCHANGED pc
        BY <3>11 DEF HandleMcpRequest, Finish
      <4>3. CASE Fail
        BY <3>6, <3>8, <4>1, <4>3 DEF Fail
      <4>4. CASE /\ FromHyper(r).kind = "mcp"
                 /\ results' = results \o FromHyper(r).results
                 /\ IF Len(results') = Len(rpcs) THEN pc' = "done" ELSE UNCHANGED pc
        <5>1. Len(results') = n + 1
          <6> DEFINE more == FromHyper(r).results
          <6>1. results \in Seq(Answers) /\ more \in Seq(Answers) /\ Len(more) = 1
            BY <4>4, FromHyperTyped DEF TypeInv
          <6>2. results' = results \o more
            BY <4>4
          <6> HIDE DEF more
          <6>3. Len(results \o more) = Len(results) + Len(more)
            BY <6>1, ConcatProperties
          <6> QED BY <6>1, <6>2, <6>3
        <5>2. CASE n + 1 = Len(rpcs)
          BY <3>6, <3>8, <4>1, <4>4, <5>1, <5>2
        <5>3. CASE n + 1 # Len(rpcs)
          <6>1. pc' = "upstream" /\ n + 1 < Len(rpcs)
            BY <2>2, <3>4, <4>1, <4>4, <5>1, <5>3
          <6>2. NothingSkipped'
            BY <3>6, <4>1, <6>1 DEF NothingSkipped
          <6> QED BY <2>1, <3>4, <3>6, <4>1, <5>1, <6>1, <6>2 DEF SentInv
        <5> QED BY <5>2, <5>3
      <4> QED BY <4>2, <4>3, <4>4
    <3>12. CASE EmptyBatch
      <4>1. /\ pc' = "done" /\ UNCHANGED sent /\ request.kind = "batch" /\ rpcs = <<>>
        BY <3>12 DEF EmptyBatch, Finish
      <4>2. Len(rpcs) = 0 /\ n = 0 /\ Len(sent') = Len(rpcs)
        BY <3>3, <3>4, <4>1
      <4>3. begun /\ ended_
        BY <2>1, <3>1, <3>3, <3>4, <4>1, <4>2, CallsInOrder
      <4> QED BY <3>8, <4>1, <4>3
    <3>13. CASE UpstreamFails
      <4>1. pc' = "done" /\ answer'.status = BadGateway.status
        BY <3>13 DEF UpstreamFails, Fail
      <4>2. CASE Forwards /\ sent' \in {sent, Append(sent, ForwardedRequest)}
        BY <3>5, <3>7, <3>8, <4>1, <4>2 DEF Forwards
      <4>3. CASE rpcs # <<>> /\ sent' \in {sent, Append(sent, Call(NextCall))}
        <5>1. following /\ n < Len(rpcs)
          BY <3>1, <3>3, <4>3
        <5> QED BY <3>5, <3>6, <3>8, <4>1, <4>3, <5>1
      <4> QED BY <3>13, <4>2, <4>3 DEF UpstreamFails
    <3>14. CASE OpenStream
      <4>1. /\ pc' = "stream" /\ request.kind = "mcp" /\ sent' = Append(sent, Call(NextCall))
        BY <3>14 DEF OpenStream
      <4>2. Len(rpcs) = 1
        <5> DEFINE one == rpcs[1]
        <5>1. rpcs = <<one>>
          BY <3>1, <4>1
        <5> HIDE DEF one, rpcs
        <5>2. Len(<<one>>) = 1
          OBVIOUS
        <5> QED BY <5>1, <5>2
      <4>3. n < Len(rpcs) /\ n + 1 = Len(rpcs)
        BY <3>3, <3>4, <4>1, <4>2
      <4>4. NothingSkipped'
        BY <3>6, <4>1, <4>3 DEF NothingSkipped
      <4> QED BY <3>6, <4>1, <4>3, <4>4 DEF SentInv
    <3>15. CASE ClientLeaves
      BY <3>5, <3>8, <3>15 DEF ClientLeaves
    <3>16. CASE Tick \/ UNCHANGED vars
      BY <3>16 DEF Tick, vars, SentInv, NothingSkipped, SentDocuments, Understood, Calls
    <3> QED BY <2>2, <3>9, <3>10, <3>11, <3>12, <3>13, <3>14, <3>15, <3>16
         DEF Next, Intake, BadBody, OpenGetSse, Receive, BodyEnds, BodyFails, Relay, StreamEnds
  <2>3. CASE pc # "upstream"
    <3>1. UNCHANGED sent /\ UNCHANGED SentDocuments
      BY <1>2, <2>3, SentEffect DEF OpenGetSse, SentDocuments
    <3>2. CASE pc = "stream"
      <4>1. Classified /\ request.kind = "mcp"
        BY <3>2 DEF PhaseInv, TimesInv
      <4>2. /\ SentDocuments = [i \in DOMAIN rpcs |-> EncodeRequest(rpcs[i])]
            /\ Understood = [i \in DOMAIN rpcs |-> EncodeRequest(rpcs[i])]
            /\ Understood \in Seq(ToSet(Understood))
        BY <3>2, <4>1, ClassifiedRequests DEF SentInv
      <4>3. ended_ /\ begun
        BY <2>1, <3>1, <4>2, WholePrefix
      <4>4. NothingSkipped'
        BY <4>3 DEF NothingSkipped
      <4>5. pc' \in {"stream", "done", "gone"}
        BY <3>2, Changes
      <4> QED BY <2>1, <3>1, <4>2, <4>4, <4>5 DEF SentInv
    <3>3. CASE pc \in {"done", "gone"}
      <4>1. UNCHANGED pc /\ (pc = "done" => UNCHANGED answer)
        BY <3>3, Changes DEF Relay
      <4>2. NothingSkipped'
        BY <2>1, <3>1, <3>3, <4>1 DEF SentInv, NothingSkipped
      <4> QED BY <3>3, <4>1, <4>2 DEF SentInv
    <3> QED BY <1>2, <2>3, <3>2, <3>3 DEF TypeInv
  <2> QED BY <2>2, <2>3
<1> QED BY <1>1, <1>2

-----------------------------------------------------------------------------
(* What a client has been told keeps up with what the parser has handed    *)
(* over.                                                                   *)
LEMMA StoryOpens ==
  ASSUME TypeInv, PhaseInv, StreamInv, OpenStream
  PROVE  StreamInv'
<1>1. /\ pc = "upstream" /\ pc' = "stream" /\ UNCHANGED <<request, at, parser, ended, raw>>
      /\ request.kind = "mcp"
      /\ \E r \in Replies :
           answer' = Joined(EncodeHead(PartsOf(r)),
                            [contentType |-> "text/event-stream",
                             body |-> [t |-> "frames", bytes |-> <<>>]])
  BY DEF OpenStream
<1>2. at' = 0 /\ parser' = EmptyParser /\ ended' = FALSE /\ raw' = <<>>
  BY <1>1 DEF PhaseInv, StreamInv
<1>3. body' \in Seq(Documents) /\ LF \in Documents
  BY StreamOpens DEF Documents
<1>4. SubSeq(body', 1, at') = <<>>
  <2> DEFINE c == SubSeq(body', 1, 0)
  <2>1. 1 \in Int /\ 0 \in Int /\ \A i \in 1 .. 0 : body'[i] \in Documents
    OBVIOUS
  <2>2. c \in Seq(Documents) /\ Len(c) = (IF 1 <= 0 THEN 0 - 1 + 1 ELSE 0)
    BY <2>1, SubSeqProperties
  <2> HIDE DEF c
  <2>3. Len(c) = 0
    BY <2>2
  <2>4. c = <<>>
    BY <2>2, <2>3, EmptySeq
  <2> QED BY <1>2, <2>4 DEF c
<1>5. Consumed(Documents, parser', <<>>, SubSeq(body', 1, at'), ended') /\ Settled(parser', ended')
  BY <1>2, <1>3, <1>4, NothingConsumed
<1>6. StreamTold(<<>>)'
  <2>1. "body" \in DOMAIN answer' /\ answer'.body = [t |-> "frames", bytes |-> <<>>]
    BY <1>1 DEF Joined, EncodeHead
  <2>2. BytesOf(Told(<<>>, Methods')) = <<>> /\ raw' = ResultsOf(<<>>)
    BY <1>2, NoFramesTold
  <2> QED BY <2>1, <2>2 DEF StreamTold
<1>7. <<>> \in Seq(Seq(Documents))
  OBVIOUS
<1>8. Streamed'
  <2>1. answer' # NoAnswer /\ answer'.body.t = "frames"
    BY <1>6 DEF StreamTold, NoAnswer
  <2> QED BY <1>1, <2>1 DEF Streamed
<1> QED BY <1>1, <1>5, <1>6, <1>7, <1>8 DEF StreamInv

(* Bytes added to a body of frames. *)
LEMMA BytesAdded ==
  ASSUME NEW r, NEW bytes, NEW more, r = [t |-> "frames", bytes |-> bytes]
  PROVE  [r EXCEPT !.bytes = @ \o more] = [t |-> "frames", bytes |-> bytes \o more]
<1> DEFINE s == bytes \o more
           q == [r EXCEPT !.bytes = s]
<1>1. r.bytes = bytes /\ DOMAIN r = {"t", "bytes"} /\ r.t = "frames"
  OBVIOUS
<1>2. [r EXCEPT !.bytes = @ \o more] = q
  BY <1>1
<1> HIDE DEF s
<1>3. q = [t |-> "frames", bytes |-> s]
  OBVIOUS
<1> QED BY <1>2, <1>3 DEF s

(* Relaying a frame tells what is in it. *)
LEMMA StoryGoesOn ==
  ASSUME TypeInv, StreamInv, Relay
  PROVE  StreamInv'
<1> DEFINE D == Documents
           pending == parser.pending
           T == ToldDocs(D, Methods)
<1>1. pc = "stream" /\ UNCHANGED <<pc, body, request>> /\ Streamed
  BY DEF Relay, StreamInv
<1>0. PICK one : one = <<Head(pending)>>
  OBVIOUS
<1>2. PICK popped \in Seq(Seq(D)) :
        /\ Consumed(D, parser, popped, SubSeq(body, 1, at), ended)
        /\ Streamed => StreamTold(popped)
  BY DEF StreamInv
<1>3. /\ Settled(parser', ended') /\ one \in Seq(Seq(D)) /\ popped \o one \in Seq(Seq(D))
      /\ Consumed(D, parser', popped \o one, SubSeq(body', 1, at'), ended')
  BY <1>0, <1>2, RelayedParser
<1>4. Methods' = Methods
  BY <1>1 DEF Methods
<1> DEFINE methods == Methods
<1>5. Told(popped \o one, methods) = Told(popped, methods) \o Told(one, methods)
  <2> HIDE DEF methods
  <2> QED BY <1>2, <1>3, ToldJoins
<1>6. Told(popped, methods) \in Seq(T) /\ Told(one, methods) \in Seq(T) /\ Objects(T)
  BY <1>2, <1>3, ToldTyped, ToldObjects
<1>7. BytesOf(Told(popped, methods) \o Told(one, methods))
        = BytesOf(Told(popped, methods)) \o BytesOf(Told(one, methods))
  <2> HIDE DEF T, methods
  <2> QED BY <1>6, BytesJoin
<1>9. /\ ResultsOf(popped) \in Seq(AnswersIn(D))
      /\ ResultsOf(popped \o one) = ResultsOf(popped) \o ResultsOf(one)
  BY <1>2, <1>3, ResultsTyped, ResultsJoin
<1>8. StreamTold(popped \o one)'
  <2>1. /\ "body" \in DOMAIN answer
        /\ answer.body = [t |-> "frames", bytes |-> BytesOf(Told(popped, methods))]
        /\ raw = ResultsOf(popped)
    BY <1>1, <1>2 DEF StreamTold
  <2> DEFINE rs == ResultsOf(one)
             more == BytesOf(Told(one, methods))
  <2>2. CASE rs = <<>>
    <3>1. UNCHANGED <<answer, raw>>
      BY <1>0, <2>2 DEF Relay
    <3>6. raw' = ResultsOf(popped \o one)
      BY <1>9, <2>1, <2>2, <3>1, ConcatEmptySeq
    <3>2. Told(one, methods) = <<>>
      <4>1. Told(one, methods) = [i \in DOMAIN <<>> |-> EncodeResult(RewriteIfKnown(rs[i], methods))]
        BY <2>2 DEF Told, TellOf
      <4> HIDE DEF methods, rs
      <4> QED BY <4>1
    <3>3. more = <<>>
      BY <3>2, NoFramesTold
    <3>4. BytesOf(Told(popped, methods)) \in Seq(Bytes(T))
      <4> HIDE DEF T, methods
      <4> QED BY <1>6, BytesTyped
    <3>5. BytesOf(Told(popped \o one, methods)) = BytesOf(Told(popped, methods))
      <4> HIDE DEF T, methods
      <4> QED BY <1>5, <1>7, <3>3, <3>4, ConcatEmptySeq
    <3> QED BY <1>4, <2>1, <3>1, <3>5, <3>6 DEF StreamTold
  <2>3. CASE rs # <<>>
    <3> DEFINE response == [kind |-> "mcp", results |-> rs, parts |-> parts]
               rewritten == [i \in DOMAIN rs |-> RewriteIfKnown(rs[i], methods)]
    <3>1. /\ answer' = [answer EXCEPT !.body.bytes = @ \o Frames(Rewritten(response).results).bytes]
          /\ raw' = raw \o rs
      BY <1>0, <2>3 DEF Relay, RunStages
    <3>2. Rewritten(response).results = rewritten
      BY DEF Rewritten
    <3>3. Frames(rewritten).bytes = EncodeResults([i \in DOMAIN rewritten |-> <<EncodeResult(rewritten[i])>>])
      BY DEF Frames
    <3>4. [i \in DOMAIN rewritten |-> <<EncodeResult(rewritten[i])>>]
            = [i \in DOMAIN Told(one, methods) |-> <<Told(one, methods)[i]>>]
      <4> HIDE DEF methods, rs
      <4>1. Told(one, methods) = [i \in DOMAIN rs |-> EncodeResult(RewriteIfKnown(rs[i], methods))]
        BY DEF Told, TellOf, rs
      <4> QED BY <4>1
    <3>5. Frames(Rewritten(response).results).bytes = more
      <4> HIDE DEF rewritten, response, methods
      <4> QED BY <3>2, <3>3, <3>4 DEF BytesOf
    <3>8. raw' = ResultsOf(popped \o one)
      BY <1>9, <2>1, <3>1
    <3> HIDE DEF response, more, rs, rewritten
    <3>6. answer' = [answer EXCEPT !.body.bytes = @ \o more]
      BY <3>1, <3>5
    <3> DEFINE bytes == BytesOf(Told(popped, methods))
    <3>7. "body" \in DOMAIN answer' /\ answer'.body = [t |-> "frames", bytes |-> bytes \o more]
      <4>1. PICK r : r = answer.body
        OBVIOUS
      <4>2. r = [t |-> "frames", bytes |-> bytes]
        BY <2>1, <4>1
      <4> HIDE DEF bytes
      <4>3. "body" \in DOMAIN answer' /\ answer'.body = [r EXCEPT !.bytes = @ \o more]
        BY <2>1, <3>6, <4>1
      <4>4. [r EXCEPT !.bytes = @ \o more] = [t |-> "frames", bytes |-> bytes \o more]
        BY <4>2, BytesAdded
      <4> QED BY <4>3, <4>4
    <3> HIDE DEF bytes
    <3> QED BY <1>4, <1>5, <1>7, <3>7, <3>8 DEF StreamTold, bytes, more
  <2> QED BY <2>2, <2>3
<1>10. Streamed'
  <2>1. answer' # NoAnswer /\ answer'.body.t = "frames"
    BY <1>8 DEF StreamTold, NoAnswer
  <2> QED BY <1>1, <2>1 DEF Streamed
<1> QED BY <1>1, <1>3, <1>8, <1>10 DEF StreamInv

(* What is answered in one piece is no stream. *)
LEMMA NoStream ==
  ASSUME TypeInv, PhaseInv, StreamInv, [Next]_vars,
         ~OpenStream, ~Relay, ~Receive, ~BodyEnds, Streamed'
  PROVE  Streamed /\ UNCHANGED <<request, answer, raw>>
<1>1. CASE pc = "intake"
  <2>1. CASE Intake
    BY <1>1, <2>1 DEF Intake, StreamInv, Streamed
  <2>2. CASE BadBody \/ OpenGetSse
    BY <1>1, <2>2 DEF BadBody, OpenGetSse, PhaseInv, Streamed, NoRequest
  <2>3. CASE UNCHANGED vars
    BY <1>1, <2>3 DEF vars, StreamInv, Streamed
  <2> QED BY <1>1, <2>1, <2>2, <2>3 DEF Next, ServeOAuth, HandleHttpRequest, HandleMcpRequest,
           EmptyBatch, UpstreamFails, Receive, BodyEnds, BodyFails, StreamEnds, ClientLeaves, Tick
<1>2. CASE pc = "upstream"
  <2>1. answer = NoAnswer /\ Classified
    BY <1>2 DEF StreamInv, PhaseInv
  <2>2. request' = request /\ request.kind = "mcp"
    BY <1>2, Changes DEF Intake, Streamed
  <2>3. CASE answer' = answer
    BY <2>1, <2>3 DEF Streamed
  <2>4. CASE Fail
    BY <2>4 DEF Fail, BadGateway, Streamed
  <2>5. CASE HandleMcpRequest /\ ~Fail /\ answer' # answer
    <3>1. PICK r \in Replies :
            /\ ~IsEventStream(r.contentType)
            /\ \E all : Finish([kind |-> "mcp", results |-> all, parts |-> PartsOf(r)])
      BY <2>2, <2>5 DEF HandleMcpRequest
    <3>2. PICK all : Finish([kind |-> "mcp", results |-> all, parts |-> PartsOf(r)])
      BY <3>1
    <3> DEFINE response == [kind |-> "mcp", results |-> all, parts |-> PartsOf(r)]
               rs == Rewritten(response).results
               said == IF Len(rs) = 1 THEN EncodeResult(rs[1]) ELSE Arr(Encoded(rs))
    <3>3. answer' = Joined(EncodeHead(PartsOf(r)),
                           [contentType |-> "application/json", body |-> said])
      <4>1. PartsOf(r).contentType = r.contentType
        BY DEF PartsOf, EmptyParts
      <4> QED BY <3>1, <3>2, <4>1 DEF Finish, EncodeSingle
    <3> HIDE DEF said
    <3>4. answer'.body = said
      BY <3>3 DEF Joined, EncodeHead
    <3>5. said.t # "frames"
      BY DEF said, EncodeResult, Obj, Arr
    <3> QED BY <3>4, <3>5 DEF Streamed
  <2>6. CASE ServeOAuth \/ HandleHttpRequest \/ EmptyBatch
    BY <2>2, <2>6 DEF ServeOAuth, HandleHttpRequest, EmptyBatch, Forwards
  <2> QED BY <1>2, <2>3, <2>4, <2>5, <2>6 DEF Next, vars, Intake, BadBody, OpenGetSse, UpstreamFails,
           BodyFails, StreamEnds, ClientLeaves, Tick
<1>3. CASE pc \notin {"intake", "upstream"}
  <2>1. UNCHANGED <<request, answer>>
    BY <1>3, Changes DEF Intake
  <2>2. UNCHANGED raw
    BY <1>3 DEF Next, vars, Intake, BadBody, OpenGetSse, ServeOAuth, HandleHttpRequest,
         HandleMcpRequest, EmptyBatch, UpstreamFails,
         BodyFails, StreamEnds, ClientLeaves, Tick
  <2> QED BY <2>1, <2>2 DEF Streamed
<1> QED BY <1>1, <1>2, <1>3

LEMMA StreamStep ==
  ASSUME TypeInv, PhaseInv, StreamInv, [Next]_vars
  PROVE  StreamInv'
<1>1. CASE OpenStream
  BY <1>1, StoryOpens
<1>2. CASE Relay
  BY <1>2, StoryGoesOn
<1>3. PICK popped \in Seq(Seq(Documents)) :
        /\ Consumed(Documents, parser, popped, SubSeq(body, 1, at), ended)
        /\ Streamed => StreamTold(popped)
  BY DEF StreamInv
<1>4. CASE Receive \/ BodyEnds
  <2>1. pc = "stream" /\ UNCHANGED <<pc, body, answer, request, raw>>
    BY <1>4 DEF Receive, BodyEnds
  <2>2. /\ Settled(parser', ended')
        /\ Consumed(Documents, parser', popped, SubSeq(body', 1, at'), ended')
    BY <1>3, <1>4, ParserStep
  <2>3. Streamed' /\ StreamTold(popped)'
    BY <1>3, <2>1 DEF Streamed, StreamTold, Methods, StreamInv
  <2> QED BY <1>3, <2>1, <2>2, <2>3 DEF StreamInv
<1>5. CASE ~OpenStream /\ ~Relay /\ ~Receive /\ ~BodyEnds
  <2>1. UNCHANGED <<body, at, parser, ended>>
    BY <1>5, Changes
  <2>2. /\ pc' \in {"intake", "upstream"} =>
             pc \in {"intake", "upstream"} /\ UNCHANGED <<answer, raw>>
        /\ pc' = "stream" => pc = "stream" /\ UNCHANGED <<request, answer>>
    BY <1>5 DEF Next, vars, Intake, BadBody, OpenGetSse, ServeOAuth, HandleHttpRequest,
         HandleMcpRequest, EmptyBatch, UpstreamFails,
         BodyFails, StreamEnds, ClientLeaves, Tick, Finish, Fail
  <2>3. Streamed' => StreamTold(popped)'
    BY <1>3, <1>5, NoStream DEF StreamTold, Methods
  <2>4. pc' = "stream" => Streamed'
    BY <2>2 DEF StreamInv, Streamed
  <2> QED BY <1>3, <2>1, <2>2, <2>3, <2>4 DEF StreamInv
<1> QED BY <1>1, <1>2, <1>4, <1>5

-----------------------------------------------------------------------------
(* The log and the events about schemas keep up with what is answered.     *)
OfType(evs, type) == Only(evs, {e \in ToSet(evs) : e.type = type})

(* The events of one kind after the stages have added theirs. *)
LEMMA EventsAdded ==
  ASSUME NEW old, old \in Seq(ToSet(old)),
         NEW S, NEW made \in Seq(S), \A x \in S : x.type = "schema",
         NEW e, e.type = "request"
  PROVE  LET new == Append(old \o made, e)
         IN  /\ OfType(new, "request") = Append(OfType(old, "request"), e)
             /\ OfType(new, "schema") = OfType(old, "schema") \o made
             /\ ToSet(new) \subseteq ToSet(old) \cup S \cup {e}
<1> DEFINE A == ToSet(old)
           D == A \cup S \cup {e}
           K(type) == {x \in D : x.type = type}
           both == old \o made
           new == Append(both, e)
<1>1. old \in Seq(D) /\ made \in Seq(D) /\ e \in D
  <2>1. A \subseteq D /\ S \subseteq D /\ old \in Seq(A)
    OBVIOUS
  <2> HIDE DEF A
  <2>2. e \in D
    OBVIOUS
  <2> HIDE DEF D
  <2> QED BY <2>1, <2>2, SeqMonotonic
<1>2. ASSUME NEW s \in Seq(D), NEW type
      PROVE  OfType(s, type) = Only(s, K(type)) /\ ToSet(s) \subseteq D
  <2> DEFINE B == {x \in ToSet(s) : x.type = type}
             C == K(type)
  <2>1. ToSet(s) \subseteq D
    <3>1. DOMAIN s = 1 .. Len(s) /\ \A i \in 1 .. Len(s) : s[i] \in D
      BY LenProperties
    <3> HIDE DEF D
    <3> QED BY <3>1 DEF ToSet
  <2>2. \A d \in ToSet(s) : d \in B <=> d \in C
    BY <2>1
  <2> HIDE DEF B, C, D
  <2>3. Only(s, B) = Only(s, C)
    BY <2>2, OnlyAgrees
  <2> QED BY <2>1, <2>3 DEF OfType, B, C
<1>3. both \in Seq(D)
  <2> HIDE DEF D
  <2> QED BY <1>1, ConcatProperties
<1>4. new \in Seq(D)
  <2> HIDE DEF D, both
  <2> QED BY <1>1, <1>3, AppendProperties
<1>5. e \in K("request") /\ e \notin K("schema")
  BY <1>1
<1>6. (\A x \in S : x \notin K("request")) /\ S \subseteq K("schema")
  OBVIOUS
<1> DEFINE Q == K("request")
           M == K("schema")
<1> HIDE DEF D, K
<1>7. Only(made, Q) = <<>> /\ Only(made, M) = made
  BY <1>6, OnlyNone, OnlyAll
<1>8. Only(both, Q) = Only(old, Q) \o Only(made, Q) /\ Only(both, M) = Only(old, M) \o Only(made, M)
  BY <1>1, OnlyConcat
<1>9. Only(old, Q) \in Seq(D)
  BY <1>1, OnlyTyped
<1>10. Only(both, Q) = Only(old, Q) /\ Only(both, M) = Only(old, M) \o made
  BY <1>7, <1>8, <1>9, ConcatEmptySeq
<1>11. Only(new, Q) = Append(Only(both, Q), e) /\ Only(new, M) = Only(both, M)
  <2>1. KeepsGrowing(D, Q) /\ KeepsGrowing(D, M)
    BY OnlyGrows
  <2> HIDE DEF both, Q, M
  <2> QED BY <1>1, <1>3, <1>5, <2>1 DEF KeepsGrowing, Q, M
<1> HIDE DEF new
<1>12. /\ OfType(new, "request") = Only(new, Q) /\ OfType(old, "request") = Only(old, Q)
       /\ OfType(new, "schema") = Only(new, M) /\ OfType(old, "schema") = Only(old, M)
       /\ ToSet(new) \subseteq D
  BY <1>1, <1>2, <1>4
<1> QED BY <1>10, <1>11, <1>12 DEF new, both, D

(* What the events about requests log, one after the other. *)
LoggedIn(reqs) ==
  FlattenSeq([i \in DOMAIN reqs |-> Encoded(reqs[i].response.results)])

LogGrowsBy(reqs, e) ==
  LoggedIn(Append(reqs, e)) = LoggedIn(reqs) \o Encoded(e.response.results)

LogsWithin(K, L) == \A e \in K : Encoded(e.response.results) \in Seq(L)

LEMMA LoggedGrows ==
  ASSUME NEW L, NEW K, LogsWithin(K, L),
         NEW reqs \in Seq(K), NEW e \in K
  PROVE  LogGrowsBy(reqs, e)
<1> DEFINE G == [x \in K |-> Encoded(x.response.results)]
           more == Append(reqs, e)
<1>1. G \in [K -> Seq(L)] /\ G[e] = Encoded(e.response.results)
  BY DEF LogsWithin
<1>2. ASSUME NEW s \in Seq(K)
      PROVE  LoggedIn(s) = Spread(s, G)
  <2>1. DOMAIN s = 1 .. Len(s) /\ \A i \in 1 .. Len(s) : s[i] \in K
    BY LenProperties
  <2>2. [i \in DOMAIN s |-> Encoded(s[i].response.results)] = Mapped(s, G)
    BY <2>1 DEF Mapped
  <2> QED BY <2>2 DEF LoggedIn, Spread
<1>3. more \in Seq(K)
  BY AppendProperties
<1> HIDE DEF G
<1>4. Spread(more, G) = Spread(reqs, G) \o G[e]
  BY <1>1, SpreadGrows
<1> HIDE DEF more
<1> QED BY <1>1, <1>2, <1>3, <1>4 DEF more, LogGrowsBy

(* The events about schemas of one result after the other. *)
SchemaF(methods) == [r \in Answers |-> SchemaEventsOf(r, methods)]
SchemaSet(methods) == UNION {ToSet(SchemaEventsOf(r, methods)) : r \in Answers}

LEMMA SchemaEventsSpread ==
  ASSUME NEW rs \in Seq(Answers), NEW methods
  PROVE  /\ SchemaF(methods) \in [Answers -> Seq(SchemaSet(methods))]
         /\ SchemaEvents(rs, methods) = Spread(rs, SchemaF(methods))
         /\ \A e \in SchemaSet(methods) : e.type = "schema"
<1> DEFINE S == SchemaSet(methods)
<1>1. ASSUME NEW r \in Answers
      PROVE  SchemaEventsOf(r, methods) \in Seq(S)
  <2> DEFINE s == SchemaEventsOf(r, methods)
             B == ToSet(s)
  <2>1. s \in Seq(B) /\ B \subseteq S
    BY SchemaEventsOfTyped DEF SchemaSet
  <2> HIDE DEF B, S, s
  <2>2. s \in Seq(S)
    BY <2>1, SeqMonotonic
  <2> QED BY <2>2 DEF s
<1>2. \A e \in S : e.type = "schema"
  BY SchemaEventsOfTyped DEF SchemaSet
<1>3. DOMAIN rs = 1 .. Len(rs) /\ \A i \in 1 .. Len(rs) : rs[i] \in Answers
  BY LenProperties
<1>4. [i \in DOMAIN rs |-> SchemaEventsOf(rs[i], methods)] = Mapped(rs, SchemaF(methods))
  BY <1>3 DEF Mapped, SchemaF
<1>5. SchemaF(methods) \in [Answers -> Seq(S)]
  BY <1>1 DEF SchemaF
<1> HIDE DEF S
<1> QED BY <1>2, <1>4, <1>5 DEF SchemaEvents, Spread, S

(* The event e logs the response as it is sent, but for its resources.     *)
LogsResponse(e, response, methods) ==
  /\ e.type = "request"
  /\ e.response.kind = response.kind
  /\ Encoded(e.response.results) = Mapped(response.results, LogF(methods))

LEMMA ResponseLogged ==
  ASSUME NEW response, Response(response), NEW routerEnd, NEW bodyEnd
  PROVE  LogsResponse(RequestEvent(Rewritten(response), routerEnd, bodyEnd), response, Methods)
<1> DEFINE e == RequestEvent(Rewritten(response), routerEnd, bodyEnd)
           rs == response.results
           methods == Methods
           before == Rewritten(response)
           rewritten == [i \in DOMAIN rs |-> RewriteIfKnown(rs[i], methods)]
           logged == [i \in DOMAIN rs |-> SlimResult(RewriteIfKnown(rs[i], methods), methods)]
<1>1. /\ before.results = rewritten /\ before.kind = response.kind
      /\ "results" \in DOMAIN before /\ "kind" \in DOMAIN before
  BY DEF Rewritten, Response
<1>2. before # NoResponse
  BY <1>1 DEF NoResponse, Response
<1>3. e.response = LoggedResponse(before, methods)
  BY <1>2, RequestEventFields
<1> HIDE DEF before, e
<1>4. /\ LoggedResponse(before, methods).kind = before.kind
      /\ LoggedResponse(before, methods).results
           = [i \in DOMAIN before.results |-> SlimResult(before.results[i], methods)]
  BY <1>1 DEF LoggedResponse
<1>5. [i \in DOMAIN before.results |-> SlimResult(before.results[i], methods)] = logged
  BY <1>1
<1>6. e.response.results = logged /\ e.response.kind = response.kind
  BY <1>1, <1>3, <1>4, <1>5
<1>7. rs \in Seq(Answers) /\ DOMAIN rs = 1 .. Len(rs) /\ \A i \in 1 .. Len(rs) : rs[i] \in Answers
  BY LenProperties DEF Response
<1>8. Encoded(logged) = Mapped(rs, LogF(methods))
  BY <1>7 DEF Encoded, Mapped, LogF, LogDocOf
<1>9. e.type = "request"
  BY RequestEventFields DEF e
<1> HIDE DEF logged, methods
<1> QED BY <1>6, <1>8, <1>9 DEF LogsResponse, e, rs, methods

(* Nothing has come of no results. *)
LEMMA NothingStaged ==
  ASSUME raw = <<>>, events = <<>>
  PROVE  StagesKept /\ RequestEvents = <<>>
<1> DEFINE e == <<>>
           m == Methods
           none == {x \in Answers : FALSE}
<1>1. e \in Seq(Answers) /\ e \in Seq({}) /\ \A S : S = {} => e \in Seq(S)
  OBVIOUS
<1>2. ToSet(e) = {}
  BY DEF ToSet
<1>3. RequestEvents = <<>> /\ SchemaEventsSent = <<>>
  BY <1>1, <1>2, OnlyNone DEF RequestEvents, SchemaEventsSent, EventsOfType
<1>4. Logged = <<>>
  <2>1. [i \in DOMAIN e |-> Encoded(RequestEvents[i].response.results)] = e
    OBVIOUS
  <2>2. FlattenSeq(e) = e
    BY DEF FlattenSeq
  <2> QED BY <1>3, <2>1, <2>2 DEF Logged
<1>5. Mapped(e, LogF(m)) = e /\ Spread(e, SchemaF(m)) = e
  <2>1. [i \in DOMAIN e |-> LogF(m)[e[i]]] = e /\ [i \in DOMAIN e |-> SchemaF(m)[e[i]]] = e
    OBVIOUS
  <2>2. FlattenSeq(e) = e
    BY DEF FlattenSeq
  <2> QED BY <2>1, <2>2 DEF Mapped, Spread
<1>6. SchemaEvents(e, m) = e
  BY <1>1, <1>5, SchemaEventsSpread
<1> QED BY <1>1, <1>2, <1>3, <1>4, <1>5, <1>6 DEF StagesKept

(* The events about the schemas of more results come after the others.     *)
LEMMA SchemaEventsGoOn ==
  ASSUME NEW before \in Seq(Answers), NEW rs \in Seq(Answers), NEW methods
  PROVE  /\ SchemaEvents(rs, methods) \in Seq(SchemaSet(methods))
         /\ SchemaEvents(before \o rs, methods)
              = SchemaEvents(before, methods) \o SchemaEvents(rs, methods)
<1> DEFINE G == SchemaF(methods)
           S == SchemaSet(methods)
           all == before \o rs
<1>1. all \in Seq(Answers)
  BY ConcatProperties
<1>2. G \in [Answers -> Seq(S)]
  BY SchemaEventsSpread
<1> HIDE DEF G, S
<1>3. Spread(rs, G) \in Seq(S) /\ Spread(before \o rs, G) = Spread(before, G) \o Spread(rs, G)
  <2>1. G \in Spreading(Answers, S)
    BY <1>2 DEF Spreading
  <2> QED BY <2>1, SpreadConcat
<1> HIDE DEF all
<1>4. /\ SchemaEvents(rs, methods) = Spread(rs, G)
      /\ SchemaEvents(before, methods) = Spread(before, G)
      /\ SchemaEvents(all, methods) = Spread(all, G)
  BY <1>1, SchemaEventsSpread DEF G
<1> QED BY <1>3, <1>4 DEF all, S

(* A response that goes through the stages is logged and announced.        *)
LEMMA StagesGoOn ==
  ASSUME events \in Seq(ToSet(events)), StagesKept, NEW rs \in Seq(Answers),
         NEW e, e.type = "request",
         Encoded(e.response.results) = Mapped(rs, LogF(Methods)),
         raw' = raw \o rs, events' = Append(events \o SchemaEvents(rs, Methods), e),
         Methods' = Methods
  PROVE  /\ StagesKept'
         /\ RequestEvents' = Append(RequestEvents, e)
         /\ \A x \in ToSet(events') : x.type = "request" => x \in ToSet(events) \/ x = e
<1> DEFINE m == Methods
           S == SchemaSet(m)
           made == SchemaEvents(rs, m)
           A == ToSet(events)
           L == LogDocs(m)
           F == LogF(m)
<1>1. raw \in Seq(Answers) /\ raw' \in Seq(Answers)
  BY ConcatProperties DEF StagesKept
<1>2. \A x \in S : x.type = "schema"
  BY <1>1, SchemaEventsSpread
<1>3. F \in [Answers -> L]
  BY DEF LogF, LogDocs
<1>0. events' = Append(events \o made, e)
  OBVIOUS
<1>4. made \in Seq(S) /\ SchemaEvents(raw \o rs, m) = SchemaEvents(raw, m) \o made
  BY <1>1, SchemaEventsGoOn
<1> HIDE DEF m, S, L, F, made
<1>5. Mapped(raw', F) = Mapped(raw, F) \o Mapped(rs, F)
  <2>1. F \in Mapping(Answers, L)
    BY <1>1, <1>3 DEF Mapping
  <2> QED BY <1>1, <1>3, <2>1, MappedConcat
<1>6. Mapped(rs, F) \in Seq(L)
  BY <1>3, MappedList DEF MapsTo
<1>7. /\ OfType(events', "request") = Append(OfType(events, "request"), e)
      /\ OfType(events', "schema") = OfType(events, "schema") \o made
      /\ ToSet(events') \subseteq A \cup S \cup {e}
  <2> DEFINE new == Append(events \o made, e)
  <2>1. /\ OfType(new, "request") = Append(OfType(events, "request"), e)
        /\ OfType(new, "schema") = OfType(events, "schema") \o made
        /\ ToSet(new) \subseteq A \cup S \cup {e}
    BY <1>2, <1>4, EventsAdded
  <2> QED BY <2>1, <1>0
<1> HIDE DEF A
<1>8. /\ RequestEvents' = Append(RequestEvents, e)
      /\ SchemaEventsSent' = SchemaEventsSent \o made
  BY <1>7 DEF RequestEvents, SchemaEventsSent, EventsOfType, OfType
<1>9. ASSUME NEW x \in ToSet(events'), x.type = "request"
      PROVE  x \in A \/ x = e
  BY <1>2, <1>7, <1>9
<1> DEFINE K == {x \in A \cup {e} : x.type = "request"}
<1>10. LogsWithin(K, L)
  BY <1>6 DEF LogsWithin, StagesKept, A, L, F, m
<1>11. RequestEvents \in Seq(K) /\ e \in K
  <2> DEFINE B == {x \in A : x.type = "request"}
             C == A \cap B
  <2>1. RequestEvents \in Seq(C)
    BY OnlyKeeps DEF RequestEvents, EventsOfType, A
  <2>2. C \subseteq K
    OBVIOUS
  <2> HIDE DEF C, K
  <2>3. RequestEvents \in Seq(K)
    BY <2>1, <2>2, SeqMonotonic
  <2> QED BY <2>3 DEF K
<1>12. Logged = LoggedIn(RequestEvents) /\ Logged' = LoggedIn(RequestEvents')
  BY DEF Logged, LoggedIn
<1> HIDE DEF K
<1>13. LoggedIn(Append(RequestEvents, e)) = LoggedIn(RequestEvents) \o Encoded(e.response.results)
  <2> DEFINE reqs == RequestEvents
  <2>1. reqs \in Seq(K) /\ e \in K
    BY <1>11
  <2> HIDE DEF reqs
  <2>2. LogGrowsBy(reqs, e)
    BY <1>10, <2>1, LoggedGrows
  <2> QED BY <2>2 DEF reqs, LogGrowsBy
<1>14. Logged' = Mapped(raw', F)
  BY <1>5, <1>8, <1>12, <1>13 DEF StagesKept, F, m
<1>15. SchemaEventsSent' = SchemaEvents(raw', m)
  <2>1. SchemaEventsSent = SchemaEvents(raw, m)
    BY DEF StagesKept, m
  <2> QED BY <1>4, <1>8, <2>1
<1>16. \A x \in ToSet(events') : x.type = "request" => Encoded(x.response.results) \in Seq(L)
  BY <1>9, <1>10 DEF LogsWithin, K
<1> QED BY <1>1, <1>8, <1>9, <1>14, <1>15, <1>16 DEF StagesKept, A, L, F, m

-----------------------------------------------------------------------------
(* What a client reads off the body of an answer.                          *)
ReadBody(b) ==
  CASE b.t = "frames" ->
         LET frames == DecodeFrames(b.bytes)
         IN  [i \in DOMAIN frames |-> Parse(frames[i])]
    [] b.t = "array" -> b.items
    [] OTHER -> <<b>>

EntryOf(doc, methods) ==
  LET list == ListOf[MethodOf(methods, Get(doc, "id"))]
      items == ItemsOf(Get(Get(doc, "result"), list.array))
  IN  IF MethodOf(methods, Get(doc, "id")) \notin DOMAIN ListOf THEN <<>>
      ELSE Only(items, {item \in ToSet(items) : \A key \in list.needs : Has(item, key)})

EntriesIn(docs, methods) == FlattenSeq([i \in DOMAIN docs |-> EntryOf(docs[i], methods)])

LEMMA AnswerRead ==
  /\ answer # NoAnswer => Answered = ReadBody(answer.body)
  /\ \A docs : EntriesOf(docs) = EntriesIn(docs, Methods)
<1>1. answer # NoAnswer => Answered = ReadBody(answer.body)
  BY DEF Answered, ReadBody
<1>2. ASSUME NEW docs
      PROVE  EntriesOf(docs) = EntriesIn(docs, Methods)
  <2>1. \A doc : Entries(doc) = EntryOf(doc, Methods)
    BY DEF Entries, EntryOf
  <2> QED BY <2>1 DEF EntriesOf, EntriesIn
<1> QED BY <1>1, <1>2

(* Of documents without entries there are none.                            *)
LEMMA NoEntriesOf ==
  ASSUME NEW X, NEW docs \in Seq(X), NEW methods, \A d \in X : EntryOf(d, methods) = <<>>
  PROVE  EntriesIn(docs, methods) = <<>>
<1> DEFINE G == [d \in X |-> EntryOf(d, methods)]
           T == {s \in Seq(X) : Spread(s, G) = <<>>}
           e == <<>>
<1>0. e \in Seq(X) /\ e \in Seq({}) /\ e \o e = e
  OBVIOUS
<1>1. G \in [X -> Seq({})] /\ \A d \in X : G[d] = <<>>
  <2> DEFINE L == Seq({})
  <2>1. e \in L
    BY <1>0
  <2>2. \A d \in X : EntryOf(d, methods) \in L
    BY <2>1
  <2> HIDE DEF L
  <2>3. G \in [X -> L]
    BY <2>2
  <2> QED BY <2>3 DEF L
<1> HIDE DEF G
<1>2. e \in T
  <2>1. CASE X = {}
    <3>1. Mapped(e, G) = e
      <4>1. [i \in DOMAIN e |-> G[e[i]]] = e
        OBVIOUS
      <4> QED BY <4>1 DEF Mapped
    <3>2. FlattenSeq(e) = e
      BY DEF FlattenSeq
    <3> QED BY <1>0, <3>1, <3>2 DEF Spread
  <2>2. CASE X # {}
    <3>1. PICK d \in X : TRUE
      BY <2>2
    <3>2. Spread(e, G) = <<>>
      BY <1>0, <1>1, SpreadGrows
    <3> QED BY <1>0, <3>2
  <2> QED BY <2>1, <2>2
<1>3. ASSUME NEW s \in Seq(X), NEW d \in X, s \in T
      PROVE  Append(s, d) \in T
  <2>1. Spread(Append(s, d), G) = Spread(s, G) \o G[d]
    BY <1>1, SpreadGrows
  <2>2. Append(s, d) \in Seq(X)
    BY AppendProperties
  <2>3. Spread(s, G) \o G[d] = <<>>
    BY <1>0, <1>1, <1>3
  <2> QED BY <2>1, <2>2, <2>3
<1> HIDE DEF T
<1>4. Seq(X) \subseteq T
  BY <1>2, <1>3, ListInduction
<1>5. [i \in DOMAIN docs |-> EntryOf(docs[i], methods)] = Mapped(docs, G)
  <2>1. DOMAIN docs = 1 .. Len(docs) /\ \A i \in 1 .. Len(docs) : docs[i] \in X
    BY LenProperties
  <2> QED BY <2>1 DEF Mapped, G
<1> QED BY <1>4, <1>5 DEF T, EntriesIn, Spread

LEMMA UnknownHasNone ==
  /\ \A doc, methods : DOMAIN methods = {} => EntryOf(doc, methods) = <<>>
  /\ \A doc, methods : ~IsObject(doc) => EntryOf(doc, methods) = <<>>
<1>1. "none" \notin DOMAIN ListOf
  BY DEF ListOf
<1>2. ASSUME NEW doc, NEW methods, DOMAIN methods = {}
      PROVE  EntryOf(doc, methods) = <<>>
  <2>1. MethodOf(methods, Get(doc, "id")) = "none"
    BY <1>2 DEF MethodOf
  <2> QED BY <1>1, <2>1 DEF EntryOf
<1>3. ASSUME NEW doc, NEW methods, ~IsObject(doc)
      PROVE  EntryOf(doc, methods) = <<>>
  <2> DEFINE e == <<>>
             list == ListOf[MethodOf(methods, Get(doc, "id"))]
             S == {item \in ToSet(e) : \A key \in list.needs : Has(item, key)}
  <2>1. Get(doc, "result") = Missing
    BY <1>3 DEF Get
  <2>2. \A key : Get(Missing, key) = Missing
    BY DEF Get, Missing, IsObject
  <2>3. ItemsOf(Missing) = <<>>
    BY DEF ItemsOf, IsArray, Missing
  <2>4. EntryOf(doc, methods) = e \/ EntryOf(doc, methods) = Only(e, S)
    BY <2>1, <2>2, <2>3 DEF EntryOf
  <2> DEFINE D == {}
  <2>5. e \in Seq(D) /\ \A d \in D : d \notin S
    OBVIOUS
  <2> HIDE DEF S, D, e
  <2>6. Only(e, S) = <<>>
    BY <2>5, OnlyNone
  <2> QED BY <2>4, <2>6 DEF e
<1> QED BY <1>2, <1>3

LEMMA NoRpcsNoMethods ==
  ASSUME NEW q, q.rpcs = <<>>
  PROVE  DOMAIN ClientMethodsOf(q) = {}
BY DEF ClientMethodsOf

(* What the server answered is read as a list of documents.                *)
LEMMA RepliesRead ==
  ASSUME NEW r \in Replies
  PROVE  \E X : ReadBody(r.body) \in Seq(X)
<1> DEFINE b == r.body
           bytes == b.bytes
           B == ToSet(bytes)
           frames == DecodeFrames(bytes)
           texts == [i \in DOMAIN frames |-> Parse(frames[i])]
           X == ToSet(texts)
<1>1. CASE b.t = "frames"
  <2> DEFINE D == B \cup {LF}
  <2>1. bytes \in Seq(B)
    BY <1>1, ExchangeAssumption
  <2>2. B \subseteq D /\ LF \in D
    OBVIOUS
  <2> HIDE DEF B, D
  <2>3. bytes \in Seq(D)
    BY <2>1, <2>2, SeqMonotonic
  <2> HIDE DEF bytes
  <2>4. frames \in Seq(Seq(D))
    BY <2>2, <2>3, DecodeFramesTyped
  <2> HIDE DEF frames
  <2>5. Len(frames) \in Nat /\ DOMAIN frames = 1 .. Len(frames)
    BY <2>4, LenProperties
  <2>6. texts \in [1 .. Len(frames) -> X]
    BY <2>5 DEF ToSet
  <2> HIDE DEF texts
  <2>7. texts \in Seq(X)
    BY <2>5, <2>6, FunctionIsList
  <2>8. ReadBody(b) = texts
    BY <1>1 DEF ReadBody, texts, frames, bytes
  <2> QED BY <2>7, <2>8
<1>2. CASE b.t = "array"
  <2>1. b.items \in Seq(ToSet(b.items))
    BY <1>2, ExchangeAssumption DEF ProperList, ItemsOf, IsArray
  <2> QED BY <1>2, <2>1 DEF ReadBody
<1>3. CASE b.t \notin {"frames", "array"}
  <2>1. ReadBody(b) = <<b>>
    BY <1>3 DEF ReadBody
  <2>2. <<b>> \in Seq({b})
    OBVIOUS
  <2> QED BY <2>1, <2>2
<1> QED BY <1>1, <1>2, <1>3

(* What the encoder says of a response is read as the results, rewritten.  *)
LEMMA EncoderSays ==
  ASSUME NEW response, Response(response), response.kind # "http"
  PROVE  /\ ReadBody(EncodeSingle(response).body) = TellOf(response.results, Methods)
         /\ EncodeSingle(response) # NoAnswer
<1> DEFINE rs == response.results
           methods == Methods
           rewritten == [i \in DOMAIN rs |-> RewriteIfKnown(rs[i], methods)]
           docs == TellOf(rs, methods)
           T == TellDocs(Answers, methods)
           p == response.parts
<1>1. Rewritten(response).results = rewritten
  BY DEF Rewritten, Response
<1>2. docs \in Seq(T) /\ Objects(T)
  <2>1. \A members : Obj(members).t = "object"
    BY DEF Obj
  <2>2. \A r : EncodeResult(r).t = "object"
    BY <2>1 DEF EncodeResult
  <2> QED BY <2>2, TellComposed DEF Response, Objects, TellDocs
<1>3. Encoded(rewritten) = docs
  BY DEF Encoded, TellOf
<1>4. Len(rs) \in Nat /\ DOMAIN rs = 1 .. Len(rs) /\ rewritten = [i \in 1 .. Len(rs) |-> RewriteIfKnown(rs[i], methods)]
  BY LenProperties DEF Response
<1> DEFINE said == IF IsEventStream(p.contentType)
             THEN [contentType |-> "text/event-stream", body |-> Frames(rewritten)]
             ELSE [contentType |-> "application/json",
                   body |-> IF Len(rewritten) = 1 THEN EncodeResult(rewritten[1])
                                                  ELSE Arr(Encoded(rewritten))]
<1>5. EncodeSingle(response) = Joined(EncodeHead(p), said)
  <2> HIDE DEF rewritten
  <2> QED BY <1>1 DEF EncodeSingle
<1>6. EncodeSingle(response).body = said.body /\ "body" \in DOMAIN EncodeSingle(response)
  <2>1. "body" \in DOMAIN said /\ "body" \notin DOMAIN EncodeHead(p)
    BY DEF EncodeHead
  <2> HIDE DEF said
  <2> QED BY <1>5, <2>1 DEF Joined
<1>7. EncodeSingle(response) # NoAnswer
  <2>1. "body" \notin DOMAIN NoAnswer
    BY DEF NoAnswer
  <2> QED BY <1>6, <2>1
<1>8. ReadBody(said.body) = docs
  <2>1. CASE IsEventStream(p.contentType)
    <3> DEFINE frames == DecodeFrames(BytesOf(docs))
    <3>1. said.body = Frames(rewritten)
      BY <2>1
    <3>2. [i \in DOMAIN rewritten |-> <<EncodeResult(rewritten[i])>>] = [i \in DOMAIN docs |-> <<docs[i]>>]
      BY DEF TellOf
    <3> HIDE DEF docs, rewritten, T
    <3>3. Frames(rewritten) = [t |-> "frames", bytes |-> BytesOf(docs)]
      BY <3>2 DEF Frames, BytesOf
    <3>4. [i \in DOMAIN frames |-> Parse(frames[i])] = docs
      BY <1>2, BytesRead
    <3> QED BY <3>1, <3>3, <3>4 DEF ReadBody
  <2>2. CASE ~IsEventStream(p.contentType) /\ Len(rewritten) = 1
    <3> DEFINE one == EncodeResult(rewritten[1])
    <3>1. said.body = one
      BY <2>2
    <3>2. Len(rewritten) = Len(rs)
      <4>1. DOMAIN rewritten = 1 .. Len(rs) /\ rewritten \in [1 .. Len(rs) -> ToSet(rewritten)]
        BY <1>4 DEF ToSet
      <4> HIDE DEF rewritten
      <4> QED BY <1>4, <4>1, FunctionIsList
    <3>3. docs = <<one>>
      <4>1. DOMAIN docs = 1 .. 1 /\ docs[1] = one
        BY <1>4, <2>2, <3>2 DEF TellOf
      <4>2. Len(docs) = 1
        BY <1>2, <4>1, LenProperties
      <4> HIDE DEF docs, one, T
      <4> QED BY <1>2, <4>1, <4>2
    <3>4. one.t = "object"
      BY DEF EncodeResult, Obj
    <3> HIDE DEF one, docs, said
    <3> QED BY <3>1, <3>3, <3>4 DEF ReadBody
  <2>3. CASE ~IsEventStream(p.contentType) /\ Len(rewritten) # 1
    <3>1. said.body = Arr(docs)
      BY <1>3, <2>3
    <3> HIDE DEF docs, said
    <3> QED BY <3>1 DEF ReadBody, Arr
  <2> QED BY <2>1, <2>2, <2>3
<1> HIDE DEF said, docs
<1> QED BY <1>6, <1>7, <1>8 DEF docs

(* A reply that is no MCP has no results.                                  *)
LEMMA HttpIsEmpty ==
  ASSUME NEW r \in Replies, FromHyper(r).kind = "http"
  PROVE  FromHyper(r).results = <<>>
<1> DEFINE streamed == IF r.body.t = "frames"
                       THEN ResultsOf(DecodeFrames(r.body.bytes)) ELSE <<>>
           listed == [i \in DOMAIN r.body.items |-> ResultOf(r.body.items[i])]
           single == <<ResultOf(r.body)>>
<1> HIDE DEF streamed, listed, single
<1>1. \/ FromHyper(r) = [kind |-> "batch", results |-> listed]
      \/ FromHyper(r) = [kind |-> "mcp", results |-> single]
      \/ FromHyper(r) = [kind |-> IF Len(streamed) = 1 THEN "mcp" ELSE "batch",
                         results |-> streamed]
      \/ FromHyper(r) = [kind |-> "http", results |-> <<>>]
  BY DEF FromHyper, streamed, listed, single
<1> QED BY <1>1

(* The first event is the only one.                                        *)
LEMMA OneEvent ==
  ASSUME NEW new, NEW e, new = Append(<<>>, e)
  PROVE  Len(new) = 1 /\ ToSet(new) = {e} /\ <<>> \o <<>> = <<>>
<1>1. new \in Seq({e}) /\ Len(new) = 1 /\ DOMAIN new = 1 .. 1 /\ new[1] = e
  OBVIOUS
<1> QED BY <1>1 DEF ToSet

(* An exchange that ends at once is logged once, as it is answered.        *)
LEMMA FinishTells ==
  ASSUME TypeInv, PhaseInv, StreamInv, pc = "upstream", request' = request,
         NEW response, Response(response), Finish(response),
         response.kind = "http" =>
           /\ response.results = <<>> /\ request.rpcs = <<>>
           /\ \E X : ReadBody(response.body) \in Seq(X)
  PROVE  StagesInv'
<1> DEFINE e == RequestEvent(Rewritten(response), now, Running)
           rs == response.results
           methods == Methods
<1>1. raw = <<>> /\ events = <<>>
  BY DEF StreamInv, PhaseInv
<1>2. StagesKept /\ RequestEvents = <<>>
  BY <1>1, NothingStaged
<1>3. /\ raw' = raw \o rs /\ events' = Append(events \o SchemaEvents(rs, Methods), e)
      /\ pc' = "done" /\ answer' = EncodeSingle(response)
  BY DEF Finish, RunStages
<1>4. Methods' = Methods
  BY DEF Methods
<1>5. /\ e.response.kind = response.kind
      /\ Encoded(e.response.results) = Mapped(rs, LogF(Methods))
  <2>1. LogsResponse(e, response, methods)
    BY ResponseLogged
  <2> QED BY <2>1 DEF LogsResponse
<1>6. e.type = "request"
  BY RequestEventFields
<1>7. rs \in Seq(Answers) /\ events \in Seq(ToSet(events))
  BY DEF Response, TypeInv
<1>0. ToSet(events) = {}
  BY <1>1 DEF ToSet
<1> HIDE DEF e, rs
<1>8. /\ StagesKept'
      /\ RequestEvents' = Append(RequestEvents, e)
      /\ \A x \in ToSet(events') : x.type = "request" => x \in ToSet(events) \/ x = e
  BY <1>2, <1>3, <1>4, <1>5, <1>6, <1>7, StagesGoOn
<1>9. Len(RequestEvents') = 1
  BY <1>2, <1>8, OneEvent
<1>10. raw' = rs
  BY <1>1, <1>3, <1>7, ConcatEmptySeq
<1>11. Buffered'
  <2>1. CASE response.kind # "http"
    <3>1. answer' # NoAnswer /\ ReadBody(answer'.body) = TellOf(rs, Methods)
      BY <1>3, <2>1, EncoderSays DEF rs
    <3>2. Answered' = ReadBody(answer'.body)
      BY <3>1 DEF Answered, ReadBody
    <3>3. Answered' = TellOf(raw', Methods')
      BY <1>4, <1>10, <3>1, <3>2
    <3> QED BY <3>3 DEF Buffered
  <2>2. CASE response.kind = "http"
    <3>1. answer'.body = response.body /\ "body" \in DOMAIN answer'
      BY <1>3, <2>2 DEF EncodeSingle
    <3>2. answer' # NoAnswer
      BY <3>1 DEF NoAnswer
    <3>3. Answered' = ReadBody(response.body)
      BY <3>1, <3>2 DEF Answered, ReadBody
    <3>4. DOMAIN methods = {}
      BY <2>2, NoRpcsNoMethods DEF Methods
    <3>5. PICK X : ReadBody(response.body) \in Seq(X)
      BY <2>2
    <3> HIDE DEF methods
    <3>6. \A d \in X : EntryOf(d, methods) = <<>>
      BY <3>4, UnknownHasNone
    <3>7. EntriesIn(ReadBody(response.body), methods) = <<>>
      BY <3>5, <3>6, NoEntriesOf
    <3>8. EntriesOf(Answered)' = EntriesIn(ReadBody(response.body), methods)
      <4>1. \A doc : Entries(doc)' = EntryOf(doc, methods)
        BY <1>4 DEF Entries, EntryOf, methods
      <4> QED BY <3>3, <4>1 DEF EntriesOf, EntriesIn
    <3>9. \A x \in ToSet(events') : x.type = "request" => ~AnswersMcp(x)
      BY <1>0, <1>5, <1>8, <2>2 DEF AnswersMcp
    <3>10. raw' = <<>>
      BY <1>10, <2>2 DEF rs
    <3> QED BY <3>7, <3>8, <3>9, <3>10 DEF Buffered
  <2> QED BY <2>1, <2>2
<1> QED BY <1>8, <1>9, <1>11 DEF StagesInv

(* Nothing is told of a failure, and it is logged.                         *)
LEMMA FailTells ==
  ASSUME TypeInv, PhaseInv, StreamInv, pc = "upstream", request' = request, Fail
  PROVE  StagesInv'
<1> DEFINE e == RequestEvent(NoResponse, routed, firstItem)
           rs == <<>>
           methods == Methods
           text == [t |-> "text"]
<1>1. raw = <<>> /\ events = <<>>
  BY DEF StreamInv, PhaseInv
<1>2. StagesKept /\ RequestEvents = <<>>
  BY <1>1, NothingStaged
<1>4. Methods' = Methods
  BY DEF Methods
<1>5. e.response = NoResponse /\ e.type = "request"
  BY RequestEventFields
<1>7. rs \in Seq(Answers) /\ events \in Seq(ToSet(events)) /\ rs \o rs = rs
  BY DEF TypeInv
<1>6. Encoded(NoResponse.results) = rs /\ Mapped(rs, LogF(methods)) = rs
  <2>1. NoResponse.results = rs
    BY DEF NoResponse
  <2>2. [i \in DOMAIN rs |-> EncodeResult(rs[i])] = rs /\ [i \in DOMAIN rs |-> LogF(methods)[rs[i]]] = rs
    OBVIOUS
  <2> QED BY <2>1, <2>2 DEF Encoded, Mapped
<1>3. SchemaEvents(rs, methods) = rs
  <2>1. [i \in DOMAIN rs |-> SchemaEventsOf(rs[i], methods)] = rs
    OBVIOUS
  <2>2. FlattenSeq(rs) = rs
    BY DEF FlattenSeq
  <2> QED BY <2>1, <2>2 DEF SchemaEvents
<1>0. /\ raw' = raw \o rs /\ events' = Append(events \o SchemaEvents(rs, Methods), e)
      /\ pc' = "done" /\ answer' = BadGateway /\ raw' = <<>>
  BY <1>1, <1>3, <1>7 DEF Fail
<1>8. ToSet(events) = {}
  BY <1>1 DEF ToSet
<1> HIDE DEF e, rs
<1>9. /\ StagesKept'
      /\ RequestEvents' = Append(RequestEvents, e)
      /\ \A x \in ToSet(events') : x.type = "request" => x \in ToSet(events) \/ x = e
  BY <1>0, <1>2, <1>4, <1>5, <1>6, <1>7, StagesGoOn
<1>10. Len(RequestEvents') = 1
  BY <1>2, <1>9, OneEvent
<1>11. Buffered'
  <2>1. answer'.body = text /\ answer' # NoAnswer
    BY <1>0 DEF BadGateway, NoAnswer
  <2>2. Answered' = <<text>>
    <3>1. text.t \notin {"frames", "array"}
      OBVIOUS
    <3> HIDE DEF text
    <3> QED BY <2>1, <3>1 DEF Answered
  <2>3. EntriesIn(<<text>>, methods) = <<>>
    <3>1. ~IsObject(text) /\ <<text>> \in Seq({text})
      BY DEF IsObject
    <3> HIDE DEF text, methods
    <3>2. \A d \in {text} : EntryOf(d, methods) = <<>>
      BY <3>1, UnknownHasNone
    <3> DEFINE docs == <<text>>
               X == {text}
    <3>3. docs \in Seq(X) /\ \A d \in X : EntryOf(d, methods) = <<>>
      BY <3>1, <3>2
    <3> HIDE DEF docs, X
    <3>4. EntriesIn(docs, methods) = <<>>
      BY <3>3, NoEntriesOf
    <3> QED BY <3>4 DEF docs
  <2>4. EntriesOf(Answered)' = EntriesIn(<<text>>, methods)
    <3>1. \A doc : Entries(doc)' = EntryOf(doc, methods)
      BY <1>4 DEF Entries, EntryOf
    <3> QED BY <2>2, <3>1 DEF EntriesOf, EntriesIn
  <2>5. \A x \in ToSet(events') : x.type = "request" => ~AnswersMcp(x)
    BY <1>5, <1>8, <1>9 DEF AnswersMcp, NoResponse
  <2> QED BY <1>0, <2>3, <2>4, <2>5 DEF Buffered
<1> QED BY <1>9, <1>10, <1>11 DEF StagesInv

(* A frame of a stream goes through the stages.                            *)
LEMMA RelayTells ==
  ASSUME TypeInv, StreamInv, StreamInv', StagesInv, Relay
  PROVE  StagesInv'
<1> DEFINE rs == ResultsOf(<<Head(parser.pending)>>)
           response == [kind |-> "mcp", results |-> rs, parts |-> parts]
           e == RequestEvent(Rewritten(response), routed, firstItem')
<1>1. pc = "stream" /\ pc' = "stream" /\ request' = request
  BY DEF Relay
<1>2. Streamed'
  BY <1>1 DEF StreamInv
<1>3. Methods' = Methods
  BY <1>1 DEF Methods
<1>4. CASE rs = <<>>
  <2>1. UNCHANGED <<raw, events>>
    BY <1>4 DEF Relay
  <2>2. StagesKept'
    BY <1>1, <1>3, <2>1 DEF StagesInv, StagesKept, Logged, SchemaEventsSent, RequestEvents, EventsOfType
  <2> QED BY <1>1, <1>2, <2>2 DEF StagesInv
<1>5. CASE rs # <<>>
  <2>1. raw' = raw \o rs /\ events' = Append(events \o SchemaEvents(rs, Methods), e)
    BY <1>5 DEF Relay, RunStages
  <2>2. rs \in Seq(Answers)
    <3> DEFINE D == Documents
               one == Head(parser.pending)
    <3>1. parser.pending \in Seq(Seq(D)) /\ parser.pending # <<>>
      BY DEF TypeInv, ParserType, Relay
    <3> HIDE DEF D
    <3>2. one \in Seq(D)
      BY <3>1
    <3> HIDE DEF one
    <3>3. <<one>> \in Seq(Seq(D))
      BY <3>2
    <3>4. ResultsOf(<<one>>) \in Seq(Answers)
      BY <3>3, ResultsOfTyped DEF D
    <3> QED BY <3>4 DEF one
  <2>3. Response(response) /\ response.results = rs
    BY <2>2 DEF Response
  <2> HIDE DEF response
  <2>4. Encoded(e.response.results) = Mapped(rs, LogF(Methods)) /\ e.type = "request"
    <3>1. LogsResponse(e, response, Methods)
      BY <2>3, ResponseLogged
    <3> HIDE DEF e
    <3> QED BY <2>3, <3>1 DEF LogsResponse
  <2>5. events \in Seq(ToSet(events)) /\ StagesKept
    BY DEF TypeInv, StagesInv
  <2> HIDE DEF rs, e
  <2>6. StagesKept'
    BY <1>3, <2>1, <2>2, <2>4, <2>5, StagesGoOn
  <2> QED BY <1>1, <1>2, <2>6 DEF StagesInv
<1> QED BY <1>4, <1>5

(* In no documents there are no entries.                                   *)
LEMMA NoDocsNoEntries ==
  ASSUME NEW methods
  PROVE  EntriesIn(<<>>, methods) = <<>>
<1> DEFINE X == {}
           e == <<>>
<1>1. e \in Seq(X) /\ \A d \in X : EntryOf(d, methods) = <<>>
  OBVIOUS
<1> HIDE DEF X, e
<1>2. EntriesIn(e, methods) = <<>>
  BY <1>1, NoEntriesOf
<1> QED BY <1>2 DEF e

(* Before anything has happened all is told.                               *)
LEMMA QuietStages ==
  raw = <<>> /\ events = <<>> =>
    /\ StagesKept
    /\ answer = NoAnswer /\ pc # "done" => StagesInv
<1> SUFFICES ASSUME raw = <<>>, events = <<>>
             PROVE  StagesKept /\ (answer = NoAnswer /\ pc # "done" => StagesInv)
  OBVIOUS
<1>1. StagesKept
  BY NothingStaged
<1>2. ToSet(events) = {}
  BY DEF ToSet
<1>3. ASSUME answer = NoAnswer
      PROVE  EntriesOf(Answered) = <<>>
  BY <1>3, AnswerRead, NoDocsNoEntries DEF Answered
<1>4. answer = NoAnswer => Buffered
  BY <1>2, <1>3 DEF Buffered
<1> QED BY <1>1, <1>4 DEF StagesInv

(* Whatever step is taken, all that has been told is logged and announced. *)
LEMMA StagesStep ==
  ASSUME TypeInv, PhaseInv, SentInv, StreamInv, StagesInv, PhaseInv', StreamInv', [Next]_vars
  PROVE  StagesInv'
<1>0. (raw = <<>> /\ events = <<>> =>
         /\ StagesKept
         /\ answer = NoAnswer /\ pc # "done" => StagesInv)'
  BY QuietStages, PTL
<1>1. CASE pc' \in {"intake", "upstream"}
  BY <1>0, <1>1 DEF PhaseInv, StreamInv
<1>2. CASE Receive \/ BodyEnds \/ BodyFails \/ StreamEnds \/ ClientLeaves \/ Tick \/ UNCHANGED vars
  <2>1. UNCHANGED <<request, raw, answer, events>>
    BY <1>2 DEF Receive, BodyEnds, BodyFails, StreamEnds, ClientLeaves, Tick, vars
  <2>2. pc' = "done" => pc = "done" \/ Streamed
    BY <1>2 DEF Receive, BodyEnds, BodyFails, StreamEnds, ClientLeaves, Tick, vars, StreamInv
  <2>3. Methods' = Methods /\ Streamed' = Streamed /\ RequestEvents' = RequestEvents
        /\ SchemaEventsSent' = SchemaEventsSent /\ Answered' = Answered
    BY <2>1 DEF Methods, Streamed, RequestEvents, SchemaEventsSent, EventsOfType, Answered
  <2>4. Logged' = Logged
    BY <2>3 DEF Logged
  <2>5. StagesKept'
    BY <2>1, <2>3, <2>4 DEF StagesInv, StagesKept
  <2>6. EntriesOf(Answered)' = EntriesOf(Answered)
    <3>1. \A doc : Entries(doc)' = Entries(doc)
      BY <2>3 DEF Entries
    <3> QED BY <2>3, <3>1 DEF EntriesOf
  <2>7. Buffered => Buffered'
    BY <2>1, <2>3, <2>6 DEF Buffered
  <2> QED BY <2>1, <2>2, <2>3, <2>5, <2>7 DEF StagesInv
<1>3. CASE Relay
  BY <1>3, RelayTells
<1>4. CASE OpenStream
  <2>1. raw' = <<>> /\ events' = <<>> /\ pc' = "stream"
    BY <1>4 DEF OpenStream, StreamInv, PhaseInv
  <2>2. Streamed'
    BY <2>1 DEF StreamInv
  <2> QED BY <1>0, <2>1, <2>2 DEF StagesInv
<1>5. CASE UpstreamFails
  BY <1>5, FailTells DEF UpstreamFails
<1>6. CASE ServeOAuth
  <2> DEFINE text == [t |-> "metadata"]
             response == [kind |-> "http", results |-> <<>>, body |-> text,
                          parts |-> [EmptyParts EXCEPT !.contentType = "application/json"]]
  <2>1. /\ Finish(response) /\ pc = "upstream" /\ request' = request
        /\ request.kind = "oauth"
    BY <1>6 DEF ServeOAuth
  <2>2. request.rpcs = <<>>
    BY <2>1, ClassifiedRequests DEF PhaseInv
  <2>3. ReadBody(text) = <<text>> /\ <<text>> \in Seq({text})
    BY DEF ReadBody
  <2>4. Response(response) /\ response.body = text /\ response.results = <<>>
    BY DEF Response
  <2> HIDE DEF response, text
  <2> QED BY <2>1, <2>2, <2>3, <2>4, FinishTells
<1>7. CASE HandleHttpRequest
  <2>1. PICK r \in Replies :
          Finish([kind |-> FromHyper(r).kind, results |-> FromHyper(r).results,
                  parts |-> PartsOf(r), body |-> r.body])
    BY <1>7 DEF HandleHttpRequest
  <2> DEFINE response == [kind |-> FromHyper(r).kind, results |-> FromHyper(r).results,
                          parts |-> PartsOf(r), body |-> r.body]
  <2>2. Response(response)
    BY FromHyperTyped DEF Response
  <2>3. request.kind \in {"http", "oauth"} /\ pc = "upstream" /\ request' = request
    BY <1>7 DEF HandleHttpRequest, Forwards
  <2>4. request.rpcs = <<>>
    BY <2>3, ClassifiedRequests DEF PhaseInv
  <2>5. /\ response.body = r.body /\ response.kind = FromHyper(r).kind
        /\ response.results = FromHyper(r).results /\ Finish(response)
    BY <2>1
  <2>6. response.kind = "http" => response.results = <<>>
    BY <2>5, HttpIsEmpty
  <2>7. \E X : ReadBody(response.body) \in Seq(X)
    BY <2>5, RepliesRead
  <2> HIDE DEF response
  <2> QED BY <2>2, <2>3, <2>4, <2>5, <2>6, <2>7, FinishTells
<1>8. CASE HandleMcpRequest
  <2>1. PICK r \in Replies :
          \/ Fail
          \/ /\ FromHyper(r).kind = "mcp"
             /\ IF Len(results \o FromHyper(r).results) = Len(request.rpcs)
                THEN Finish([kind |-> request.kind, results |-> results \o FromHyper(r).results,
                             parts |-> PartsOf(r)])
                ELSE UNCHANGED pc
    BY <1>8 DEF HandleMcpRequest
  <2>2. request.kind \in {"mcp", "batch"} /\ pc = "upstream" /\ request' = request
    BY <1>8 DEF HandleMcpRequest
  <2>3. CASE Fail
    BY <2>2, <2>3, FailTells
  <2>4. CASE UNCHANGED pc
    BY <1>1, <2>2, <2>4
  <2> DEFINE all == results \o FromHyper(r).results
             response == [kind |-> request.kind, results |-> all, parts |-> PartsOf(r)]
  <2>5. CASE Finish(response)
    <3>1. all \in Seq(Answers)
      <4> DEFINE more == FromHyper(r).results
      <4>1. results \in Seq(Answers) /\ more \in Seq(Answers)
        BY FromHyperTyped DEF TypeInv
      <4> HIDE DEF more
      <4>2. results \o more \in Seq(Answers)
        BY <4>1
      <4> QED BY <4>2 DEF more
    <3>2. Response(response) /\ response.kind # "http"
      <4> HIDE DEF all
      <4> QED BY <2>2, <3>1 DEF Response
    <3> HIDE DEF response
    <3> QED BY <2>2, <2>5, <3>2, FinishTells
  <2> QED BY <2>1, <2>3, <2>4, <2>5
<1>9. CASE EmptyBatch
  <2> DEFINE response == [kind |-> "batch", results |-> <<>>, parts |-> EmptyParts]
  <2>1. Finish(response) /\ pc = "upstream" /\ request' = request
    BY <1>9 DEF EmptyBatch
  <2>2. Response(response) /\ response.kind # "http"
    BY DEF Response
  <2> HIDE DEF response
  <2> QED BY <2>1, <2>2, FinishTells
<1>10. CASE BadBody \/ OpenGetSse
  <2> DEFINE text == [t |-> "text"]
  <2>1. /\ raw' = <<>> /\ events' = <<>> /\ request' = NoRequest
    BY <1>10 DEF BadBody, OpenGetSse, PhaseInv, StreamInv
  <2>2. "body" \in DOMAIN answer' /\ \E X : ReadBody(answer'.body) \in Seq(X)
    <3>1. CASE BadBody
      <4>1. answer' = [BadGateway EXCEPT !.status = 400]
        BY <3>1 DEF BadBody
      <4>2. answer'.body = text /\ "body" \in DOMAIN answer'
        BY <4>1 DEF BadGateway
      <4>3. ReadBody(text) = <<text>> /\ <<text>> \in Seq({text})
        BY DEF ReadBody
      <4> QED BY <4>2, <4>3
    <3>2. CASE OpenGetSse
      <4>1. PICK r \in Replies : answer'.body = r.body /\ "body" \in DOMAIN answer'
        BY <3>2 DEF OpenGetSse
      <4> QED BY <4>1, RepliesRead
    <3> QED BY <1>10, <3>1, <3>2
  <2>3. answer' # NoAnswer
    BY <2>2 DEF NoAnswer
  <2>4. Answered' = ReadBody(answer'.body)
    BY <2>3 DEF Answered, ReadBody
  <2> DEFINE methods == Methods'
             docs == ReadBody(answer'.body)
  <2>5. DOMAIN methods = {}
    BY <2>1, NoRpcsNoMethods DEF Methods, NoRequest
  <2>6. PICK X : docs \in Seq(X)
    BY <2>2
  <2> HIDE DEF methods, docs
  <2>7. \A d \in X : EntryOf(d, methods) = <<>>
    BY <2>5, UnknownHasNone
  <2>8. EntriesIn(docs, methods) = <<>>
    BY <2>6, <2>7, NoEntriesOf
  <2>9. EntriesOf(Answered)' = EntriesIn(docs, methods)
    <3>1. \A doc : Entries(doc)' = EntryOf(doc, methods)
      BY DEF Entries, EntryOf, methods
    <3> QED BY <2>4, <3>1 DEF EntriesOf, EntriesIn, docs
  <2>10. Buffered'
    <3>1. ToSet(events') = {}
      BY <2>1 DEF ToSet
    <3> QED BY <2>1, <2>8, <2>9, <3>1 DEF Buffered
  <2> QED BY <1>0, <2>1, <2>10 DEF StagesInv
<1>11. CASE Intake
  BY <1>1, <1>11 DEF Intake
<1> QED BY <1>2, <1>3, <1>4, <1>5, <1>6, <1>7, <1>8, <1>9, <1>10, <1>11 DEF Next

-----------------------------------------------------------------------------
LEMMA InitInv == Init => IInv
<1> SUFFICES ASSUME Init PROVE IInv
  OBVIOUS
<1>1. <<>> \in Seq(Answers) /\ <<>> \in Seq(Documents) /\ <<>> \in Seq(ToSet(<<>>)) /\ Len(<<>>) = 0
  OBVIOUS
<1>2. TypeInv
  <2>1. parser \in ParserType(Documents) /\ ended \in BOOLEAN
    BY EmptyParserTyped DEF Init
  <2> QED BY <1>1, <2>1, ExchangeAssumption DEF Init, TypeInv
<1>3. PhaseInv
  BY DEF Init, PhaseInv
<1>4. TimesInv
  BY DEF Init, TimesInv, TimesConsistent
<1>5. SentInv
  BY DEF Init, SentInv, NothingSkipped
<1>6. SinksInv
  BY DEF Init, SinksInv, ToSet
<1>7. StreamInv
  <2>1. LF \in Documents
    BY DEF Documents
  <2>2. SubSeq(<<>>, 1, 0) = <<>> /\ <<>> \in Seq(Seq(Documents))
    OBVIOUS
  <2>3. Consumed(Documents, EmptyParser, <<>>, <<>>, FALSE) /\ Settled(EmptyParser, FALSE)
    BY <2>1, NothingConsumed
  <2>4. /\ body = <<>> /\ at = 0 /\ parser = EmptyParser /\ ended = FALSE
        /\ pc = "intake" /\ answer = NoAnswer /\ raw = <<>>
    BY DEF Init
  <2> QED BY <2>2, <2>3, <2>4 DEF StreamInv, Streamed
<1>8. StagesInv
  BY QuietStages DEF Init
<1> QED BY <1>2, <1>3, <1>4, <1>5, <1>6, <1>7, <1>8 DEF IInv

LEMMA StepInv == IInv /\ [Next]_vars => IInv'
  BY TypeStep, PhaseStep, TimesStep, SentStep, SinksStep, StreamStep, StagesStep DEF IInv

(* Whatever the requests, the answers and the rewriting: the exchange      *)
(* keeps its shape, a stream decoded as it arrives in whatever pieces      *)
(* yields frames of what has arrived, and the invariant holds.             *)
THEOREM InvariantHolds == Spec => []IInv
  BY InitInv, StepInv, PTL DEF Spec

(* Every variable keeps to its type; the incremental decoder never has a   *)
(* token the server did not send, but for the line feed between two lines  *)
(* of data.                                                                *)
THEOREM TypeCorrect == Spec => []TypeInv
<1>1. IInv => TypeInv
  BY DEF IInv
<1> QED BY <1>1, InvariantHolds, PTL

(* The client of a stream reads off its answer what it was told.           *)
LEMMA StreamAnswered ==
  ASSUME NEW popped \in Seq(Seq(Documents)), StreamTold(popped)
  PROVE  Answered = Told(popped, Methods)
<1> DEFINE docs == Told(popped, Methods)
           frames == DecodeFrames(BytesOf(docs))
           T == ToldDocs(Documents, Methods)
<1>1. docs \in Seq(T) /\ Objects(T)
  BY ToldTyped, ToldObjects
<1>2. [i \in DOMAIN frames |-> Parse(frames[i])] = docs
  <2> HIDE DEF T, docs
  <2> QED BY <1>1, BytesRead
<1>3. answer.body.t = "frames" /\ answer.body.bytes = BytesOf(docs) /\ answer # NoAnswer
  BY DEF StreamTold, NoAnswer
<1> HIDE DEF docs
<1>4. Answered = [i \in DOMAIN frames |-> Parse(frames[i])]
  BY <1>3 DEF Answered
<1> QED BY <1>2, <1>4 DEF docs

(* However the bytes of a stream are cut up, the client is told the        *)
(* results in it, rewritten and in order, and nothing else.                *)
LEMMA StreamStory ==
  ASSUME IInv
  PROVE  StreamedInOrder
<1> SUFFICES ASSUME Streamed
             PROVE  StreamedInOrder
  BY DEF StreamedInOrder
<1> DEFINE D == Documents
           methods == Methods
           received == SubSeq(body, 1, at)
           settled == SettledBytes(received, ended)
<1>1. /\ LF \in D
      /\ parser \in ParserType(D) /\ parser.pending \in Seq(Seq(D)) /\ ended \in BOOLEAN
      /\ Settled(parser, ended)
  BY DEF IInv, TypeInv, StreamInv, Documents, ParserType
<1>2. PICK popped \in Seq(Seq(D)) :
        Consumed(D, parser, popped, received, ended) /\ StreamTold(popped)
  BY DEF IInv, StreamInv
<1>3. received \in Seq(D)
  <2>1. at \in Nat /\ at <= Len(body) /\ 1 \in Nat /\ 1 <= 1 /\ body \in Seq(D)
    BY LenProperties DEF IInv, TypeInv
  <2> HIDE DEF D
  <2> QED BY <2>1, CutTyped
<1>4. popped \o parser.pending = DecodeFrames(settled)
  <2> HIDE DEF D, received
  <2> QED BY <1>1, <1>2, <1>3, ConsumedDecodes
<1>5. Told(popped \o parser.pending, methods) = Told(popped, methods) \o Told(parser.pending, methods)
  BY <1>1, <1>2, ToldJoins
<1>6. Answered = Told(popped, methods)
  BY <1>2, StreamAnswered
<1>7. Answered \o Told(parser.pending, methods) = Told(DecodeFrames(settled), methods)
  BY <1>4, <1>5, <1>6
<1> HIDE DEF D
<1> QED BY <1>7 DEF StreamedInOrder, Told, TellOf, SettledBytes

(* StreamedInOrder, for every upstream and every way its bytes arrive: the *)
(* proxy's relay of an event stream loses no result of it, adds none, and  *)
(* keeps their order.                                                      *)
THEOREM StreamTellsAll == Spec => []StreamedInOrder
  BY InvariantHolds, StreamStory, PTL

-----------------------------------------------------------------------------
(* What is in the document of a result.                                    *)
LEMMA EncodedResults ==
  \A r : Get(EncodeResult(r), "result")
           = IF r.kind = "error" \/ None(r.body) THEN Missing ELSE r.body
<1> SUFFICES ASSUME NEW r
             PROVE  Get(EncodeResult(r), "result")
                      = IF r.kind = "error" \/ None(r.body) THEN Missing ELSE r.body
  OBVIOUS
<1> DEFINE f == [jsonrpc |-> Str("2.0"), id |-> r.id]
           g == IF r.kind = "error" THEN [error |-> r.body] ELSE Optional("result", r.body)
<1>1. EncodeResult(r) = Obj(Joined(f, g)) /\ "result" \notin DOMAIN f
  BY DEF EncodeResult
<1>2. IF r.kind = "error" \/ None(r.body) THEN "result" \notin DOMAIN g
                                          ELSE "result" \in DOMAIN g /\ g["result"] = r.body
  BY DEF Optional
<1> HIDE DEF f, g
<1> QED BY <1>1, <1>2 DEF Obj, Get, IsObject, Joined

LEMMA RewrittenResult ==
  ASSUME NEW r \in Answers, NEW methods
  PROVE  LET x == RewriteIfKnown(r, methods)
         IN  /\ IsResultRecord(x) /\ x.id = r.id /\ x.kind = r.kind
             /\ x.body = IF r.kind = "error" \/ None(r.body) THEN r.body
                         ELSE Rewrite(MethodOf(methods, r.id), r.body)
<1>1. IsResultRecord(r)
  <2>1. PICK doc \in Documents : r = ResultOf(doc)
    BY DEF Answers
  <2> QED BY <2>1 DEF ResultOf, IsResultRecord
<1> DEFINE y == Rewrite(MethodOf(methods, r.id), r.body)
           x == RewriteIfKnown(r, methods)
<1>2. x = IF r.kind = "error" \/ None(r.body) THEN r ELSE [r EXCEPT !.body = y]
  BY DEF RewriteIfKnown
<1> HIDE DEF x, y
<1>3. r = [id |-> r.id, kind |-> r.kind, body |-> r.body]
  BY <1>1 DEF IsResultRecord
<1>4. [r EXCEPT !.body = y] = [id |-> r.id, kind |-> r.kind, body |-> y]
  BY <1>3
<1>5. CASE r.kind = "error" \/ None(r.body)
  BY <1>1, <1>2, <1>5 DEF x
<1>6. CASE ~(r.kind = "error" \/ None(r.body))
  BY <1>2, <1>4, <1>6 DEF x, y, IsResultRecord
<1> QED BY <1>5, <1>6

LEMMA KeptMembers ==
  ASSUME NEW v, IsObject(v), NEW keys
  PROVE  /\ DOMAIN Keeping(v, keys).m \subseteq keys
         /\ \A key \in DOMAIN Keeping(v, keys).m : Has(v, key)
         /\ \A key \in keys : Get(Keeping(v, keys), key) = Get(v, key)
<1> DEFINE K == {k \in keys : Has(v, k)}
           m == [k \in K |-> v.m[k]]
<1>1. Keeping(v, keys) = Obj(m) /\ DOMAIN m = K
  BY DEF Keeping
<1>2. \A k \in K : m[k] = v.m[k]
  OBVIOUS
<1> HIDE DEF m
<1>3. Keeping(v, keys).m = m /\ IsObject(Keeping(v, keys))
  BY <1>1 DEF Obj, IsObject
<1>4. \A key \in keys : Get(Keeping(v, keys), key) = Get(v, key)
  BY <1>1, <1>2, <1>3 DEF Get, Has
<1> QED BY <1>1, <1>3, <1>4

(* What the log keeps of the body of a resource.                           *)
LEMMA SlimMembers ==
  ASSUME NEW v, NEW array, NEW keep
  PROVE  LET slim == SlimArray(v, array, keep)
             items == ItemsOf(Get(v, array))
             entries == ItemsOf(Get(slim, array))
         IN  /\ ~None(slim)
             /\ DOMAIN slim.m = {array}
             /\ DOMAIN entries = DOMAIN items
             /\ \A i \in DOMAIN entries :
                  /\ DOMAIN entries[i].m \subseteq keep
                  /\ \A key \in keep : Get(entries[i], key) = Get(items[i], key)
<1> DEFINE slim == SlimArray(v, array, keep)
           items == ItemsOf(Get(v, array))
           some(i) == IF IsObject(items[i]) THEN Keeping(items[i], keep) ELSE Obj(<<>>)
           entries == [i \in DOMAIN items |-> some(i)]
<1>1. slim = Obj(Member(array, Arr(entries)))
  BY DEF SlimArray
<1>2. ASSUME NEW i
      PROVE  /\ DOMAIN some(i).m \subseteq keep
             /\ \A key \in keep : Get(some(i), key) = Get(items[i], key)
  <2> DEFINE item == items[i]
  <2>1. CASE IsObject(item)
    <3>1. some(i) = Keeping(item, keep)
      BY <2>1
    <3> HIDE DEF some, item
    <3> QED BY <2>1, <3>1, KeptMembers DEF item
  <2>2. CASE ~IsObject(item)
    <3>1. some(i) = Obj(<<>>)
      BY <2>2
    <3>2. DOMAIN Obj(<<>>).m = {} /\ \A key : Get(Obj(<<>>), key) = Missing
      BY DEF Obj, Get
    <3>3. \A key : Get(item, key) = Missing
      BY <2>2 DEF Get
    <3> HIDE DEF some, item
    <3> QED BY <3>1, <3>2, <3>3 DEF item
  <2> QED BY <2>1, <2>2
<1>3. DOMAIN entries = DOMAIN items /\ \A i \in DOMAIN entries : entries[i] = some(i)
  OBVIOUS
<1> HIDE DEF some, items, entries
<1>4. /\ slim.m = Member(array, Arr(entries)) /\ slim.t = "object"
  BY <1>1 DEF Obj
<1>5. DOMAIN Member(array, Arr(entries)) = {array} /\ Member(array, Arr(entries))[array] = Arr(entries)
  BY DEF Member
<1>6. Get(slim, array) = Arr(entries) /\ DOMAIN slim.m = {array}
  BY <1>4, <1>5 DEF Get, IsObject
<1>7. ItemsOf(Arr(entries)) = entries
  BY DEF ItemsOf, Arr, IsArray
<1>8. ~None(slim)
  BY <1>4 DEF None, Missing, Null
<1> QED BY <1>2, <1>3, <1>6, <1>7, <1>8 DEF items

(* What is logged of a result is what is told of it, but for resources.    *)
LEMMA LogIsFaithful ==
  ASSUME NEW r \in Answers, NEW methods
  PROVE  LET doc == LogDocOf(r, methods)
         IN  /\ Get(doc, "id") = r.id
             /\ LoggedFaithfully(doc, EncodeResult(RewriteIfKnown(r, methods)),
                                 MethodOf(methods, r.id))
<1> DEFINE x == RewriteIfKnown(r, methods)
           method == MethodOf(methods, r.id)
           array == Kept[method].array
           keep == Kept[method].keep
           y == SlimResult(x, methods)
           told == EncodeResult(x)
           doc == LogDocOf(r, methods)
           slim == SlimArray(x.body, array, keep)
<1>1. IsResultRecord(x) /\ x.id = r.id
  BY RewrittenResult
<1>2. doc = EncodeResult(y)
  BY DEF LogDocOf
<1> HIDE DEF x, array, keep, slim
<1>3. y = IF x.kind = "error" \/ None(x.body) \/ method \notin DOMAIN Kept THEN x
          ELSE [x EXCEPT !.body = slim]
  BY <1>1 DEF SlimResult, array, keep, slim
<1>4. Get(told, "result") = IF x.kind = "error" \/ None(x.body) THEN Missing ELSE x.body
  BY EncodedResults
<1> HIDE DEF y, told, doc, method
<1>5. CASE x.kind = "error" \/ None(x.body) \/ method \notin DOMAIN Kept
  <2>1. y = x /\ doc = told
    BY <1>2, <1>3, <1>5 DEF told
  <2>2. Get(doc, "id") = r.id
    BY <1>1, <2>1, EncodedIds DEF told
  <2>3. method \notin DOMAIN Kept \/ ~Has(told, "result")
    BY <1>4, <1>5 DEF Has
  <2>4. LoggedFaithfully(doc, told, method)
    BY <2>1, <2>3 DEF LoggedFaithfully
  <2> QED BY <2>2, <2>4 DEF doc, told, method, x
<1>6. CASE ~(x.kind = "error" \/ None(x.body) \/ method \notin DOMAIN Kept)
  <2>1. x = [id |-> x.id, kind |-> x.kind, body |-> x.body]
    BY <1>1 DEF IsResultRecord
  <2>2. y = [id |-> x.id, kind |-> x.kind, body |-> slim]
    BY <1>3, <1>6, <2>1
  <2>3. Get(doc, "id") = r.id /\ Get(told, "id") = r.id
    BY <1>1, <1>2, <2>2, EncodedIds DEF told
  <2> DEFINE items == ItemsOf(Get(x.body, array))
             entries == ItemsOf(Get(slim, array))
  <2>4. /\ ~None(slim)
        /\ DOMAIN slim.m = {array}
        /\ DOMAIN entries = DOMAIN items
        /\ \A i \in DOMAIN entries :
             /\ DOMAIN entries[i].m \subseteq keep
             /\ \A key \in keep : Get(entries[i], key) = Get(items[i], key)
    BY SlimMembers DEF slim
  <2>5. Get(doc, "result") = slim
    <3>1. y.kind = x.kind /\ y.body = slim
      BY <2>2
    <3> QED BY <1>2, <1>6, <2>4, <3>1, EncodedResults
  <2>6. Get(told, "result") = x.body /\ Has(told, "result")
    BY <1>4, <1>6 DEF Has, None
  <2>7. LoggedFaithfully(doc, told, method)
    BY <1>6, <2>3, <2>4, <2>5, <2>6 DEF LoggedFaithfully, array, keep
  <2> QED BY <2>3, <2>7 DEF doc, told, method, x
<1> QED BY <1>5, <1>6

(* The log keeps up with what the client is told.                          *)
LEMMA LogStory ==
  ASSUME TypeInv, StreamInv, StagesInv
  PROVE  LogMatchesAnswer
<1> DEFINE m == Methods
<1>1. ASSUME NEW e \in ToSet(RequestEvents), AnswersMcp(e)
      PROVE  Answered = TellOf(raw, m)
  <2>1. CASE Streamed
    <3>1. PICK popped \in Seq(Seq(Documents)) : StreamTold(popped)
      BY <2>1 DEF StreamInv
    <3>2. Answered = Told(popped, m) /\ raw = ResultsOf(popped)
      BY <3>1, StreamAnswered DEF StreamTold
    <3> QED BY <3>2 DEF Told
  <2>2. CASE ~Streamed
    <3>1. e \in ToSet(events) /\ e.type = "request"
      <4> DEFINE A == ToSet(events)
                 S == {x \in A : x.type = "request"}
      <4>1. events \in Seq(A)
        BY DEF TypeInv
      <4>2. ToSet(Only(events, S)) = ToSet(events) \cap S
        <5> HIDE DEF S, A
        <5> QED BY <4>1, OnlyKeeps
      <4>3. RequestEvents = Only(events, S)
        BY DEF RequestEvents, EventsOfType
      <4> HIDE DEF S
      <4>4. e \in S
        BY <4>2, <4>3
      <4> QED BY <4>4 DEF S
    <3> QED BY <1>1, <2>2, <3>1 DEF StagesInv, Buffered
  <2> QED BY <2>1, <2>2
<1>2. raw \in Seq(Answers) /\ Logged = Mapped(raw, LogF(m))
  BY DEF StagesInv, StagesKept
<1>3. /\ Len(raw) \in Nat /\ DOMAIN raw = 1 .. Len(raw)
      /\ \A i \in 1 .. Len(raw) : raw[i] \in Answers
  BY <1>2, LenProperties
<1>4. /\ DOMAIN Logged = 1 .. Len(raw) /\ Len(Logged) = Len(raw)
      /\ \A i \in 1 .. Len(raw) : Logged[i] = LogDocOf(raw[i], m)
  <2> DEFINE D == Answers
             R == LogDocs(m)
             F == LogF(m)
  <2>1. F \in [D -> R] /\ \A r \in D : F[r] = LogDocOf(r, m)
    BY DEF LogF, LogDocs
  <2> HIDE DEF D, R, F
  <2>2. MapsTo(raw, F, R, Mapped(raw, F))
    BY <1>2, <2>1, MappedList DEF D
  <2>3. /\ Len(Mapped(raw, F)) = Len(raw) /\ DOMAIN Mapped(raw, F) = 1 .. Len(raw)
        /\ \A i \in 1 .. Len(raw) : Mapped(raw, F)[i] = F[raw[i]]
    BY <2>2 DEF MapsTo
  <2> QED BY <1>2, <1>3, <2>1, <2>3 DEF F, D
<1> HIDE DEF m
<1>5. ASSUME NEW e \in ToSet(RequestEvents), AnswersMcp(e)
      PROVE  /\ Len(Logged) = Len(Answered)
             /\ \A i \in DOMAIN Logged :
                  LoggedFaithfully(Logged[i], Answered[i], MethodOf(m, Get(Logged[i], "id")))
  <2>1. Answered = TellOf(raw, m)
    BY <1>5, <1>1
  <2>2. TellOf(raw, m) \in Seq(TellDocs(Answers, m)) /\ DOMAIN TellOf(raw, m) = 1 .. Len(raw)
    BY <1>2, <1>3, TellComposed DEF TellOf
  <2>3. Len(Answered) = Len(raw)
    BY <1>3, <2>1, <2>2, LenProperties
  <2>4. ASSUME NEW i \in 1 .. Len(raw)
        PROVE  LoggedFaithfully(Logged[i], Answered[i], MethodOf(m, Get(Logged[i], "id")))
    <3> DEFINE r == raw[i]
    <3>1. r \in Answers /\ Logged[i] = LogDocOf(r, m)
      BY <1>3, <1>4
    <3>2. Answered[i] = EncodeResult(RewriteIfKnown(r, m))
      BY <1>3, <2>1 DEF TellOf
    <3> HIDE DEF r
    <3> QED BY <3>1, <3>2, LogIsFaithful
  <2> QED BY <1>4, <2>3, <2>4
<1> QED BY <1>5 DEF LogMatchesAnswer, StagesInv, m

(* LogMatchesAnswer, for every exchange: one record of each answer, in     *)
(* which each result is the one the client was sent, rewritten as it was,  *)
(* but for the resources the record leaves out.                            *)
THEOREM LogTellsAnswer == Spec => []LogMatchesAnswer
<1>1. IInv => LogMatchesAnswer
  BY LogStory DEF IInv
<1> QED BY <1>1, InvariantHolds, PTL

-----------------------------------------------------------------------------
(* An event about a schema tells of an entry as it was served, under the   *)
(* name that the client was told.                                          *)
Tells(change, served, told) ==
  /\ \A key \in DOMAIN EncodeSchema(change).item.m \cup {"_meta"} :
       SameMember(EncodeSchema(change).item, served, key)
  /\ EncodeSchema(change).name \in {Get(told, key) : key \in Names}

Aligned(changes, served, told) ==
  /\ Len(changes) = Len(told) /\ Len(served) = Len(told)
  /\ \A i \in 1 .. Len(told) : Tells(changes[i], served[i], told[i])

LEMMA AlignedJoin ==
  ASSUME NEW A, NEW a \in Seq(A), NEW ax \in Seq(A),
         NEW B, NEW b \in Seq(B), NEW bx \in Seq(B), NEW c \in Seq(B), NEW cx \in Seq(B),
         Aligned(a, b, c), Aligned(ax, bx, cx)
  PROVE  Aligned(a \o ax, b \o bx, c \o cx)
<1> DEFINE aa == a \o ax
           bb == b \o bx
           cc == c \o cx
           n == Len(c)
           m == Len(cx)
<1>1. n \in Nat /\ m \in Nat /\ Len(a) = n /\ Len(b) = n /\ Len(ax) = m /\ Len(bx) = m
  BY LenProperties DEF Aligned
<1>2. Joins(A, a, ax, aa) /\ Joins(B, b, bx, bb) /\ Joins(B, c, cx, cc)
  BY ConcatJoins
<1> HIDE DEF aa, bb, cc, n, m
<1>3. /\ Len(aa) = n + m /\ Len(bb) = n + m /\ Len(cc) = n + m
      /\ \A i \in 1 .. n + m : aa[i] = IF i <= n THEN a[i] ELSE ax[i - n]
      /\ \A i \in 1 .. n + m : bb[i] = IF i <= n THEN b[i] ELSE bx[i - n]
      /\ \A i \in 1 .. n + m : cc[i] = IF i <= n THEN c[i] ELSE cx[i - n]
  BY <1>1, <1>2 DEF Joins, n, m
<1>4. ASSUME NEW i \in 1 .. n + m
      PROVE  Tells(aa[i], bb[i], cc[i])
  <2>1. CASE i <= n
    <3>1. i \in 1 .. Len(c)
      BY <1>1, <2>1 DEF n
    <3>2. Tells(a[i], b[i], c[i])
      BY <3>1 DEF Aligned
    <3> QED BY <1>3, <2>1, <3>2
  <2>2. CASE ~(i <= n)
    <3>1. i - n \in 1 .. Len(cx)
      BY <1>1, <2>2 DEF m
    <3>2. Tells(ax[i - n], bx[i - n], cx[i - n])
      BY <3>1 DEF Aligned
    <3> QED BY <1>3, <2>2, <3>2
  <2> QED BY <2>1, <2>2
<1> QED BY <1>3, <1>4 DEF Aligned, aa, bb, cc

(* What is aligned for each result is aligned for all of them.             *)
LEMMA AlignedSpread ==
  ASSUME NEW D, NEW A, NEW B, NEW F \in [D -> Seq(A)], NEW G \in [D -> Seq(B)], NEW H \in [D -> Seq(B)],
         \A d \in D : Aligned(F[d], G[d], H[d]), NEW s \in Seq(D)
  PROVE  Aligned(Spread(s, F), Spread(s, G), Spread(s, H))
<1> DEFINE T == {x \in Seq(D) : Aligned(Spread(x, F), Spread(x, G), Spread(x, H))}
           e == <<>>
<1>1. ASSUME NEW x \in Seq(D), NEW d \in D
      PROVE  /\ Spread(e, F) = e /\ Spread(Append(x, d), F) = Spread(x, F) \o F[d]
             /\ Spread(e, G) = e /\ Spread(Append(x, d), G) = Spread(x, G) \o G[d]
             /\ Spread(e, H) = e /\ Spread(Append(x, d), H) = Spread(x, H) \o H[d]
  <2>1. Spread(e, F) = e /\ Spread(Append(x, d), F) = Spread(x, F) \o F[d]
    BY SpreadGrows
  <2>2. Spread(e, G) = e /\ Spread(Append(x, d), G) = Spread(x, G) \o G[d]
    BY SpreadGrows
  <2>3. Spread(e, H) = e /\ Spread(Append(x, d), H) = Spread(x, H) \o H[d]
    BY SpreadGrows
  <2> QED BY <2>1, <2>2, <2>3
<1>2. ASSUME NEW x \in Seq(D)
      PROVE  Spread(x, F) \in Seq(A) /\ Spread(x, G) \in Seq(B) /\ Spread(x, H) \in Seq(B)
  <2>1. F \in Spreading(D, A) /\ G \in Spreading(D, B) /\ H \in Spreading(D, B)
    BY DEF Spreading
  <2> QED BY <2>1, SpreadConcat
<1>3. e \in T
  <2>1. Spread(e, F) = e /\ Spread(e, G) = e /\ Spread(e, H) = e
    <3>1. \A Z : Mapped(e, Z) = e
      <4>1. \A Z : [i \in DOMAIN e |-> Z[e[i]]] = e
        OBVIOUS
      <4> QED BY <4>1 DEF Mapped
    <3>2. FlattenSeq(e) = e
      BY DEF FlattenSeq
    <3> QED BY <3>1, <3>2 DEF Spread
  <2>2. e \in Seq(D) /\ Len(e) = 0
    OBVIOUS
  <2>3. Aligned(e, e, e)
    BY <2>2 DEF Aligned
  <2> HIDE DEF e
  <2> QED BY <2>1, <2>2, <2>3
<1>4. ASSUME NEW x \in Seq(D), NEW d \in D, x \in T
      PROVE  Append(x, d) \in T
  <2> DEFINE y == Append(x, d)
             fx == Spread(x, F)
             gx == Spread(x, G)
             hx == Spread(x, H)
             fd == F[d]
             gd == G[d]
             hd == H[d]
  <2>1. y \in Seq(D) /\ Aligned(fx, gx, hx) /\ Aligned(fd, gd, hd)
    BY <1>4, AppendProperties
  <2>2. fx \in Seq(A) /\ gx \in Seq(B) /\ hx \in Seq(B) /\ fd \in Seq(A) /\ gd \in Seq(B) /\ hd \in Seq(B)
    BY <1>2
  <2>3. Spread(y, F) = fx \o fd /\ Spread(y, G) = gx \o gd /\ Spread(y, H) = hx \o hd
    BY <1>1
  <2> HIDE DEF y, fx, gx, hx, fd, gd, hd
  <2>4. Aligned(fx \o fd, gx \o gd, hx \o hd)
    BY <2>1, <2>2, AlignedJoin
  <2> QED BY <2>1, <2>3, <2>4 DEF y
<1> HIDE DEF T
<1>5. Seq(D) \subseteq T
  BY <1>3, <1>4, ListInduction
<1> QED BY <1>5 DEF T

(* The entries in the document of a result.                                *)
CompleteItems(v, list) ==
  LET items == ItemsOf(Get(v, list.array))
  IN  Only(items, {item \in ToSet(items) : \A key \in list.needs : Has(item, key)})

LEMMA EntriesOfResult ==
  ASSUME NEW x, NEW methods
  PROVE  LET method == MethodOf(methods, x.id)
         IN  EntryOf(EncodeResult(x), methods)
               = IF method \notin DOMAIN ListOf \/ x.kind = "error" THEN <<>>
                 ELSE CompleteItems(x.body, ListOf[method])
<1> DEFINE method == MethodOf(methods, x.id)
           list == ListOf[method]
           doc == EncodeResult(x)
<1>1. Get(doc, "id") = x.id
  BY EncodedIds
<1>2. Get(doc, "result") = IF x.kind = "error" \/ None(x.body) THEN Missing ELSE x.body
  BY EncodedResults
<1> HIDE DEF doc, list
<1>3. EntryOf(doc, methods)
        = IF method \notin DOMAIN ListOf THEN <<>> ELSE CompleteItems(Get(doc, "result"), list)
  BY <1>1 DEF EntryOf, CompleteItems, list
<1>4. \A v : None(v) => CompleteItems(v, list) = <<>>
  <2> SUFFICES ASSUME NEW v, None(v)
               PROVE  CompleteItems(v, list) = <<>>
    OBVIOUS
  <2>1. Get(v, list.array) = Missing
    BY DEF None, Get, IsObject, Missing, Null
  <2>2. ItemsOf(Missing) = <<>>
    BY DEF ItemsOf, IsArray, Missing
  <2> DEFINE D == {}
             e == <<>>
             S == {item \in ToSet(e) : \A key \in list.needs : Has(item, key)}
  <2>3. e \in Seq(D) /\ \A d \in D : d \notin S
    OBVIOUS
  <2>4. CompleteItems(v, list) = Only(e, S)
    BY <2>1, <2>2 DEF CompleteItems
  <2> HIDE DEF D, S, e
  <2>5. Only(e, S) = <<>>
    BY <2>3, OnlyNone
  <2> QED BY <2>4, <2>5
<1>5. None(Missing)
  BY DEF None
<1> QED BY <1>2, <1>3, <1>4, <1>5 DEF doc, list

(* The name of an entry and what it needs, by the kind of its list.        *)
LEMMA ListFacts ==
  ASSUME NEW method \in DOMAIN ListOf
  PROVE  LET list == ListOf[method]
             name == CASE list.kind = "resource" -> "uri"
                       [] list.kind = "resource_template" -> "uriTemplate"
                       [] OTHER -> "name"
         IN  name \in list.needs /\ name \in Names /\ "_meta" \in list.may
<1>1. method \in {"tools/list", "prompts/list", "resources/list", "resources/templates/list"}
  BY DEF ListOf
<1>2. CASE method = "tools/list"
  BY <1>2 DEF ListOf, Names, Common
<1>3. CASE method = "prompts/list"
  BY <1>3 DEF ListOf, Names, Common
<1>4. CASE method = "resources/list"
  BY <1>4 DEF ListOf, Names, Common
<1>5. CASE method = "resources/templates/list"
  BY <1>5 DEF ListOf, Names, Common
<1> QED BY <1>1, <1>2, <1>3, <1>4, <1>5

LEMMA TypedTells ==
  ASSUME NEW method \in DOMAIN ListOf, NEW v, NEW w,
         \A key \in ListOf[method].needs : Has(v, key),
         \A key \in Names : Get(w, key) = Get(v, key)
  PROVE  Tells([type |-> "schema", kind |-> ListOf[method].kind,
                item |-> Typed(v, ListOf[method])], v, w)
<1> DEFINE list == ListOf[method]
           keys == list.needs \cup {key \in list.may : ~None(Get(v, key))}
           item == Typed(v, list)
           name == CASE list.kind = "resource" -> "uri"
                     [] list.kind = "resource_template" -> "uriTemplate"
                     [] OTHER -> "name"
           change == [type |-> "schema", kind |-> list.kind, item |-> item]
<1>1. name \in list.needs /\ name \in Names /\ "_meta" \in list.may
  BY ListFacts
<1>2. /\ EncodeSchema(change).item = item
      /\ EncodeSchema(change).name = Get(item, name)
  BY DEF EncodeSchema
<1>3. item = Keeping(v, keys)
  BY DEF Typed
<1> HIDE DEF name, item, change
<1>4. name \in keys
  BY <1>1
<1>5. IsObject(v)
  BY <1>1 DEF Has, Get
<1> HIDE DEF keys
<1>6. /\ DOMAIN item.m \subseteq keys
      /\ \A key \in keys : Get(item, key) = Get(v, key)
  BY <1>3, <1>5, KeptMembers
<1>7. EncodeSchema(change).name = Get(w, name)
  BY <1>1, <1>2, <1>4, <1>6
<1>8. ASSUME NEW key \in DOMAIN item.m \cup {"_meta"}
      PROVE  SameMember(item, v, key)
  <2>1. CASE key \in keys
    BY <1>6, <2>1 DEF SameMember
  <2>2. CASE key \notin keys
    <3>1. key = "_meta" /\ key \notin DOMAIN item.m
      BY <1>6, <1>8, <2>2
    <3>2. None(Get(v, key))
      BY <1>1, <2>2, <3>1 DEF keys
    <3>3. None(Get(item, key))
      BY <3>1 DEF Get, None
    <3> QED BY <3>2, <3>3 DEF SameMember
  <2> QED BY <2>1, <2>2
<1> QED BY <1>1, <1>2, <1>7, <1>8 DEF Tells, change, item

(* The entries of every list, as it is served and as it is told.           *)
EntrySet(methods) ==
  UNION {ToSet(EntryOf(EncodeResult(x), methods)) : x \in Answers \cup {RewriteIfKnown(r, methods) : r \in Answers}}

(* Nothing goes with nothing.                                              *)
LEMMA NothingAligned ==
  Aligned(<<>>, <<>>, <<>>) /\ <<>> \in Seq(ToSet(<<>>))
<1> DEFINE e == <<>>
<1>1. e \in Seq(ToSet(e)) /\ Len(e) = 0
  OBVIOUS
<1> HIDE DEF e
<1>2. Aligned(e, e, e)
  BY <1>1 DEF Aligned
<1> QED BY <1>1, <1>2 DEF e

(* The entries of a result, of what is told of it, and the events it makes *)
(* go together.                                                            *)
LEMMA ResultAligned ==
  ASSUME NEW r \in Answers, NEW methods
  PROVE  LET served == EntryOf(EncodeResult(r), methods)
             told == EntryOf(EncodeResult(RewriteIfKnown(r, methods)), methods)
         IN  /\ served \in Seq(ToSet(served)) /\ told \in Seq(ToSet(told))
             /\ Aligned(SchemaEventsOf(r, methods), served, told)
<1> DEFINE x == RewriteIfKnown(r, methods)
           method == MethodOf(methods, r.id)
           list == ListOf[method]
           served == EntryOf(EncodeResult(r), methods)
           told == EntryOf(EncodeResult(x), methods)
           changes == SchemaEventsOf(r, methods)
<1>1. /\ IsResultRecord(x) /\ x.id = r.id /\ x.kind = r.kind
      /\ x.body = IF r.kind = "error" \/ None(r.body) THEN r.body ELSE Rewrite(method, r.body)
  BY RewrittenResult
<1> HIDE DEF x
<1>2. /\ served = IF method \notin DOMAIN ListOf \/ r.kind = "error" THEN <<>>
                  ELSE CompleteItems(r.body, list)
      /\ told = IF method \notin DOMAIN ListOf \/ r.kind = "error" THEN <<>>
                ELSE CompleteItems(x.body, list)
  BY <1>1, EntriesOfResult
<1> HIDE DEF served, told, changes
<1>3. CASE method \notin DOMAIN ListOf \/ r.kind = "error"
  <2>1. served = <<>> /\ told = <<>> /\ changes = <<>>
    BY <1>2, <1>3 DEF changes, SchemaEventsOf
  <2> QED BY <2>1, NothingAligned DEF served, told, changes, x
<1>4. CASE method \in DOMAIN ListOf /\ r.kind # "error" /\ None(r.body)
  <2>1. changes = <<>> /\ served = CompleteItems(r.body, list) /\ told = served
    BY <1>1, <1>2, <1>4 DEF changes, SchemaEventsOf
  <2>3. Get(r.body, list.array) = Missing
    BY <1>4 DEF None, Get, IsObject, Missing, Null
  <2>4. ItemsOf(Missing) = <<>>
    BY DEF ItemsOf, IsArray, Missing
  <2> DEFINE D == {}
             e == <<>>
             S == {item \in ToSet(e) : \A key \in list.needs : Has(item, key)}
  <2>5. e \in Seq(D) /\ \A d \in D : d \notin S
    OBVIOUS
  <2>6. CompleteItems(r.body, list) = Only(e, S)
    BY <2>3, <2>4 DEF CompleteItems
  <2> HIDE DEF D, S, e
  <2>7. Only(e, S) = <<>>
    BY <2>5, OnlyNone
  <2>8. changes = <<>> /\ served = <<>> /\ told = <<>>
    BY <2>1, <2>6, <2>7
  <2> QED BY <2>8, NothingAligned DEF served, told, changes, x
<1>5. CASE method \in DOMAIN ListOf /\ r.kind # "error" /\ ~None(r.body)
  <2> DEFINE before == ItemsOf(Get(r.body, list.array))
             after == ItemsOf(Get(x.body, list.array))
             S == {item \in ToSet(before) : \A key \in list.needs : Has(item, key)}
             T == {item \in ToSet(after) : \A key \in list.needs : Has(item, key)}
             tell(item) == [type |-> "schema", kind |-> list.kind, item |-> Typed(item, list)]
  <2>1. PICK doc \in Documents : r = ResultOf(doc)
    BY DEF Answers
  <2>2. r.body = Get(doc, "result")
    BY <1>5, <2>1 DEF ResultOf
  <2>3. PICK reply \in Replies : doc \in DocumentsOf(reply)
    <3>1. CASE doc \in {LF, [t |-> "text"]}
      <4>1. ~IsObject(doc)
        BY <3>1 DEF IsObject, LF, Word
      <4>2. None(r.body)
        BY <2>2, <4>1 DEF Get, None
      <4> QED BY <1>5, <4>2
    <3> QED BY <3>1 DEF Documents
  <2>4. before \in Seq(ToSet(before))
    BY <1>5, <2>2, <2>3, ExchangeAssumption DEF ProperList
  <2>5. x.body = Rewrite(method, r.body)
    BY <1>1, <1>5
  <2>6. after \in Seq(ToSet(after)) /\ SameEntries(before, after, list.needs)
    <3> DEFINE res == Get(doc, "result")
               rew == Rewrite(method, res)
    <3>1. ~None(res) =>
            /\ ProperList(Get(rew, list.array))
            /\ SameEntries(ItemsOf(Get(res, list.array)), ItemsOf(Get(rew, list.array)), list.needs)
      BY <1>5, <2>3, RewriteAssumption
    <3> QED BY <1>5, <2>2, <2>5, <3>1 DEF ProperList
  <2>7. served = Only(before, S) /\ told = Only(after, T)
    BY <1>2, <1>5 DEF CompleteItems
  <2>8. changes = [i \in DOMAIN Only(before, S) |-> tell(Only(before, S)[i])]
    BY <1>5 DEF changes, SchemaEventsOf
  <2> DEFINE A == ToSet(before)
             B == ToSet(after)
  <2>9. \A i \in DOMAIN before : before[i] \in S <=> after[i] \in T
    <3>1. \A i \in DOMAIN before : i \in DOMAIN after /\ before[i] \in A /\ after[i] \in B
      BY <2>6 DEF SameEntries, ToSet
    <3> HIDE DEF A, B
    <3>2. \A i \in DOMAIN before : before[i] \in S <=> \A key \in list.needs : Has(before[i], key)
      BY <3>1 DEF A
    <3>3. \A i \in DOMAIN before : after[i] \in T <=> \A key \in list.needs : Has(after[i], key)
      BY <3>1 DEF B
    <3> HIDE DEF before, after, S, T
    <3> QED BY <2>6, <3>2, <3>3 DEF SameEntries
  <2>10. \A v \in S : \A key \in list.needs : Has(v, key)
    OBVIOUS
  <2>11. DOMAIN after = DOMAIN before /\ \A i \in DOMAIN before : \A key \in Names : Get(after[i], key) = Get(before[i], key)
    BY <2>6 DEF SameEntries
  <2> HIDE DEF before, after, S, T, A, B
  <2>12. InStep(before, after, served, told)
    BY <2>4, <2>6, <2>7, <2>9, <2>11, OnlyInStep DEF A, B
  <2>13. served \in Seq(A \cap S) /\ told \in Seq(B \cap T)
    BY <2>4, <2>6, <2>7, OnlyKeeps DEF A, B
  <2>14. served \in Seq(ToSet(served)) /\ told \in Seq(ToSet(told))
    BY <2>13, ListOfItself
  <2>15. /\ Len(served) \in Nat /\ DOMAIN served = 1 .. Len(served)
         /\ \A i \in 1 .. Len(served) : served[i] \in S
         /\ Len(told) = Len(served)
    BY <2>12, <2>13, LenProperties DEF InStep
  <2>16. ASSUME NEW i \in 1 .. Len(told)
         PROVE  Tells(changes[i], served[i], told[i])
    <3> DEFINE v == served[i]
               w == told[i]
    <3>1. PICK j \in DOMAIN before : v = before[j] /\ w = after[j]
      BY <2>12, <2>15 DEF InStep
    <3>2. (\A key \in list.needs : Has(v, key)) /\ \A key \in Names : Get(w, key) = Get(v, key)
      BY <2>10, <2>11, <2>15, <3>1
    <3>3. changes[i] = tell(v)
      BY <2>7, <2>8, <2>15
    <3> HIDE DEF v, w
    <3>4. Tells(tell(v), v, w)
      BY <1>5, <3>2, TypedTells
    <3> QED BY <3>3, <3>4 DEF v, w
  <2>17. Len(changes) = Len(told)
    <3>1. DOMAIN changes = 1 .. Len(served)
      BY <2>7, <2>8, <2>15
    <3>2. changes \in Seq(ToSet(changes))
      BY SchemaEventsOfTyped DEF changes
    <3> QED BY <2>15, <3>1, <3>2, LenProperties
  <2>18. Aligned(changes, served, told)
    BY <2>15, <2>16, <2>17 DEF Aligned
  <2> QED BY <2>14, <2>18 DEF served, told, changes, x
<1> QED BY <1>3, <1>4, <1>5

(* The events about schemas keep up with what the client is told.          *)
ServedF(methods) == [r \in Answers |-> EntryOf(EncodeResult(r), methods)]
ToldEntriesF(methods) == [r \in Answers |-> EntryOf(EncodeResult(RewriteIfKnown(r, methods)), methods)]

LEMMA ResultsAligned ==
  ASSUME NEW rs \in Seq(Answers), NEW methods
  PROVE  /\ SchemaEvents(rs, methods) \in Seq(SchemaSet(methods))
         /\ EntriesIn(TellOf(rs, methods), methods) \in Seq(EntrySet(methods))
         /\ Aligned(SchemaEvents(rs, methods), EntriesIn(Encoded(rs), methods),
                    EntriesIn(TellOf(rs, methods), methods))
<1> DEFINE F == SchemaF(methods)
           G == ServedF(methods)
           H == ToldEntriesF(methods)
           A == SchemaSet(methods)
           B == EntrySet(methods)
<1>1. ASSUME NEW r \in Answers
      PROVE  /\ G[r] \in Seq(B) /\ H[r] \in Seq(B)
             /\ Aligned(F[r], G[r], H[r])
  <2> DEFINE served == EntryOf(EncodeResult(r), methods)
             told == EntryOf(EncodeResult(RewriteIfKnown(r, methods)), methods)
             P == ToSet(served)
             Q == ToSet(told)
  <2>1. served \in Seq(P) /\ told \in Seq(Q) /\ Aligned(SchemaEventsOf(r, methods), served, told)
    BY ResultAligned
  <2>2. P \subseteq B /\ Q \subseteq B
    BY DEF EntrySet
  <2>3. G[r] = served /\ H[r] = told /\ F[r] = SchemaEventsOf(r, methods)
    BY DEF ServedF, ToldEntriesF, SchemaF
  <2> HIDE DEF P, Q, B, served, told, F, G, H
  <2>4. served \in Seq(B) /\ told \in Seq(B)
    BY <2>1, <2>2, SeqMonotonic
  <2> QED BY <2>1, <2>3, <2>4
<1>2. F \in [Answers -> Seq(A)] /\ SchemaEvents(rs, methods) = Spread(rs, F)
  BY SchemaEventsSpread
<1>3. DOMAIN rs = 1 .. Len(rs) /\ \A i \in 1 .. Len(rs) : rs[i] \in Answers
  BY LenProperties
<1>4. EntriesIn(Encoded(rs), methods) = Spread(rs, G)
  <2>1. [i \in DOMAIN Encoded(rs) |-> EntryOf(Encoded(rs)[i], methods)] = Mapped(rs, G)
    BY <1>3 DEF Encoded, Mapped, ServedF
  <2> QED BY <2>1 DEF EntriesIn, Spread
<1>5. EntriesIn(TellOf(rs, methods), methods) = Spread(rs, H)
  <2>1. [i \in DOMAIN TellOf(rs, methods) |-> EntryOf(TellOf(rs, methods)[i], methods)] = Mapped(rs, H)
    BY <1>3 DEF TellOf, Mapped, ToldEntriesF
  <2> QED BY <2>1 DEF EntriesIn, Spread
<1>6. G \in [Answers -> Seq(B)] /\ H \in [Answers -> Seq(B)]
  <2>1. \A r \in Answers : EntryOf(EncodeResult(r), methods) \in Seq(B)
                          /\ EntryOf(EncodeResult(RewriteIfKnown(r, methods)), methods) \in Seq(B)
    BY <1>1 DEF ServedF, ToldEntriesF
  <2> HIDE DEF B
  <2> QED BY <2>1 DEF ServedF, ToldEntriesF
<1> HIDE DEF F, G, H, A, B
<1>7. Aligned(Spread(rs, F), Spread(rs, G), Spread(rs, H))
  BY <1>1, <1>2, <1>6, AlignedSpread
<1>8. Spread(rs, F) \in Seq(A) /\ Spread(rs, H) \in Seq(B)
  <2>1. F \in Spreading(Answers, A) /\ H \in Spreading(Answers, B)
    BY <1>2, <1>6 DEF Spreading
  <2> QED BY <2>1, SpreadConcat
<1> QED BY <1>2, <1>4, <1>5, <1>7, <1>8 DEF A, B

(* SchemaAsServed, of given lists. *)
Announces(announced, served, told) ==
  /\ Len(announced) = Len(told)
  /\ \A i \in DOMAIN told :
       /\ \A key \in DOMAIN announced[i].item.m \cup {"_meta"} :
            SameMember(announced[i].item, served[i], key)
       /\ announced[i].name \in {Get(told[i], key) : key \in Names}

LEMMA SchemaStory ==
  ASSUME TypeInv, StreamInv, StagesInv
  PROVE  SchemaAsServed
<1> DEFINE m == Methods
           changes == SchemaEvents(raw, m)
           served == EntriesIn(Encoded(raw), m)
           told == EntriesIn(TellOf(raw, m), m)
<1>1. raw \in Seq(Answers) /\ SchemaEventsSent = changes
  BY DEF StagesInv, StagesKept
<1>2. Aligned(changes, served, told)
  BY <1>1, ResultsAligned
<1>3. EntriesOf(Answered) = told /\ EntriesOf(Encoded(raw)) = served
  <2>1. EntriesOf(Answered) = EntriesIn(Answered, m) /\ EntriesOf(Encoded(raw)) = served
    BY AnswerRead
  <2>2. CASE Streamed
    <3>1. PICK popped \in Seq(Seq(Documents)) : StreamTold(popped)
      BY <2>2 DEF StreamInv
    <3>2. Answered = Told(popped, m) /\ raw = ResultsOf(popped)
      BY <3>1, StreamAnswered DEF StreamTold
    <3> QED BY <2>1, <3>2 DEF Told
  <2>3. CASE Answered = TellOf(raw, m)
    BY <2>1, <2>3
  <2>4. CASE raw = <<>> /\ EntriesOf(Answered) = <<>>
    <3>1. TellOf(raw, m) = <<>>
      <4>1. raw \in Seq({}) /\ DOMAIN raw = {}
        BY <2>4
      <4>2. [i \in {} |-> EncodeResult(RewriteIfKnown(raw[i], m))] = <<>>
        OBVIOUS
      <4> QED BY <4>1, <4>2 DEF TellOf
    <3>2. told = <<>>
      BY <3>1, NoDocsNoEntries
    <3> QED BY <2>1, <2>4, <3>2
  <2> QED BY <2>2, <2>3, <2>4 DEF StagesInv, Buffered
<1>4. changes \in Seq(SchemaSet(m)) /\ told \in Seq(EntrySet(m))
  BY <1>1, ResultsAligned
<1> DEFINE announced == [i \in DOMAIN changes |-> EncodeSchema(changes[i])]
           S == {EncodeSchema(e) : e \in SchemaSet(m)}
<1> HIDE DEF changes, served, told
<1>5. /\ Len(changes) \in Nat /\ DOMAIN changes = 1 .. Len(changes)
      /\ \A i \in 1 .. Len(changes) : changes[i] \in SchemaSet(m)
      /\ Len(told) \in Nat /\ DOMAIN told = 1 .. Len(told)
  BY <1>4, LenProperties
<1>6. announced \in [1 .. Len(changes) -> S]
  BY <1>5
<1>7. /\ [i \in DOMAIN SchemaEventsSent |-> EncodeSchema(SchemaEventsSent[i])] = announced
      /\ \A i \in 1 .. Len(changes) : announced[i] = EncodeSchema(changes[i])
  BY <1>1, <1>5
<1> HIDE DEF announced, S, m
<1>8. Len(announced) = Len(changes)
  BY <1>5, <1>6, FunctionIsList
<1> DEFINE Says(said, kept, heard) ==
             /\ \A key \in DOMAIN said.item.m \cup {"_meta"} : SameMember(said.item, kept, key)
             /\ said.name \in {Get(heard, key) : key \in Names}
<1>9. /\ Len(changes) = Len(told)
      /\ \A i \in 1 .. Len(told) : Says(EncodeSchema(changes[i]), served[i], told[i])
  BY <1>2 DEF Aligned, Tells
<1>10. \A i \in 1 .. Len(told) : Says(announced[i], served[i], told[i])
  <2> HIDE DEF Says
  <2> QED BY <1>5, <1>7, <1>9
<1>11. Announces(announced, served, told)
  BY <1>5, <1>8, <1>9, <1>10 DEF Announces
<1>12. SchemaAsServed = Announces([i \in DOMAIN SchemaEventsSent |-> EncodeSchema(SchemaEventsSent[i])],
                                  EntriesOf(Encoded(raw)), EntriesOf(Answered))
  BY DEF SchemaAsServed, Announces
<1> QED BY <1>3, <1>7, <1>11, <1>12

(* SchemaAsServed, for every exchange: the schema stage announces every    *)
(* entry the client is told of, once, in order and under the same name,    *)
(* with the members the server gave it and not the proxy's rewriting.      *)
THEOREM SchemaTold == Spec => []SchemaAsServed
<1>1. IInv => SchemaAsServed
  BY SchemaStory DEF IInv
<1> QED BY <1>1, InvariantHolds, PTL

-----------------------------------------------------------------------------
(* The upstream's share of every exchange is within the whole, and all the *)
(* events of one stream report the same share (health and request timer).  *)
THEOREM TimesAgree == Spec => []TimesConsistent
<1>1. IInv => TimesConsistent
  BY DEF IInv, TimesInv
<1> QED BY <1>1, InvariantHolds, PTL

(* The server has every call of a body once and in order, or the body      *)
(* whole.                                                                  *)
THEOREM CallsReachServer == Spec => []NothingSkipped
<1>1. IInv => NothingSkipped
  BY DEF IInv, SentInv
<1> QED BY <1>1, InvariantHolds, PTL

(* The cloud's envelopes and the line on stderr tell one story of every    *)
(* event, in whatever order a batch was answered.                          *)
THEOREM SinksTellOneStory == Spec => []SinksAgree
<1>1. IInv => SinksAgree
  <2> SUFFICES ASSUME IInv, NEW e \in ToSet(events), e.type = "request",
                      e.request.kind \in {"mcp", "batch"}
               PROVE  OneStory(e)
    BY DEF SinksAgree
  <2> QED BY StoryOfEvent DEF IInv, SinksInv
<1> QED BY <1>1, InvariantHolds, PTL
=============================================================================
