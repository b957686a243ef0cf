------------------------------ MODULE VtParser ------------------------------
(***************************************************************************)
(* term::VtParser: bytes of the remote shell become calls of the terminal. *)
(* The parser is one record; Advance is VtParser::advance, with one        *)
(* operator for each state of the machine, and `out` holds the calls of    *)
(* VtHandler that the last byte made, in order.  Bytes are numbers.        *)
(*                                                                         *)
(* Input comes in pieces of any length; the parser looks at one byte after *)
(* the other and keeps all it knows between pieces, so a piece has no part *)
(* in the model.  Sub-parameter counts, which nothing reads, are left out. *)
(***************************************************************************)
EXTENDS Integers, Sequences, FiniteSets

CONSTANTS
  Bytes,          \* bytes the shell sends
  MaxParameters,  \* CsiSequence::kMaxParameters
  MaxValue,       \* a parameter that has reached this takes no more digits
  MaxPayload,     \* bytes of an OSC that are kept
  MaxBody         \* bound: bytes of one control sequence

ASSUME ParserAssumption ==
  /\ Bytes \subseteq 0..255
  /\ MaxParameters \in Nat \ {0} /\ MaxValue \in Nat
  /\ MaxPayload \in Nat \ {0} /\ MaxBody \in Nat

VARIABLES
  parser,  \* the members of VtParser, and the calls of the last byte
  body,    \* history: bytes since the introducer of the present sequence
  unit     \* history: bytes of the character being decoded

parserVars == <<parser, body, unit>>

Esc == 27
Can == 24
Sub == 26
Bel == 7
St  == 156
Replacement == 65533

IsC0(b)           == b <= 23 \/ b = 25 \/ b \in 28..31
IsIntermediate(b) == b \in 32..47
IsParameter(b)    == b \in 48..63
IsMarker(b)       == b \in 60..63
IsDigit(b)        == b \in 48..57
IsSeparator(b)    == b \in {58, 59}
IsFinal(b)        == b \in 64..126
IsEscapeFinal(b)  == b \in 48..126

None == 0  \* '\0': no private marker, no intermediate

Fresh ==
  [state |-> "Ground",
   parameters |-> <<>>, started |-> FALSE, marker |-> None, intermediate |-> None,
   payload |-> <<>>, terminator |-> FALSE,
   remaining |-> 0, codePoint |-> 0, minimum |-> 0,
   out |-> <<>>]

-----------------------------------------------------------------------------
(* What the states have in common.                                         *)

Call(p, event) == [p EXCEPT !.out = Append(@, event)]

Enter(p, state) == [p EXCEPT !.state = state]

\* variant: the private marker and the intermediate are left.
ClearParameters(p) == [p EXCEPT !.parameters = <<>>, !.started = FALSE]

ClearSequence(p) ==
  [p EXCEPT !.parameters = <<>>, !.started = FALSE,
            !.marker = None, !.intermediate = None]

Execute(p, b) == Call(p, [call |-> "execute", byte |-> b])

Printed(p, codePoint) == Call(p, [call |-> "print", codePoint |-> codePoint])

\* A sequence as csiDispatch and dcsHook get it.
Sequence(p, call, final) ==
  [call |-> call, parameters |-> p.parameters, marker |-> p.marker,
   intermediate |-> p.intermediate, final |-> final]

CsiDispatch(p, b) == Enter(Call(p, Sequence(p, "csi", b)), "Ground")

DcsHook(p, b) == Enter(Call(p, Sequence(p, "hook", b)), "DcsPassthrough")

Unhook(p) ==
  IF p.state = "DcsPassthrough" THEN Call(p, [call |-> "unhook"]) ELSE p

OscDispatch(p) ==
  [Enter(Call(p, [call |-> "osc", payload |-> p.payload]), "Ground")
     EXCEPT !.payload = <<>>]

CollectIntermediate(p, b) ==
  [p EXCEPT !.intermediate = IF @ = None THEN b ELSE @]

-----------------------------------------------------------------------------
(* collectParameter.                                                       *)

\* variant: a separator makes room for a parameter of its own.
CollectPhantom(p) ==
  [p EXCEPT !.parameters = IF Len(@) < MaxParameters THEN Append(@, -1) ELSE @,
            !.started = FALSE]

\* variant: an omitted parameter is stored whether there is room or not.
CollectUnbounded(p) ==
  [p EXCEPT !.parameters = IF ~p.started THEN Append(@, -1) ELSE @,
            !.started = FALSE]

\* A separator ends a parameter; one that was never begun counts as omitted.
CollectSeparator(p) ==
  [p EXCEPT !.parameters = IF ~p.started /\ Len(@) < MaxParameters
                           THEN Append(@, -1) ELSE @,
            !.started = FALSE]

WithDigit(value, b) == IF value < MaxValue THEN value * 10 + (b - 48) ELSE value

\* The test for room comes before the test for a begun parameter: the last
\* parameter there is room for gets its first digit only.
CollectDigit(p, b) ==
  LET full  == Len(p.parameters) >= MaxParameters
      begun == IF p.started THEN p.parameters ELSE Append(p.parameters, 0)
  IN  IF full THEN p
      ELSE [p EXCEPT !.parameters = [begun EXCEPT ![Len(begun)] = WithDigit(@, b)],
                     !.started = TRUE]

CollectParameter(p, b) ==
  IF IsSeparator(b) THEN CollectSeparator(p)
  ELSE IF IsDigit(b) THEN CollectDigit(p, b) ELSE p

-----------------------------------------------------------------------------
(* decodeUtf8.                                                             *)

Expecting(p, n, bits, minimum) ==
  [p EXCEPT !.remaining = n, !.codePoint = bits, !.minimum = minimum]

\* What the decoder keeps of a character means nothing when it waits for none.
Idle(p) == [p EXCEPT !.remaining = 0, !.codePoint = 0, !.minimum = 0]

DecodeFirst(p, b) ==
  CASE b < 128         -> Printed(p, b)
    [] b \in 192..223  -> Expecting(p, 1, b % 32, 128)
    [] b \in 224..239  -> Expecting(p, 2, b % 16, 2048)
    [] b \in 240..247  -> Expecting(p, 3, b % 8, 65536)
    [] OTHER           -> Printed(p, Replacement)

IsContinuation(b) == b \in 128..191

IsSurrogate(codePoint) == codePoint >= 55296 /\ codePoint <= 57343

\* variant: a character in more bytes than it needs is taken.
AcceptableLong(codePoint, minimum) ==
  ~IsSurrogate(codePoint) /\ codePoint <= 1114111

Acceptable(codePoint, minimum) ==
  codePoint >= minimum /\ ~IsSurrogate(codePoint) /\ codePoint <= 1114111

DecodeNext(p, b) ==
  LET codePoint == p.codePoint * 64 + (b % 64)
      rest      == p.remaining - 1
  IN  IF rest > 0 THEN [p EXCEPT !.remaining = rest, !.codePoint = codePoint]
      ELSE Printed(Idle(p),
                   IF Acceptable(codePoint, p.minimum) THEN codePoint ELSE Replacement)

DecodeUtf8(p, b) ==
  IF p.remaining = 0 THEN DecodeFirst(p, b)
  ELSE IF IsContinuation(b) THEN DecodeNext(p, b)
  ELSE DecodeFirst(Printed(Idle(p), Replacement), b)

-----------------------------------------------------------------------------
(* advance: what the byte does in each state.                              *)

InGround(p, b) == IF IsC0(b) THEN Execute(p, b) ELSE DecodeUtf8(p, b)

\* RIS makes the terminal reset the parser in the middle of the call.
EscDispatch(p, intermediate, b) ==
  LET q == Call(p, [call |-> "esc", intermediate |-> intermediate, final |-> b])
  IN  IF b = 99 /\ intermediate \notin {40, 41} THEN [Fresh EXCEPT !.out = q.out]
      ELSE Enter(q, "Ground")

InEscape(p, b) ==
  CASE IsC0(b)            -> Execute(p, b)
    [] IsIntermediate(b)  -> Enter(CollectIntermediate(p, b), "EscapeIntermediate")
    [] b = 91             -> Enter(ClearSequence(p), "CsiEntry")
    [] b = 93             -> Enter([p EXCEPT !.payload = <<>>], "OscString")
    [] b = 80             -> Enter(ClearSequence(p), "DcsEntry")
    [] b \in {88, 94, 95} -> Enter(p, "SosPmApcString")
    [] IsEscapeFinal(b) /\ b \notin {80, 88, 91, 93, 94, 95}
                          -> EscDispatch(p, None, b)
    [] OTHER              -> p

InEscapeIntermediate(p, b) ==
  CASE IsC0(b)           -> Execute(p, b)
    [] IsIntermediate(b) -> CollectIntermediate(p, b)
    [] IsEscapeFinal(b)  -> EscDispatch(p, p.intermediate, b)
    [] OTHER             -> p

InCsiEntry(p, b) ==
  CASE IsC0(b)           -> Execute(p, b)
    [] IsMarker(b)       -> Enter([p EXCEPT !.marker = b], "CsiParam")
    [] IsParameter(b) /\ ~IsMarker(b)
                         -> Enter(CollectParameter(p, b), "CsiParam")
    [] IsIntermediate(b) -> Enter(CollectIntermediate(p, b), "CsiIntermediate")
    [] IsFinal(b)        -> CsiDispatch(p, b)
    [] OTHER             -> Enter(p, "CsiIgnore")

InCsiParam(p, b) ==
  CASE IsC0(b)           -> Execute(p, b)
    [] IsMarker(b)       -> Enter(p, "CsiIgnore")
    [] IsParameter(b) /\ ~IsMarker(b)
                         -> CollectParameter(p, b)
    [] IsIntermediate(b) -> Enter(CollectIntermediate(p, b), "CsiIntermediate")
    [] IsFinal(b)        -> CsiDispatch(p, b)
    [] OTHER             -> Enter(p, "CsiIgnore")

InCsiIntermediate(p, b) ==
  CASE IsC0(b)           -> Execute(p, b)
    [] IsIntermediate(b) -> CollectIntermediate(p, b)
    [] IsParameter(b)    -> Enter(p, "CsiIgnore")
    [] IsFinal(b)        -> CsiDispatch(p, b)
    [] OTHER             -> p

InCsiIgnore(p, b) ==
  CASE IsC0(b)    -> Execute(p, b)
    [] IsFinal(b) -> Enter(p, "Ground")
    [] OTHER      -> p

\* DcsEntry takes a private marker; after parameters one ends the sequence.
InDcs(p, b) ==
  CASE IsMarker(b) /\ p.state = "DcsEntry"
         -> Enter([p EXCEPT !.marker = b], "DcsParam")
    [] IsParameter(b) /\ ~IsMarker(b) /\ p.state # "DcsIntermediate"
         -> Enter(CollectParameter(p, b), "DcsParam")
    [] IsIntermediate(b)
         -> Enter(CollectIntermediate(p, b), "DcsIntermediate")
    [] IsFinal(b)
         -> DcsHook(p, b)
    [] OTHER
         -> Enter(p, "DcsIgnore")

InDcsPassthrough(p, b) ==
  IF b = St THEN Enter(Unhook(p), "Ground")
  ELSE IF b # 127 THEN Call(p, [call |-> "put", byte |-> b]) ELSE p

InIgnoredString(p, b) == IF b = St THEN Enter(p, "Ground") ELSE p

InOscString(p, b) ==
  IF b \in {Bel, St} THEN OscDispatch(p)
  ELSE IF (b >= 32 \/ b = 9) /\ Len(p.payload) < MaxPayload
  THEN [p EXCEPT !.payload = Append(@, b)] ELSE p

InState(p, b) ==
  CASE p.state = "Ground"             -> InGround(p, b)
    [] p.state = "Escape"             -> InEscape(p, b)
    [] p.state = "EscapeIntermediate" -> InEscapeIntermediate(p, b)
    [] p.state = "CsiEntry"           -> InCsiEntry(p, b)
    [] p.state = "CsiParam"           -> InCsiParam(p, b)
    [] p.state = "CsiIntermediate"    -> InCsiIntermediate(p, b)
    [] p.state = "CsiIgnore"          -> InCsiIgnore(p, b)
    [] p.state \in {"DcsEntry", "DcsParam", "DcsIntermediate"} -> InDcs(p, b)
    [] p.state = "DcsPassthrough"     -> InDcsPassthrough(p, b)
    [] p.state \in {"DcsIgnore", "SosPmApcString"} -> InIgnoredString(p, b)
    [] p.state = "OscString"          -> InOscString(p, b)

\* ESC begins a sequence in every state; after an OSC it may be "ESC \".
OnEscape(p) ==
  LET terminator == p.state = "OscString"
  IN  [Enter(Unhook(ClearSequence(p)), "Escape")
         EXCEPT !.terminator = terminator,
                !.payload = IF terminator THEN @ ELSE <<>>]

OnCancel(p, b) ==
  LET q == Unhook(p)
  IN  [Enter(IF b = Sub THEN Printed(q, Replacement) ELSE q, "Ground")
         EXCEPT !.terminator = FALSE, !.payload = <<>>]

Advance(last, b) ==
  LET p == [last EXCEPT !.out = <<>>]
  IN  CASE b = Esc                      -> OnEscape(p)
        [] b \in {Can, Sub}             -> OnCancel(p, b)
        [] p.terminator /\ b = 92       -> [OscDispatch(p) EXCEPT !.terminator = FALSE]
        [] p.terminator /\ b \notin {92, Esc, Can, Sub}
                                        -> InState([p EXCEPT !.terminator = FALSE,
                                                             !.payload = <<>>], b)
        [] OTHER                        -> InState(p, b)

-----------------------------------------------------------------------------
(* Bytes arrive.                                                           *)

Strings == {"CsiEntry", "CsiParam", "CsiIntermediate",
            "DcsEntry", "DcsParam", "DcsIntermediate", "OscString"}

IsText(p, b) == p.state = "Ground" /\ b \notin {Esc, Can, Sub} /\ ~IsC0(b)

ParserInit == parser = Fresh /\ body = <<>> /\ unit = <<>>

Receive(b) ==
  LET next == Advance(parser, b)
  IN  /\ next.state \in Strings => Len(body) < MaxBody
      /\ parser' = next
      /\ body' = CASE b = Esc -> IF parser.state = "OscString" THEN body ELSE <<>>
                   [] parser.state \in Strings /\ next.state \in Strings
                          -> Append(body, b)
                   [] OTHER -> <<>>
      /\ unit' = CASE next.remaining = 0 -> <<>>
                   [] next.remaining > 0 /\ ~IsText(parser, b) -> unit
                   [] next.remaining > 0 /\ IsText(parser, b)
                          -> IF IsContinuation(b) THEN Append(unit, b) ELSE <<b>>

ParserNext == \E b \in Bytes : Receive(b)

ParserSpec == ParserInit /\ [][ParserNext]_parserVars

-----------------------------------------------------------------------------
(* References: what the bytes mean, not how they are read.                 *)

\* The field of a sequence's parameters that its i-th byte belongs to.
FieldOf(bytes, i) == Cardinality({j \in 1..i : IsSeparator(bytes[j])}) + 1

IsDigitOf(bytes, i, k) == IsDigit(bytes[i]) /\ FieldOf(bytes, i) = k

\* Separators stand between the fields; an empty one at the end is none.
FieldCount(bytes) ==
  LET last == FieldOf(bytes, Len(bytes))
  IN  IF \E i \in DOMAIN bytes : IsDigitOf(bytes, i, last) THEN last ELSE last - 1

\* What the k-th field says; -1 if it is omitted.
Value(bytes, k) ==
  LET upTo[i \in 0..Len(bytes)] ==
        IF i = 0 THEN -1
        ELSE IF ~IsDigitOf(bytes, i, k) THEN upTo[i - 1]
        ELSE WithDigit(IF upTo[i - 1] = -1 THEN 0 ELSE upTo[i - 1], bytes[i])
  IN  upTo[Len(bytes)]

\* What an OSC's bytes say, control characters left out.
TextOf(bytes) ==
  LET upTo[i \in 0..Len(bytes)] ==
        IF i = 0 THEN <<>>
        ELSE IF bytes[i] >= 32 \/ bytes[i] = 9 THEN Append(upTo[i - 1], bytes[i])
        ELSE upTo[i - 1]
  IN  upTo[Len(bytes)]

\* A byte after the first, of the number's lowest bits.
Low(n) == 128 + (n % 64)

TwoBytes(c)   == <<192 + (c \div 64), Low(c)>>
ThreeBytes(c) == <<224 + (c \div 4096), Low(c \div 64), Low(c)>>
FourBytes(c)  == <<240 + (c \div 262144), Low(c \div 4096), Low(c \div 64), Low(c)>>

\* The shortest encoding of a code point.
Encoded(c) ==
  CASE c < 128                -> <<c>>
    [] c >= 128 /\ c < 2048   -> TwoBytes(c)
    [] c >= 2048 /\ c < 65536 -> ThreeBytes(c)
    [] c >= 65536             -> FourBytes(c)

\* The number of bytes a first byte asks for; 0 if it is none.
LengthFor(b) ==
  CASE b < 128 -> 1 [] b \in 128..191 -> 0 [] b \in 192..223 -> 2
    [] b \in 224..239 -> 3 [] b \in 240..247 -> 4 [] OTHER -> 0

\* The bits a first byte and those after it hold.
FirstBits(b) ==
  CASE b \in 192..223 -> b % 32 [] b \in 224..239 -> b % 16 [] OTHER -> b % 8

NextBits(value, b) == value * 64 + (b % 64)

Number(u) ==
  LET two   == NextBits(FirstBits(u[1]), u[2])
      three == NextBits(two, u[3])
  IN  CASE Len(u) = 2 -> two [] Len(u) = 3 -> three [] OTHER -> NextBits(three, u[4])

\* What is printed for the bytes u of which the last has just arrived.
Meaning(u) ==
  LET alone == LengthFor(u[Len(u)])
      first == IF alone = 1 THEN <<u[Len(u)]>>
               ELSE IF alone = 0 THEN <<Replacement>> ELSE <<>>
  IN  CASE Len(u) = 1 -> first
        [] Len(u) > 1 /\ ~IsContinuation(u[Len(u)]) -> <<Replacement>> \o first
        [] Len(u) > 1 /\ IsContinuation(u[Len(u)]) /\ Len(u) < LengthFor(u[1]) -> <<>>
        [] OTHER -> IF Encoded(Number(u)) = u /\ Number(u) <= 1114111
                       /\ ~IsSurrogate(Number(u))
                    THEN <<Number(u)>> ELSE <<Replacement>>

-----------------------------------------------------------------------------
(* Properties.                                                             *)

States ==
  Strings \cup {"Ground", "Escape", "EscapeIntermediate", "CsiIgnore",
                "DcsPassthrough", "DcsIgnore", "SosPmApcString"}

\* The parser's members are in range: no parameter beyond the array, no payload
\* beyond its cap, and the decoder waits for three bytes at most.
ParserTypeOK ==
  /\ parser.state \in States
  /\ Len(parser.parameters) <= MaxParameters
  /\ Len(parser.payload) <= MaxPayload
  /\ parser.remaining \in 0..3
  /\ parser.terminator => parser.state = "Escape"
  /\ Len(body) <= MaxBody

\* A control sequence is dispatched with the numbers that were written between
\* its separators, an omitted one marked as such, however many bytes it had and
\* whatever control characters were in between (VtParser.cpp:86).  The last
\* parameter there is room for is excepted: it gets its first digit only.
ParametersAsWritten ==
  [][ \A i \in 1..Len(parser'.out) :
        parser'.out[i].call \in {"csi", "hook"} =>
          LET count == FieldCount(body)
              got   == parser'.out[i].parameters
          IN  /\ Len(got) = IF count < MaxParameters THEN count ELSE MaxParameters
              /\ \A k \in 1..Len(got) : k < MaxParameters => got[k] = Value(body, k)
    ]_parserVars

\* Whatever the shell has sent, the next complete sequence means what it says:
\* "ESC [ m" is one CSI with no parameters, no marker and no intermediate, and
\* "ESC ] a BEL" one OSC with its own payload (VtParser.cpp:181, tst_vtparser.cpp:133).
AnyStateResyncs ==
  LET esc  == Advance(parser, Esc)
      csi  == Advance(esc, 91)
      osc  == Advance(esc, 93)
      text == Advance(osc, 97)
  IN  /\ \A i \in 1..Len(esc.out) : esc.out[i].call = "unhook"
      /\ csi.out = <<>>
      /\ Advance(csi, 109).out =
           <<[call |-> "csi", parameters |-> <<>>, marker |-> None,
              intermediate |-> None, final |-> 109]>>
      /\ osc.out = <<>> /\ text.out = <<>>
      /\ Advance(text, Bel).out = <<[call |-> "osc", payload |-> <<97>>]>>

UpToLimit(text) == IF Len(text) <= MaxPayload THEN text ELSE SubSeq(text, 1, MaxPayload)

\* An OSC is dispatched with what was sent between its introducer and its
\* terminator, BEL, ST or "ESC \", without control characters and cut at the
\* cap (VtParser.cpp:187, tst_vtparser.cpp:125).
OscAsWritten ==
  [][ \A i \in 1..Len(parser'.out) :
        parser'.out[i].call = "osc" =>
          parser'.out[i].payload = UpToLimit(TextOf(body))
    ]_parserVars

\* What is dispatched is what was written, be it a control sequence or an OSC.
DispatchedAsWritten == ParametersAsWritten /\ OscAsWritten

\* A byte of text completes, breaks or continues the character before it as
\* UTF-8 has it: overlong forms, surrogates and numbers above U+10FFFF become
\* replacement characters, and so do stray and missing bytes, each once
\* (VtParser.cpp:133, tst_vtparser.cpp:160).
CharactersDecoded ==
  [][ \A b \in Bytes :
        Receive(b) /\ IsText(parser, b) =>
          [i \in 1..Len(parser'.out) |-> parser'.out[i].codePoint] = Meaning(Append(unit, b))
    ]_parserVars

=============================================================================
