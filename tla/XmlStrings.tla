----------------------------- MODULE XmlStrings -----------------------------
(***************************************************************************)
(* Strings in the XML of a call: how they are written and read, and how    *)
(* the tags around them are looked for (XmlRpcUtil, and XmlRpcValue as far *)
(* as it is about strings).                                                *)
(*                                                                         *)
(* An XML text is a sequence of tokens: a tag of the protocol, a space, an *)
(* '&', what follows it, and other characters, of which some begin with a  *)
(* '<'.  Each token counts as one in the length of a text.                 *)
(***************************************************************************)
EXTENDS Integers, SequencesExt

Open(t)  == <<"open", t>>
End(t)   == <<"end", t>>
Empty(t) == <<"empty", t>>
Space    == <<" ">>
Amp      == <<"&">>
Entity(c) == <<"entity", c>>      \* what follows the '&': "lt;" and the like

\* A token that begins with '<'
Markup(c) == c[1] \in {"open", "end", "empty", "tag", "EOR", "eor", "<"}

\* The first position from off on that has one of the tokens
From(x, off, Is(_)) ==
  LET s == {i \in off..Len(x) : Is(x[i])} IN IF s = {} THEN Len(x) + 1 ELSE Min(s)
At(x, i) == IF i <= Len(x) THEN x[i] ELSE <<"end of text">>

-----------------------------------------------------------------------------
(* XmlRpcUtil: strings, and the tags looked for *)

\* Mutated: a '<' in a string is left as it is.
xmlEncodeAmp(s) ==
  FlattenSeq([i \in DOMAIN s |-> IF s[i] = Amp THEN <<Amp, Entity(s[i])>> ELSE <<s[i]>>])

xmlEncode(s) ==
  FlattenSeq([i \in DOMAIN s |->
    IF s[i] = Amp \/ Markup(s[i]) THEN <<Amp, Entity(s[i])>> ELSE <<s[i]>>])

\* What an entity stood for is not looked at again.
xmlDecode(s) ==
  LET Decoded[i \in 1..(Len(s) + 2)] ==
        IF i > Len(s) THEN <<>>
        ELSE IF s[i] = Amp /\ At(s, i + 1)[1] = "entity" THEN <<s[i + 1][2]>> \o Decoded[i + 2]
        ELSE <<s[i]>> \o Decoded[i + 1]
  IN  Decoded[1]

\* nextTagIs: the position behind the tag, which only spaces may precede, or 0
Behind(i, x, tags) == IF At(x, i) \in tags THEN i + 1 ELSE 0
NoSpace(x, off) == From(x, off, LAMBDA c : c # Space)
nextTagIs(tag, x, off) == Behind(NoSpace(x, off), x, {Open(tag), Empty(tag)})

\* nextTagIsEnd: any text may precede the tag
nextTagIsEnd(tag, x, off) == Behind(From(x, off, Markup), x, {End(tag)})

\* ... and if it is not there the text goes on where it was.
SkipEnd(tag, x, off) == Max({off, nextTagIsEnd(tag, x, off)})

findTag(tag, x, off) == From(x, off, LAMBDA c : c \in {Open(tag), Empty(tag)}) + 1

-----------------------------------------------------------------------------
(* XmlRpcValue: the reader of a string gives its contents and the position
   behind them, 0 if there are none.                                       *)

Str(s)  == <<"string", s>>
Invalid == <<"invalid", <<>>>>

NotRead == [val |-> Invalid, next |-> 0]

\* The position moves by the length of the decoded text, which is at most that of the
\* text: what is left of it precedes the end tag.
StringRead(off, s) == [val |-> Str(s), next |-> off + Len(s)]
stringFromXml(x, off) ==
  LET end == From(x, off, Markup)
  IN  IF end > Len(x) THEN NotRead ELSE StringRead(off, xmlDecode(SubSeq(x, off, end - 1)))
=============================================================================
