------------------------------ MODULE Strings ------------------------------
(***************************************************************************)
(* Varchar<kMaxLen>, Char<kMaxLen> and Char<1> of include/imlab/infra/     *)
(* types.h.  A character is its code; a string is the sequence of its      *)
(* characters, and so is a C string, without the 0 at its end.  A cast or  *)
(* a comparison gives the set of its outcomes: none when an assertion      *)
(* fails, several when what it reads was never written.                    *)
(***************************************************************************)
EXTENDS Integers, Sequences, SequencesExt

CONSTANT kMaxLen

ASSUME StringsAssumption == kMaxLen \in Nat /\ kMaxLen >= 2 /\ kMaxLen <= 65535

Blank == 32

\* LengthIndicator: the values that len of a string of at most n characters can have.
Lengths(n) == 0 .. (IF n < 256 THEN 255 ELSE 65535)

\* Up to kMaxLen of the characters in front of the 0.
FirstOf(cstr) == SubSeq(cstr, 1, IF Len(cstr) < kMaxLen THEN Len(cstr) ELSE kMaxLen)
-----------------------------------------------------------------------------
VarcharBuild(cstr) == FirstOf(cstr)

VarcharCast(str) == IF Len(str) <= kMaxLen THEN {str} ELSE {}

\* operator==(const char *): strncmp of the first len characters only.
VarcharIs(s, cstr) == IsPrefix(s, cstr)
-----------------------------------------------------------------------------
\* memcpy of kMaxLen bytes, also those that lie behind the 0 of a shorter C string, and
\* strnlen of the copy.
CharBuild(cstr, behind) ==
    LET copied == SubSeq(cstr \o <<0>> \o behind, 1, kMaxLen)
        ends == {n \in 0 .. kMaxLen : n < kMaxLen => copied[n + 1] = 0}
    IN  SubSeq(copied, 1, CHOOSE n \in ends : \A k \in ends : n <= k)

\* castString of the first strLen characters of what lies at str, which ends with
\* something other than a blank; all blanks in front are skipped, also those that
\* do not belong to it, and strLen is unsigned.
CharCast(str, strLen) ==
    LET skipped == CHOOSE n \in 0 .. Len(str) - 1 :
                       /\ str[n + 1] # Blank
                       /\ \A i \in 1 .. n : str[i] = Blank
    IN  IF skipped <= strLen /\ strLen - skipped <= kMaxLen
        THEN {SubSeq(str, skipped + 1, strLen)} ELSE {}

\* Faulty: the length is not compared.
CharBegins(s, cstr) == IF s = <<>> THEN BOOLEAN ELSE {IsPrefix(s, cstr)}

\* operator==(const char *) looks at the first character first: that of an empty
\* string that was cast has never been written.
CharIs(s, cstr) == IF s = <<>> /\ cstr = <<>> THEN BOOLEAN ELSE {s = cstr}

\* operator!=(const char *)
CharIsNot(s, cstr) == s # cstr
-----------------------------------------------------------------------------
\* Char<1>: a character; a blank has the length 0.  The first character of an
\* empty C string is its 0.
SingleBuild(cstr) == IF cstr = <<>> THEN 0 ELSE cstr[1]
SingleLength(c) == IF c = Blank THEN 0 ELSE 1
SingleIs(c, cstr) == cstr = <<c>>

\* operator<<, of every string: from begin() to end().
StringOutput(s) == s
SingleOutput(c) == SubSeq(<<c>>, 1, SingleLength(c))
=============================================================================
