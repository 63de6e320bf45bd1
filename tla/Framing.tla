------------------------------ MODULE Framing ------------------------------
(***************************************************************************)
(* Text and its canonical encoding: libs/kernel/internal/framing.          *)
(*                                                                         *)
(* A text is a sequence of ASCII codes.  The encoding of a length, eight   *)
(* bytes wide in the code, is one symbol here: fixed width is what matters *)
(* to whether two encodings can be confused, and a length may well equal   *)
(* the code of a character.                                                *)
(***************************************************************************)
EXTENDS Integers, Sequences

Text == Seq(Nat)

\* What has been written after each of some parts: before a part, its length.
Written(parts) ==
  LET bytes[i \in 0..Len(parts)] ==
        IF i = 0 THEN <<>> ELSE bytes[i - 1] \o <<Len(parts[i])>> \o parts[i]
  IN  bytes

\* Fault of Frame: the components are joined, and lengths are left out.
FrameFault(tag, components) ==
  LET bytes[i \in 0..Len(components)] ==
        IF i = 0 THEN tag ELSE bytes[i - 1] \o components[i]
  IN  bytes[Len(components)]

\* A tag and its components, each preceded by its length.
Frame(tag, components) == Written(<<tag>> \o components)[Len(components) + 1]

Whitespace == {9, 32}

\* strings.TrimSpace(s) = ""
IsBlank(s) == \A i \in DOMAIN s : s[i] \in Whitespace

\* strings.TrimSpace(s) # s
IsPadded(s) == s # <<>> /\ (s[1] \in Whitespace \/ s[Len(s)] \in Whitespace)

Upper(c) == IF c \in 97..122 THEN c - 32 ELSE c

\* strings.ToLower(s) = s
IsLower(s) == \A i \in DOMAIN s : s[i] \notin 65..90

\* Byte order of texts.
TextLess(s, t) ==
  \E n \in DOMAIN t :
    /\ \A i \in 1..n - 1 : i \in DOMAIN s /\ s[i] = t[i]
    /\ n \in DOMAIN s => s[n] < t[n]
=============================================================================
