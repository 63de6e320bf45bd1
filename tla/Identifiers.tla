---------------------------- MODULE Identifiers ----------------------------
(***************************************************************************)
(* Claims and identifiers as values: libs/kernel/identity.                 *)
(*                                                                         *)
(* A UUIDv5 stands for the name it hashes, so that collisions of the hash  *)
(* are left out; a text that has not the shape of one hashes nothing.      *)
(***************************************************************************)
EXTENDS Framing

IsScheme(s) == s # <<>> /\ IsLower(s) /\ ~IsPadded(s)

\* The scheme is vocabulary, the value whatever the provider said.
IsClaim(c) == IsScheme(c.scheme) /\ c.value # <<>>

ZeroClaim == [scheme |-> <<>>, value |-> <<>>]

Colon == 58

\* Claim.String: scheme:value, which does not say where the scheme ends.
Joined(c) == c.scheme \o <<Colon>> \o c.value

KindText == [instrument |-> <<105>>, party |-> <<112>>, account |-> <<97>>, ledger_stream |-> <<108>>]

UUIDv5(name) == [uuid |-> name]

IsCanonicalUUID(value) == value.uuid # <<>>

\* Restore: a kind of the closed set and the shape of a UUID.
CanRestore(kind, value) == kind \in DOMAIN KindText /\ IsCanonicalUUID(value)
=============================================================================
