------------------------------ MODULE Producers ------------------------------
(***************************************************************************)
(* What a producer may make of a message.  Producers are external: the     *)
(* contracts have no required fields, and a producer may leave a field     *)
(* out, send a timestamp that is no instant, or announce another type.     *)
(***************************************************************************)
EXTENDS Wire

Timestamps == {"from", "to", "knowledge", "collected_at", "published_at"}
Scalars == {"amount", "scale"}
Numbers == {"kind", "confidence", "mode", "precision", "sequence", "type_version"}
Texts == {"stream", "scheme", "unit", "currency", "dataset", "version", "name", "reason",
          "content_hash", "references"}

\* Fields that hold no message.
Leaves == Timestamps \union Scalars \union Numbers \union Texts \union {"value", "type", "any"}

\* What may stand in a field that a producer did not fill as EncodeX does.
Unfilled(m, k) ==
  CASE k \in Timestamps -> {{}, {Unset}}
    [] k \in Scalars    -> {{}}
    [] k \in Numbers    -> {0}
    [] k \in Texts      -> {<<>>}
    [] k = "value"      -> IF "kind" \in DOMAIN m THEN {UUIDv5(<<>>)} ELSE {<<>>}
    [] k = "type"       -> {"", "EntityMinted", "HoldingObserved"}
    [] k = "any"        -> {"unknown"}
    [] OTHER            -> {{}}

\* Every message that differs from m in one field, at any depth.
RECURSIVE Changed(_)
Changed(m) ==
  UNION {{[m EXCEPT ![k] = x] : x \in Unfilled(m, k) \ {m[k]}} : k \in DOMAIN m}
    \union
  UNION {{[m EXCEPT ![k] = {x}] : x \in UNION {Changed(y) : y \in m[k]}} :
           k \in DOMAIN m \ Leaves}
=============================================================================
