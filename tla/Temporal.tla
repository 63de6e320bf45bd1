------------------------------ MODULE Temporal ------------------------------
(***************************************************************************)
(* Bitemporal coordinates: libs/kernel/temporal/temporal.go.               *)
(*                                                                         *)
(* An instant is a natural number; Unset is Go's zero time, which the      *)
(* package treats as "no instant".  Only the order of instants matters to  *)
(* the ledger, so the calendar is left out.                                *)
(***************************************************************************)
EXTENDS Integers

Unset == 0

Instant == Nat \ {Unset}

(***************************************************************************)
(* An effective interval is half-open, [from, to); an Unset `to` means the *)
(* interval has not ended.  The values of the Go type are what NewInterval *)
(* returns and the zero value Interval{}, which no constructor checks.     *)
(***************************************************************************)
ZeroInterval == [from |-> Unset, to |-> Unset]

IsOpen(iv) == iv.to = Unset

NewInterval == {iv \in [from : Instant, to : Nat] : IsOpen(iv) \/ iv.from <= iv.to}

Interval == NewInterval \union {ZeroInterval}

\* The degenerate interval [at, at] contains exactly `at`.
Contains(iv, t) ==
  /\ iv.from <= t
  /\ \/ IsOpen(iv)
     \/ iv.to = iv.from /\ t = iv.from
     \/ t < iv.to

AsOf == [effective : Nat, knowledge : Nat]

ZeroAsOf == [effective |-> Unset, knowledge |-> Unset]

NewAsOf(effective, knowledge) == [effective |-> effective, knowledge |-> knowledge]

\* Fault of Visible: a query sees what was learned after it.
VisibleFault(f, asOf) == Contains(f.effective, asOf.effective)

\* A fact is visible to a query when it was already known and was in force.
Visible(f, asOf) ==
  /\ f.knowledge <= asOf.knowledge
  /\ Contains(f.effective, asOf.effective)
=============================================================================
