----------------------------- MODULE Submission -----------------------------
(***************************************************************************)
(* The submission service over the ledger: apps/submitd.  Producers send   *)
(* claims over HTTP, may lose the answer or stop waiting for it, and send  *)
(* again; the service is stopped and killed meanwhile.                     *)
(*                                                                         *)
(* What the ledger does inside AcceptHoldingClaim is one step here: the    *)
(* ledgers that take several implement it.                                 *)
(***************************************************************************)
EXTENDS UseCases

CONSTANTS
  Producers,     \* each has one thing to submit
  Submission,    \* [Producers -> a form and the command it decodes to]
  MaxAttempts,   \* [Producers -> Nat]: how often each sends it at most
  Readings       \* the instants the wall clock may show

(***************************************************************************)
(* What is wrong with a request before the ledger sees it, first thing     *)
(* first, or "decodes".  A submission without collected_at decodes: its    *)
(* command is not complete.                                                *)
(***************************************************************************)
Forms ==
  {"notPost", "notProtobuf", "unreadable", "tooLarge", "unparsable", "undecodable",
   "decodes"}

\* What the store makes of the empty stream name is a matter of SqliteLedger.
ASSUME SubmissionAssumption ==
  /\ Submission \in [Producers -> [form : Forms, cmd : AcceptHoldingClaimCommand]]
  /\ EmptyName \notin Streams
ASSUME ReadingsAssumption == Readings \subseteq Instant
ASSUME MaxAttemptsAssumption == MaxAttempts \in [Producers -> Nat \ {0}]

Attempts == UNION {{p} \X (1..MaxAttempts[p]) : p \in Producers}

VARIABLES
  log,       \* the streams
  server,    \* the process: up, draining or closed
  pc,        \* where each attempt is
  waiting,   \* whether the producer still waits for the answer to each attempt
  answer     \* what the handler of each attempt answers

vars == <<log, server, pc, waiting, answer>>

NoRef == [stream |-> EmptyName, sequence |-> 0]

NoAnswer == [status |-> 0, outcome |-> "pending", ref |-> NoRef]

Init ==
  /\ log = [s \in Streams |-> <<>>]
  /\ server = "up"
  /\ pc = [a \in Attempts |-> "unsent"]
  /\ waiting = [a \in Attempts |-> TRUE]
  /\ answer = [a \in Attempts |-> NoAnswer]

-----------------------------------------------------------------------------
(* The handler *)

\* What submit refuses before it calls the ledger.
RefusalStatus(form) ==
  CASE form = "notPost"     -> 405
    [] form = "notProtobuf" -> 415
    [] form = "unreadable"  -> 400
    [] form = "tooLarge"    -> 413
    [] form = "unparsable"  -> 400
    [] form = "undecodable" -> 422

\* Fault of StatusFor: success is not told from the rest.
StatusForFault(outcome) ==
  CASE outcome \in {"ErrMalformedSource", "ErrIncompleteEnvelope", "ErrUnknownKind"} -> 422
    [] outcome \in {"ErrStaleRead", "ErrNonMonotonicKnowledge"} -> 409
    [] OTHER -> 500

StatusFor(outcome) ==
  CASE outcome = Ok -> 201
    [] outcome \in {"ErrMalformedSource", "ErrIncompleteEnvelope", "ErrUnknownKind"} -> 422
    [] outcome \in {"ErrStaleRead", "ErrNonMonotonicKnowledge"} -> 409
    [] OTHER -> 500

\* What AcceptHoldingClaim returns when knowledge time is k.
Admit(cmd, k) ==
  LET stream == log[cmd.stream] IN
  IF Admission(cmd) # Ok THEN Admission(cmd)
  ELSE IF DraftOutcome(cmd, stream, k) # Ok THEN DraftOutcome(cmd, stream, k)
  ELSE AppendOutcome(cmd.stream, stream, Expect(cmd, stream), k)

\* The store refuses or the context is cancelled: nothing is recorded.
StoreFailure == "ErrStore"

Respond(a, status, outcome, ref) ==
  /\ pc' = [pc EXCEPT ![a] = "responding"]
  /\ answer' = [answer EXCEPT ![a] = [status |-> status, outcome |-> outcome, ref |-> ref]]

Refuse(a) ==
  /\ pc[a] = "sent"
  /\ server # "closed"
  /\ LET form == Submission[a[1]].form IN
     /\ form # "decodes"
     /\ Respond(a, RefusalStatus(form), form, NoRef)
  /\ UNCHANGED <<log, server, waiting>>

\* Fault of Accept: the service decides admission itself, by the interval alone.
AcceptFault(a) ==
  /\ pc[a] = "sent"
  /\ server # "closed"
  /\ Submission[a[1]].form = "decodes"
  /\ LET cmd    == Submission[a[1]].cmd
         stream == log[cmd.stream]
     IN  \E k \in Readings :
           /\ k > LastKnowledge(stream)
           /\ log' = [log EXCEPT ![cmd.stream] =
                        Append(stream, NewFact(cmd.stream, stream, Draft(cmd, stream, k)))]
           /\ Respond(a, 201, Ok, NextRef(cmd.stream, stream))
  /\ UNCHANGED <<server, waiting>>

\* The ledger decides; the handler only translates what it says.
Accept(a) ==
  /\ pc[a] = "sent"
  /\ server # "closed"
  /\ Submission[a[1]].form = "decodes"
  /\ LET cmd    == Submission[a[1]].cmd
         stream == log[cmd.stream]
     IN  \E k \in Readings :
           LET outcome == Admit(cmd, k) IN
           IF outcome = Ok
           THEN /\ log' = [log EXCEPT ![cmd.stream] =
                             Append(stream, NewFact(cmd.stream, stream, Draft(cmd, stream, k)))]
                /\ Respond(a, StatusFor(Ok), Ok, NextRef(cmd.stream, stream))
           ELSE UNCHANGED log /\ Respond(a, StatusFor(outcome), outcome, NoRef)
  /\ UNCHANGED <<server, waiting>>

\* Fault of StoreFails: the producer is told what would have happened.
StoreFailsFault(a) ==
  /\ pc[a] = "sent"
  /\ server # "closed"
  /\ Submission[a[1]].form = "decodes"
  /\ Admission(Submission[a[1]].cmd) = Ok
  /\ LET name == Submission[a[1]].cmd.stream
     IN  Respond(a, StatusFor(Ok), Ok, NextRef(name, log[name]))
  /\ UNCHANGED <<log, server, waiting>>

\* The region could not be begun or committed, or the producer hung up in time.
StoreFails(a) ==
  /\ pc[a] = "sent"
  /\ server # "closed"
  /\ Submission[a[1]].form = "decodes"
  /\ Admission(Submission[a[1]].cmd) = Ok
  /\ Respond(a, StatusFor(StoreFailure), StoreFailure, NoRef)
  /\ UNCHANGED <<log, server, waiting>>

\* The response is written; whether anyone reads it is another matter.
Write(a) ==
  /\ pc[a] = "responding"
  /\ server # "closed"
  /\ pc' = [pc EXCEPT ![a] = IF waiting[a] THEN "answered" ELSE "lost"]
  /\ UNCHANGED <<log, server, waiting, answer>>

-----------------------------------------------------------------------------
(* The producer and the network *)

\* May the producer send again?  It does after an answer that says so, and when
\* it stopped waiting.
Retries(a) == ~waiting[a] \/ (pc[a] = "answered" /\ answer[a].status \in {409, 500})

Send(a) ==
  /\ pc[a] = "unsent"
  /\ server = "up"
  /\ a[2] > 1 => Retries(<<a[1], a[2] - 1>>)
  /\ pc' = [pc EXCEPT ![a] = "sent"]
  /\ UNCHANGED <<log, server, waiting, answer>>

\* A timeout or a broken connection.  The handler may be anywhere.
GiveUp(a) ==
  /\ pc[a] \in {"sent", "responding"}
  /\ waiting[a]
  /\ waiting' = [waiting EXCEPT ![a] = FALSE]
  /\ UNCHANGED <<log, server, pc, answer>>

-----------------------------------------------------------------------------
(* The process *)

InFlight == {a \in Attempts : pc[a] \in {"sent", "responding"}}

Drop(as) ==
  /\ pc' = [a \in Attempts |-> IF a \in as THEN "lost" ELSE pc[a]]
  /\ waiting' = [a \in Attempts |-> IF a \in as THEN FALSE ELSE waiting[a]]

\* SIGTERM: Shutdown closes the listener.
Signal ==
  /\ server = "up"
  /\ server' = "draining"
  /\ UNCHANGED <<log, pc, waiting, answer>>

\* Fault of Shutdown: the database is closed under the requests in flight.
ShutdownFault ==
  /\ server = "draining"
  /\ server' = "closed"
  /\ UNCHANGED <<log, pc, waiting, answer>>

\* Shutdown returns when no request is in flight.
Shutdown ==
  /\ server = "draining"
  /\ InFlight = {}
  /\ server' = "closed"
  /\ UNCHANGED <<log, pc, waiting, answer>>

\* Ten seconds were not enough: the process exits under the requests in flight.
ShutdownTimeout ==
  /\ server = "draining"
  /\ InFlight # {}
  /\ server' = "closed"
  /\ Drop(InFlight)
  /\ UNCHANGED <<log, answer>>

\* The process is killed and started again.
Crash ==
  /\ server = "up"
  /\ InFlight # {}
  /\ Drop(InFlight)
  /\ UNCHANGED <<log, server, answer>>

Handle(a) == Refuse(a) \/ Accept(a) \/ StoreFails(a)

Next ==
  \/ \E a \in Attempts : Send(a) \/ GiveUp(a) \/ Handle(a) \/ Write(a)
  \/ Signal \/ Shutdown \/ ShutdownTimeout \/ Crash

Spec == Init /\ [][Next]_vars

\* Handlers run to their end and Shutdown returns once they have.  Nobody has to
\* send, signal or crash, and the ten seconds need not run out.
Fairness ==
  /\ \A a \in Attempts : WF_vars(Handle(a) \/ Write(a))
  /\ WF_vars(Shutdown)

FairSpec == Spec /\ Fairness

-----------------------------------------------------------------------------
\* The service admits nothing of its own: whatever producers resend and however
\* the process ends, the log is one the ledger's use cases produce.
Atomic == INSTANCE AtomicLedger
  WITH Moments <- {}, Commands <- {Submission[p].cmd : p \in Producers}

ImplementsAtomic == Atomic!Spec

Answered(status) == {a \in Attempts : pc[a] = "answered" /\ answer[a].status = status}

\* Every 201 a producer read names a recorded claim, its own and no other
\* attempt's; every recorded claim is the answer to an attempt, read, about to be
\* read or missed: a producer that read a refusal left nothing behind.
AnswersAreTrue ==
  LET admitted == {a \in Attempts : answer[a].outcome = Ok}
      facts    == UNION {{log[s][i].ref : i \in DOMAIN log[s]} : s \in Streams}
  IN  /\ \A a \in Answered(201) :
           LET cmd == Submission[a[1]].cmd
               ref == answer[a].ref
           IN  /\ HasFact(cmd.stream, log[cmd.stream], ref)
               /\ log[cmd.stream][ref.sequence].payload = AcceptHoldingClaimDraft(cmd, 1).payload
      /\ \A a, b \in admitted : answer[a].ref = answer[b].ref => a = b
      /\ Cardinality(facts) = Cardinality(admitted)

\* A producer's claim is recorded twice only when it stopped waiting for, or
\* lost, the answer to an attempt that had been admitted: one more fact for each.
DuplicatesAreMissedAnswers ==
  \A p \in Producers :
    LET admitted == {a \in Attempts : a[1] = p /\ answer[a].outcome = Ok}
        missed   == {a \in admitted : ~waiting[a]}
    IN  Cardinality(admitted) <= 1 + Cardinality(missed)

\* Once the process is told to stop it stops, and every request it took was
\* answered or is known to be lost: none is left waiting on a closed database.
ShutdownSettles == server = "draining" ~> (server = "closed" /\ InFlight = {})
=============================================================================
