---------------------------- MODULE ExecuteOnce ----------------------------
(***************************************************************************)
(* What the Reika Node promises as the final idempotency authority before  *)
(* provider execution (docs/CURRENT_ARCHITECTURE.md): a request is         *)
(* executed at most once as long as the ledger has room for it, and its    *)
(* outcome stays.  Dispatcher implements this.                             *)
(*                                                                         *)
(* One step may concern several requests, so an action says what becomes   *)
(* of one of them and Next says that each takes an action or stays.        *)
(***************************************************************************)
EXTENDS Integers

CONSTANT Requests

VARIABLES
  phase,        \* request -> what is on record about it
  executions    \* request -> how often it was handed to the provider

Init ==
  /\ phase = [r \in Requests |-> "new"]
  /\ executions = [r \in Requests |-> 0]

Moves(r, from, to, n) ==
  phase[r] \in from /\ phase'[r] = to /\ executions'[r] = executions[r] + n

\* Recorded, but not handed to the provider; and it never will be.
Accept(r) == Moves(r, {"new"}, "accepted", 0)

Execute(r) == Moves(r, {"new"}, "running", 1)

\* An outcome is recorded: the handler's or a recovered one.
Settle(r) == Moves(r, {"accepted", "running"}, "settled", 0)

\* There was no room for the record: the promise about r ends.
Forget(r) == Moves(r, {"new", "accepted", "running", "settled"}, "forgotten", 0)

ExecuteAgain(r) == Moves(r, {"forgotten"}, "forgotten", 1)

Stay(r) == phase'[r] = phase[r] /\ executions'[r] = executions[r]

Next ==
  \A r \in Requests :
    Accept(r) \/ Execute(r) \/ Settle(r) \/ Forget(r) \/ ExecuteAgain(r) \/ Stay(r)

Spec == Init /\ [][Next]_<<phase, executions>>
=============================================================================
