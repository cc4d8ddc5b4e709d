----------------------------- MODULE Dispatcher -----------------------------
(***************************************************************************)
(* Chat commands on the Reika Node: CommandDispatcher.agentChat and        *)
(* commandStatus (server/src/modules/commands/dispatcher.ts), the          *)
(* idempotency ledger they keep (idempotencyLedger.ts) and the recovery of *)
(* an interrupted request from the provider's history (main.ts).           *)
(*                                                                         *)
(* A node has two dispatchers: the one of the relay client ("relay"), and  *)
(* the one behind POST /commands/simulate ("local").  Each keeps a ledger  *)
(* in memory that it read at the start, and both save to the same file.    *)
(*                                                                         *)
(* A handler runs without interruption up to an await: a chat request is   *)
(* recorded and handed to the provider in one action (ChatRequest) and     *)
(* settled in another (Settle).  A save may fail, which throws at the      *)
(* place of the save; MaxSaveErrors bounds how often.                      *)
(***************************************************************************)
EXTENDS Integers, FiniteSets

CONSTANTS
  Requests,         \* requests, by their scope key
  Simulated,        \* the requests made by POST /commands/simulate
  Dispatchers,      \* the dispatchers in use
  Sessions,         \* sessions at the providers
  SessionOf,        \* the session a request names, or None
  Polls,            \* status requests under way at one time
  OpenSessions,     \* the sessions in which the provider is also asked otherwise
  Other,            \* an answer to what was not asked through a dispatcher
  None,             \* "undefined"
  MaxRecords,       \* maxRecords
  MaxStarts,        \* bound: executions of one request
  MaxSaveErrors     \* bound: saves that fail

ASSUME DispatcherAssumption ==
  /\ Simulated \subseteq Requests
  /\ Dispatchers \subseteq {"relay", "local"}
  /\ SessionOf \in [Requests -> Sessions \cup {None}] /\ OpenSessions \subseteq Sessions
  /\ MaxRecords \in Nat \ {0} /\ MaxStarts \in Nat \ {0} /\ MaxSaveErrors \in Nat

VARIABLES
  ledger,           \* dispatcher -> request -> record
  file,             \* the records in the file that all dispatchers save to
  active,           \* dispatcher -> activeRequestKeys
  calls,            \* dispatcher -> request -> calls of chatHandler under way
  polls,            \* status requests that await recoveryHandler
  last,             \* session -> request that its last assistant message answers
  said,             \* session -> all that its assistant messages answer (history)
  starts,           \* request -> calls of chatHandler so far
  answers,          \* request -> answers of the provider so far
  evicted,          \* requests that some ledger had no room for
  saveErrors        \* saves that have failed

vars ==
  <<ledger, file, active, calls, polls, last, said, starts, answers, evicted, saveErrors>>

----------------------------------------------------------------------------
(* Records *)

\* What an assistant message answers.
Answer == Requests \cup {Other}

\* answer is what the answer in the stored responses was given to; newer counts
\* the records with a later updatedAt.
Record == [state  : {"delivered", "executing", "completed", "failed"},
           answer : Answer \cup {None},
           newer  : 0..(MaxRecords - 1)]

Poll == [at : Dispatchers, of : Requests, read : BOOLEAN, answer : Answer \cup {None}]

ASSUME NoneAssumption ==
  /\ Other \notin Requests /\ None \notin Answer \cup Sessions
  /\ None \notin Record \cup Poll

IsSettled(record) == record # None /\ record.state \in {"completed", "failed"}

\* set and save: the record becomes the newest, and of more than MaxRecords
\* records the oldest is dropped.
Put(records, r, state, answer) ==
  LET place == IF records[r] = None THEN MaxRecords ELSE records[r].newer IN
  [x \in Requests |->
     IF x = r THEN [state |-> state, answer |-> answer, newer |-> 0]
     ELSE IF records[x] = None \/ records[x].newer > place THEN records[x]
     ELSE IF records[x].newer + 1 = MaxRecords THEN None
     ELSE [records[x] EXCEPT !.newer = @ + 1]]

\* The record of r in the ledger of p is set, in memory.
SetRecord(p, r, state, answer) ==
  /\ ledger' = [ledger EXCEPT ![p] = Put(@, r, state, answer)]
  /\ evicted' = evicted \cup {x \in Requests : ledger[p][x] # None /\ ledger'[p][x] = None}

Saves(p) == file' = ledger'[p] /\ UNCHANGED saveErrors

SaveThrows == saveErrors < MaxSaveErrors /\ saveErrors' = saveErrors + 1 /\ UNCHANGED file

Init ==
  /\ ledger = [p \in Dispatchers |-> [r \in Requests |-> None]]
  /\ file = [r \in Requests |-> None]
  /\ active = [p \in Dispatchers |-> {}]
  /\ calls = [p \in Dispatchers |-> [r \in Requests |-> 0]]
  /\ polls = [k \in Polls |-> None]
  /\ last = [s \in Sessions |-> None]
  /\ said = [s \in Sessions |-> {}]
  /\ starts = [r \in Requests |-> 0]
  /\ answers = [r \in Requests |-> 0]
  /\ evicted = {}
  /\ saveErrors = 0

----------------------------------------------------------------------------
(* Chat requests *)

\* Faulty: a record that has not been settled is taken for none.
IsNew_Unsettled(p, r) == ~IsSettled(ledger[p][r])

\* No record: the request is not a duplicate.
IsNew(p, r) == ledger[p][r] = None

\* A request comes to the dispatcher it is made for, again and again if it is
\* resent; POST /commands/simulate makes a new id each time.
Arrives(p, r) ==
  /\ p = IF r \in Simulated THEN "local" ELSE "relay"
  /\ r \in Simulated => starts[r] = 0
  /\ IsNew(p, r) /\ starts[r] < MaxStarts

\* Recorded as delivered, then as executing, and handed to the provider.
ChatRequest(p, r) ==
  /\ Arrives(p, r)
  /\ SetRecord(p, r, "executing", None) /\ Saves(p)
  /\ active' = [active EXCEPT ![p] = @ \cup {r}]
  /\ calls' = [calls EXCEPT ![p][r] = @ + 1]
  /\ starts' = [starts EXCEPT ![r] = @ + 1]
  /\ UNCHANGED <<polls, last, said, answers>>

\* The first save throws, or the second: the provider is not called.
ChatRequestThrows(p, r) ==
  /\ Arrives(p, r)
  /\ saveErrors < MaxSaveErrors /\ saveErrors' = saveErrors + 1
  /\ \/ SetRecord(p, r, "delivered", None) /\ UNCHANGED file
     \/ SetRecord(p, r, "executing", None) /\ file' = Put(ledger[p], r, "delivered", None)
  /\ UNCHANGED <<active, calls, polls, last, said, starts, answers>>

\* chatHandler returns the provider's answer or throws.  If the save of the
\* answer throws, the request is recorded as failed instead.
Settle(p, r) ==
  /\ calls[p][r] > 0
  /\ \/ answers[r] > 0 /\ SetRecord(p, r, "completed", r) /\ Saves(p)
     \/ SetRecord(p, r, "failed", None) /\ Saves(p)
     \/ SetRecord(p, r, "failed", None) /\ SaveThrows
  /\ calls' = [calls EXCEPT ![p][r] = @ - 1]
  /\ active' = [active EXCEPT ![p] = @ \ {r}]
  /\ UNCHANGED <<polls, last, said, starts, answers>>

----------------------------------------------------------------------------
(* Status requests, which recover the answer of an interrupted request *)

\* Faulty: activeRequestKeys is not consulted.
IsInterrupted_Active(p, r) ==
  ledger[p][r] # None /\ ledger[p][r].state = "executing" /\ SessionOf[r] # None

IsInterrupted(p, r) ==
  /\ ledger[p][r] # None /\ ledger[p][r].state = "executing"
  /\ r \notin active[p] /\ SessionOf[r] # None

StatusRequest(k, p, r) ==
  /\ polls[k] = None /\ IsInterrupted(p, r)
  /\ polls' = [polls EXCEPT ![k] = [at |-> p, of |-> r, read |-> FALSE, answer |-> None]]
  /\ UNCHANGED <<ledger, file, active, calls, last, said, starts, answers, evicted,
                 saveErrors>>

\* Faulty: the last message of any session is taken.
LastMessage_AnySession(r) ==
  IF \E s \in Sessions : last[s] # None
  THEN last[CHOOSE s \in Sessions : last[s] # None]
  ELSE None

\* The last assistant message of the session that the request names.
LastMessage(r) == last[SessionOf[r]]

\* The provider answers recoveryHandler's request for the history.
ReadHistory(k) ==
  /\ polls[k] # None /\ ~polls[k].read
  /\ polls' = [polls EXCEPT ![k].read = TRUE, ![k].answer = LastMessage(polls[k].of)]
  /\ UNCHANGED <<ledger, file, active, calls, last, said, starts, answers, evicted,
                 saveErrors>>

\* commandStatus after the await: whatever happened in between, the answer read
\* is recorded.
Recovered(k) ==
  /\ polls[k] # None /\ polls[k].read /\ polls[k].answer # None
  /\ SetRecord(polls[k].at, polls[k].of, "completed", polls[k].answer)
  /\ Saves(polls[k].at) \/ SaveThrows
  /\ polls' = [polls EXCEPT ![k] = None]
  /\ UNCHANGED <<active, calls, last, said, starts, answers>>

\* The history could not be read, or there is no answer in it.
NotRecovered(k) ==
  /\ polls[k] # None /\ (polls[k].read => polls[k].answer = None)
  /\ polls' = [polls EXCEPT ![k] = None]
  /\ UNCHANGED <<ledger, file, active, calls, last, said, starts, answers, evicted,
                 saveErrors>>

----------------------------------------------------------------------------
(* The provider, and the node's process *)

\* a is the last message of the session s.
SaidIn(s, a) ==
  /\ last' = [last EXCEPT ![s] = a]
  /\ said' = [said EXCEPT ![s] = @ \cup {a}]

\* No message has come in s, and no request has named it: it may be new.
IsUnused(s) == said[s] = {} /\ \A r \in Requests : SessionOf[r] = s => starts[r] = 0

\* The provider answers a request it was given, whatever has become of the
\* caller, in the session that it names.  For one that names none it makes a
\* session, which later requests may name.
ProviderAnswers(r) ==
  /\ answers[r] < starts[r]
  /\ answers' = [answers EXCEPT ![r] = @ + 1]
  /\ \/ SessionOf[r] # None /\ SaidIn(SessionOf[r], r)
     \/ SessionOf[r] = None /\ \E s \in Sessions : IsUnused(s) /\ SaidIn(s, r)
     \/ SessionOf[r] = None /\ UNCHANGED <<last, said>>
  /\ UNCHANGED <<ledger, file, active, calls, polls, starts, evicted, saveErrors>>

\* It answers someone else in s: a chat that did not come through a dispatcher,
\* with POST /chat or in the provider's own interface.
OtherAnswers(s) ==
  /\ SaidIn(s, Other)
  /\ UNCHANGED <<ledger, file, active, calls, polls, starts, answers, evicted, saveErrors>>

\* Faulty: the file is not read back.
Load_Nothing(records) == [p \in Dispatchers |-> [r \in Requests |-> None]]

Load(records) == [p \in Dispatchers |-> records]

\* The process ends, and starts again with these records in the file.
RestartWith(records) ==
  /\ file' = records
  /\ ledger' = Load(records)
  /\ active' = [p \in Dispatchers |-> {}]
  /\ calls' = [p \in Dispatchers |-> [r \in Requests |-> 0]]
  /\ polls' = [k \in Polls |-> None]
  /\ UNCHANGED <<last, said, starts, answers, saveErrors>>

Crash == RestartWith(file) /\ UNCHANGED evicted

\* A crash between the two saves of a chat request.
CrashInChatRequest(p, r) ==
  LET records == Put(ledger[p], r, "delivered", None) IN
  /\ Arrives(p, r)
  /\ RestartWith(records)
  /\ evicted' = evicted \cup {x \in Requests : ledger[p][x] # None /\ records[x] = None}

Next ==
  \/ \E p \in Dispatchers, r \in Requests :
       \/ ChatRequest(p, r) \/ ChatRequestThrows(p, r) \/ CrashInChatRequest(p, r)
       \/ Settle(p, r)
       \/ \E k \in Polls : StatusRequest(k, p, r)
  \/ \E k \in Polls : ReadHistory(k) \/ Recovered(k) \/ NotRecovered(k)
  \/ \E r \in Requests : ProviderAnswers(r)
  \/ \E s \in OpenSessions : OtherAnswers(s)
  \/ Crash

Spec == Init /\ [][Next]_vars

----------------------------------------------------------------------------
(* Properties *)

\* Every variable has its type.
TypeOK ==
  /\ ledger \in [Dispatchers -> [Requests -> Record \cup {None}]]
  /\ file \in [Requests -> Record \cup {None}]
  /\ active \in [Dispatchers -> SUBSET Requests]
  /\ calls \in [Dispatchers -> [Requests -> 0..MaxStarts]]
  /\ polls \in [Polls -> Poll \cup {None}]
  /\ last \in [Sessions -> Answer \cup {None}]
  /\ said \in [Sessions -> SUBSET Answer]
  /\ starts \in [Requests -> 0..MaxStarts]
  /\ answers \in [Requests -> 0..MaxStarts]
  /\ evicted \subseteq Requests
  /\ saveErrors \in 0..MaxSaveErrors

\* However often a request is resent and wherever the process crashes, it is
\* handed to the provider at most once, unless the ledger had no room for it.
ExecutedOnce == \A r \in Requests : starts[r] <= 1 \/ r \in evicted

\* A status request does not recover a request whose own call is under way:
\* the two would overwrite each other's answer.
RecoveryOnlyOfInterrupted ==
  \A k \in Polls :
    polls[k] # None => calls[polls[k].at][polls[k].of] = 0 \/ polls[k].of \in evicted

\* A completed request has the answer to that very request.
CompletedWithOwnAnswer ==
  \A p \in Dispatchers, r \in Requests :
    ledger[p][r] # None /\ ledger[p][r].state = "completed" => ledger[p][r].answer = r

\* A completed request has its own answer, or one that was given in the session
\* it names: to a request that named it too, to the one that it was made for, or
\* to someone else.  So it has its own if it is alone in being answered there.
OwnAnswerInOwnSession ==
  \A p \in Dispatchers, r \in Requests :
    ledger[p][r] # None /\ ledger[p][r].state = "completed" =>
      \/ ledger[p][r].answer = r
      \/ SessionOf[r] # None /\ ledger[p][r].answer \in said[SessionOf[r]]

----------------------------------------------------------------------------
(* The abstract specification *)

\* What is known of r: by the file, by whether the provider was given it, and
\* by whether the ledger has forgotten it.
Phase(r) ==
  IF r \in evicted THEN "forgotten"
  ELSE IF IsSettled(file[r]) THEN "settled"
  ELSE IF starts[r] > 0 THEN "running"
  ELSE IF file[r] # None THEN "accepted"
  ELSE "new"

Promise == INSTANCE ExecuteOnce
             WITH phase <- [r \in Requests |-> Phase(r)], executions <- starts

\* The dispatcher keeps the node's promise: through crashes, failed saves and
\* resent requests, what is on record about a request only moves forward.
KeepsPromise == Promise!Spec
=============================================================================
