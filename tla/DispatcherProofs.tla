-------------------------- MODULE DispatcherProofs --------------------------
(***************************************************************************)
(* Proofs about the dispatchers of the Reika Node, for any requests,       *)
(* sessions and bounds: type correctness, that recovery and a call under   *)
(* way never concern the same request, and that the answer on record of a  *)
(* request is its own or was given in the session that it names; and, for  *)
(* one dispatcher, that a request is executed at most once and that the    *)
(* node keeps the promise of ExecuteOnce.                                  *)
(***************************************************************************)
EXTENDS Dispatcher, TLAPS

Records == [Requests -> Record \cup {None}]

States == {"delivered", "executing", "completed", "failed"}

Answers == Answer \cup {None}

\* The calls of a request are executions of it; there is one at most, its key
\* is active, and it has a record.
CallInv ==
  \A p \in Dispatchers, r \in Requests :
    /\ calls[p][r] <= starts[r]
    /\ calls[p][r] > 0 =>
         \/ r \in evicted
         \/ calls[p][r] = 1 /\ r \in active[p] /\ ledger[p][r] # None

\* A request that is being recovered has a record and no call under way.
PollInv ==
  \A k \in Polls :
    polls[k] # None =>
      \/ polls[k].of \in evicted
      \/ /\ ledger[polls[k].at][polls[k].of] # None
         /\ calls[polls[k].at][polls[k].of] = 0

\* It names a session.
PollSessionInv == \A k \in Polls : polls[k] # None => SessionOf[polls[k].of] # None

IInv == TypeOK /\ CallInv /\ PollInv /\ PollSessionInv

\* A request that was executed has been executed once, and has a record in
\* memory and in the file.
OnceInv ==
  \A r \in Requests :
    starts[r] > 0 =>
      \/ r \in evicted
      \/ /\ starts[r] = 1 /\ file[r] # None
         /\ \A p \in Dispatchers : ledger[p][r] # None

OneDispatcher == \A p, q \in Dispatchers : p = q

\* A ledger with a new record is a ledger, and has no other record that is new.
LEMMA PutIsRecords ==
  ASSUME NEW records \in Records, NEW r \in Requests,
         NEW state \in States,
         NEW answer \in Answers
  PROVE  /\ Put(records, r, state, answer) \in Records
         /\ Put(records, r, state, answer)[r] # None
         /\ \A x \in Requests \ {r} :
              records[x] = None => Put(records, r, state, answer)[x] = None
<1> DEFINE place == IF records[r] = None THEN MaxRecords ELSE records[r].newer
           new(x) == IF x = r THEN [state |-> state, answer |-> answer, newer |-> 0]
                     ELSE IF records[x] = None \/ records[x].newer > place THEN records[x]
                     ELSE IF records[x].newer + 1 = MaxRecords THEN None
                     ELSE [records[x] EXCEPT !.newer = @ + 1]
<1>1. MaxRecords \in Nat \ {0}
  BY DispatcherAssumption
<1>2. [state |-> state, answer |-> answer, newer |-> 0] \in Record
  BY <1>1 DEF Record, States, Answers, Answer
<1>3. ASSUME NEW x \in Requests PROVE new(x) \in Record \cup {None}
  <2>1. records[x] \in Record \cup {None}
    BY DEF Records
  <2>2. CASE x = r \/ records[x] = None \/ records[x].newer > place
            \/ records[x].newer + 1 = MaxRecords
    BY <1>2, <2>1, <2>2
  <2>3. CASE ~(x = r \/ records[x] = None \/ records[x].newer > place
              \/ records[x].newer + 1 = MaxRecords)
    <3>1. /\ new(x) = [records[x] EXCEPT !.newer = records[x].newer + 1]
          /\ records[x] \in Record
      BY <2>1, <2>3
    <3>2. records[x].newer + 1 \in 0..(MaxRecords - 1)
      BY <1>1, <2>3, <3>1 DEF Record
    <3> QED
      BY <3>1, <3>2 DEF Record
  <2> QED
    BY <2>2, <2>3
<1>4. new(r) # None /\ \A x \in Requests \ {r} : records[x] = None => new(x) = None
  BY <1>2, NoneAssumption
<1> HIDE DEF new
<1>5. Put(records, r, state, answer) = [x \in Requests |-> new(x)]
  BY DEF Put, new
<1> QED
  BY <1>3, <1>4, <1>5 DEF Records

\* What setting a record does to the ledgers.
LEMMA SetRecordStep ==
  ASSUME TypeOK, NEW p \in Dispatchers, NEW r \in Requests,
         NEW state \in States,
         NEW answer \in Answers, SetRecord(p, r, state, answer)
  PROVE  /\ ledger' \in [Dispatchers -> Records]
         /\ ledger'[p] = Put(ledger[p], r, state, answer)
         /\ ledger'[p][r] # None
         /\ evicted \subseteq evicted' /\ evicted' \subseteq Requests
         /\ \A q \in Dispatchers, x \in Requests :
              ledger[q][x] # None => ledger'[q][x] # None \/ x \in evicted'
         /\ \A q \in Dispatchers, x \in Requests :
              ledger'[q][x] # None => ledger[q][x] # None \/ (q = p /\ x = r)
<1>1. ledger \in [Dispatchers -> Records] /\ ledger[p] \in Records
  BY DEF TypeOK, Records
<1>2. ledger' = [ledger EXCEPT ![p] = Put(ledger[p], r, state, answer)]
  BY DEF SetRecord
<1>3. /\ Put(ledger[p], r, state, answer) \in Records
      /\ Put(ledger[p], r, state, answer)[r] # None
      /\ \A x \in Requests \ {r} :
           ledger[p][x] = None => Put(ledger[p], r, state, answer)[x] = None
  BY <1>1, PutIsRecords
<1>4. /\ ledger'[p] = Put(ledger[p], r, state, answer)
      /\ \A q \in Dispatchers \ {p} : ledger'[q] = ledger[q]
      /\ ledger' \in [Dispatchers -> Records]
  BY <1>1, <1>2, <1>3
<1>5. evicted' = evicted \cup {x \in Requests : ledger[p][x] # None /\ ledger'[p][x] = None}
  BY DEF SetRecord
<1>6. evicted \subseteq Requests
  BY DEF TypeOK
<1> QED
  BY <1>3, <1>4, <1>5, <1>6

LEMMA InitIInv == Init => IInv /\ OnceInv
BY DispatcherAssumption, NoneAssumption
  DEF Init, IInv, OnceInv, TypeOK, CallInv, PollInv, PollSessionInv

----------------------------------------------------------------------------
(* The invariant IInv, for any dispatchers *)

LEMMA ChatRequestKeepsIInv ==
  ASSUME IInv, NEW p \in Dispatchers, NEW r \in Requests, ChatRequest(p, r)
  PROVE  IInv'
<1>1. /\ ledger' \in [Dispatchers -> Records] /\ ledger'[p][r] # None
      /\ evicted \subseteq evicted' /\ evicted' \subseteq Requests
      /\ \A q \in Dispatchers, x \in Requests :
           ledger[q][x] # None => ledger'[q][x] # None \/ x \in evicted'
  BY SetRecordStep DEF States, Answers, IInv, ChatRequest
<1>2. /\ starts[r] \in 0..MaxStarts /\ starts[r] < MaxStarts /\ MaxStarts \in Nat
      /\ calls[p][r] \in 0..MaxStarts /\ calls[p][r] <= starts[r]
      /\ ledger[p][r] = None
  BY DispatcherAssumption DEF IInv, TypeOK, CallInv, ChatRequest, Arrives, IsNew
<1>3. starts' = [starts EXCEPT ![r] = starts[r] + 1] /\ starts' \in [Requests -> 0..MaxStarts]
  BY <1>2 DEF ChatRequest, IInv, TypeOK
<1>4. /\ calls' = [calls EXCEPT ![p][r] = calls[p][r] + 1]
      /\ calls' \in [Dispatchers -> [Requests -> 0..MaxStarts]]
  BY <1>2 DEF ChatRequest, IInv, TypeOK
<1>5. /\ active' = [active EXCEPT ![p] = active[p] \cup {r}]
      /\ active' \in [Dispatchers -> SUBSET Requests]
  BY DEF ChatRequest, IInv, TypeOK
<1>6. TypeOK'
  <2>1. file' \in Records
    BY <1>1 DEF ChatRequest, Saves
  <2> QED
    BY <1>1, <1>3, <1>4, <1>5, <2>1 DEF TypeOK, Records, IInv, ChatRequest, Saves
<1>7. CallInv'
  <2> SUFFICES ASSUME NEW q \in Dispatchers, NEW x \in Requests
               PROVE  /\ calls'[q][x] <= starts'[x]
                      /\ calls'[q][x] > 0 =>
                           \/ x \in evicted'
                           \/ calls'[q][x] = 1 /\ x \in active'[q] /\ ledger'[q][x] # None
    BY DEF CallInv
  <2>1. /\ calls[q][x] <= starts[x] /\ calls[q][x] \in Nat /\ starts[x] \in Nat
        /\ calls[q][x] > 0 =>
             \/ x \in evicted
             \/ calls[q][x] = 1 /\ x \in active[q] /\ ledger[q][x] # None
    BY DEF IInv, TypeOK, CallInv
  <2>2. /\ starts'[x] = IF x = r THEN starts[x] + 1 ELSE starts[x]
        /\ calls'[q][x] = IF q = p /\ x = r THEN calls[q][x] + 1 ELSE calls[q][x]
        /\ active'[q] = IF q = p THEN active[q] \cup {r} ELSE active[q]
    BY <1>3, <1>4, <1>5 DEF IInv, TypeOK
  <2>3. CASE q = p /\ x = r
    BY <1>1, <1>2, <2>1, <2>2, <2>3
  <2>4. CASE ~(q = p /\ x = r)
    BY <1>1, <2>1, <2>2, <2>4
  <2> QED
    BY <2>3, <2>4
<1>8. PollInv'
  <2> SUFFICES ASSUME NEW k \in Polls, polls[k] # None, polls[k].of \notin evicted'
               PROVE  /\ ledger'[polls[k].at][polls[k].of] # None
                      /\ calls'[polls[k].at][polls[k].of] = 0
    BY DEF PollInv, ChatRequest
  <2>1. polls[k].at \in Dispatchers /\ polls[k].of \in Requests
    BY DEF IInv, TypeOK, Poll
  <2>2. ledger[polls[k].at][polls[k].of] # None /\ calls[polls[k].at][polls[k].of] = 0
    BY <1>1 DEF IInv, PollInv
  <2>3. ~(polls[k].at = p /\ polls[k].of = r)
    BY <1>2, <2>2
  <2>4. calls'[polls[k].at][polls[k].of] = calls[polls[k].at][polls[k].of]
    BY <1>4, <2>1, <2>3 DEF IInv, TypeOK
  <2> QED
    BY <1>1, <2>1, <2>2, <2>4
<1> QED
  BY <1>6, <1>7, <1>8 DEF IInv, PollSessionInv, ChatRequest

\* A step that makes no call, and forgets none but the evicted records, keeps
\* what IInv says of calls and status requests.
LEMMA NoNewCall ==
  ASSUME IInv, TypeOK', UNCHANGED <<active, calls, starts>>, evicted \subseteq evicted',
         \A q \in Dispatchers, x \in Requests :
           ledger[q][x] # None => ledger'[q][x] # None \/ x \in evicted',
         \A k \in Polls : polls'[k] # None =>
           /\ polls[k] # None
           /\ polls'[k].at = polls[k].at /\ polls'[k].of = polls[k].of
  PROVE  IInv'
<1>1. CallInv'
  BY DEF IInv, CallInv, TypeOK
<1>2. PollInv'
  <2> SUFFICES ASSUME NEW k \in Polls, polls'[k] # None, polls'[k].of \notin evicted'
               PROVE  /\ ledger'[polls'[k].at][polls'[k].of] # None
                      /\ calls'[polls'[k].at][polls'[k].of] = 0
    BY DEF PollInv
  <2>1. polls[k].at \in Dispatchers /\ polls[k].of \in Requests
    BY DEF IInv, TypeOK, Poll
  <2> QED
    BY <2>1 DEF IInv, PollInv
<1>3. PollSessionInv'
  BY DEF IInv, PollSessionInv
<1> QED
  BY <1>1, <1>2, <1>3 DEF IInv

LEMMA ChatRequestThrowsKeepsIInv ==
  ASSUME IInv, NEW p \in Dispatchers, NEW r \in Requests, ChatRequestThrows(p, r)
  PROVE  IInv'
<1>1. PICK state \in {"delivered", "executing"} :
        /\ SetRecord(p, r, state, None)
        /\ file' = file \/ file' = Put(ledger[p], r, "delivered", None)
  BY DEF ChatRequestThrows
<1>2. /\ ledger' \in [Dispatchers -> Records]
      /\ evicted \subseteq evicted' /\ evicted' \subseteq Requests
      /\ \A q \in Dispatchers, x \in Requests :
           ledger[q][x] # None => ledger'[q][x] # None \/ x \in evicted'
  BY <1>1, SetRecordStep DEF States, Answers, IInv
<1>3. file' \in Records
  <2>1. file \in Records /\ ledger[p] \in Records
    BY DEF IInv, TypeOK, Records
  <2> QED
    BY <1>1, <2>1, PutIsRecords DEF States, Answers
<1>4. saveErrors' \in 0..MaxSaveErrors
  BY DispatcherAssumption DEF ChatRequestThrows, IInv, TypeOK
<1>5. TypeOK'
  BY <1>2, <1>3, <1>4 DEF IInv, TypeOK, ChatRequestThrows, Records
<1> QED
  BY <1>2, <1>5, NoNewCall DEF ChatRequestThrows

LEMMA SettleKeepsIInv ==
  ASSUME IInv, NEW p \in Dispatchers, NEW r \in Requests, Settle(p, r)
  PROVE  IInv'
<1>1. PICK state \in {"completed", "failed"}, answer \in Answer \cup {None} :
        SetRecord(p, r, state, answer)
  BY DEF Settle, Answer
<1>2. /\ ledger' \in [Dispatchers -> Records] /\ ledger'[p][r] # None
      /\ evicted \subseteq evicted' /\ evicted' \subseteq Requests
      /\ \A q \in Dispatchers, x \in Requests :
           ledger[q][x] # None => ledger'[q][x] # None \/ x \in evicted'
  BY <1>1, SetRecordStep DEF States, Answers, IInv
<1>3. file' \in Records /\ saveErrors' \in 0..MaxSaveErrors
  <2>1. file \in Records /\ saveErrors \in 0..MaxSaveErrors
    BY DEF IInv, TypeOK, Records
  <2>2. Saves(p) \/ SaveThrows
    BY DEF Settle
  <2> QED
    BY <1>2, <2>1, <2>2, DispatcherAssumption DEF Saves, SaveThrows
<1>4. calls[p][r] \in 0..MaxStarts /\ calls[p][r] > 0 /\ MaxStarts \in Nat
  BY DispatcherAssumption DEF IInv, TypeOK, Settle
<1>5. /\ calls' = [calls EXCEPT ![p][r] = calls[p][r] - 1]
      /\ calls' \in [Dispatchers -> [Requests -> 0..MaxStarts]]
  BY <1>4 DEF Settle, IInv, TypeOK
<1>6. /\ active' = [active EXCEPT ![p] = active[p] \ {r}]
      /\ active' \in [Dispatchers -> SUBSET Requests]
  BY DEF Settle, IInv, TypeOK
<1>7. TypeOK'
  BY <1>2, <1>3, <1>5, <1>6 DEF IInv, TypeOK, Settle, Records
<1>8. ASSUME NEW q \in Dispatchers, NEW x \in Requests
      PROVE  /\ calls[q][x] \in Nat
             /\ calls'[q][x] = IF q = p /\ x = r THEN calls[q][x] - 1 ELSE calls[q][x]
             /\ active'[q] = IF q = p THEN active[q] \ {r} ELSE active[q]
             /\ starts'[x] = starts[x] /\ starts[x] \in Nat
  <2>1. calls[q][x] \in Nat /\ starts[x] \in Nat /\ starts' = starts
    BY <1>4 DEF IInv, TypeOK, Settle
  <2>2. calls \in [Dispatchers -> [Requests -> 0..MaxStarts]]
    BY DEF IInv, TypeOK
  <2>3. active \in [Dispatchers -> SUBSET Requests]
    BY DEF IInv, TypeOK
  <2>4. calls'[q][x] = IF q = p /\ x = r THEN calls[q][x] - 1 ELSE calls[q][x]
    BY <1>5, <2>2
  <2>5. active'[q] = IF q = p THEN active[q] \ {r} ELSE active[q]
    BY <1>6, <2>3
  <2> QED
    BY <2>1, <2>4, <2>5
<1>9. CallInv'
  <2> SUFFICES ASSUME NEW q \in Dispatchers, NEW x \in Requests
               PROVE  /\ calls'[q][x] <= starts'[x]
                      /\ calls'[q][x] > 0 =>
                           \/ x \in evicted'
                           \/ calls'[q][x] = 1 /\ x \in active'[q] /\ ledger'[q][x] # None
    BY DEF CallInv
  <2>1. /\ calls[q][x] <= starts[x]
        /\ calls[q][x] > 0 =>
             \/ x \in evicted
             \/ calls[q][x] = 1 /\ x \in active[q] /\ ledger[q][x] # None
    BY DEF IInv, CallInv
  <2>2. CASE q = p /\ x = r
    <3>1. /\ calls'[q][x] = calls[q][x] - 1 /\ calls[q][x] \in Nat
          /\ starts'[x] = starts[x] /\ starts[x] \in Nat
      BY <1>8, <2>2
    <3>2. calls'[q][x] > 0 => x \in evicted
      BY <2>1, <3>1
    <3> QED
      BY <1>2, <2>1, <3>1, <3>2
  <2>3. CASE ~(q = p /\ x = r)
    BY <1>2, <1>8, <2>1, <2>3
  <2> QED
    BY <2>2, <2>3
<1>10. PollInv'
  <2> SUFFICES ASSUME NEW k \in Polls, polls[k] # None, polls[k].of \notin evicted'
               PROVE  /\ ledger'[polls[k].at][polls[k].of] # None
                      /\ calls'[polls[k].at][polls[k].of] = 0
    BY DEF PollInv, Settle
  <2>1. polls[k].at \in Dispatchers /\ polls[k].of \in Requests
    BY DEF IInv, TypeOK, Poll
  <2>2. ledger[polls[k].at][polls[k].of] # None /\ calls[polls[k].at][polls[k].of] = 0
    BY <1>2 DEF IInv, PollInv
  <2>3. ~(polls[k].at = p /\ polls[k].of = r)
    BY <1>4, <2>2
  <2>4. calls'[polls[k].at][polls[k].of] = calls[polls[k].at][polls[k].of]
    BY <1>8, <2>1, <2>3
  <2> QED
    BY <1>2, <2>1, <2>2, <2>4
<1> QED
  BY <1>7, <1>9, <1>10 DEF IInv, PollSessionInv, Settle

LEMMA StatusRequestKeepsIInv ==
  ASSUME IInv, NEW k \in Polls, NEW p \in Dispatchers, NEW r \in Requests,
         StatusRequest(k, p, r)
  PROVE  IInv'
<1> DEFINE poll == [at |-> p, of |-> r, read |-> FALSE, answer |-> None]
<1>1. poll \in Poll /\ polls' = [polls EXCEPT ![k] = poll]
  BY DEF Poll, StatusRequest
<1>2. TypeOK'
  BY <1>1 DEF IInv, TypeOK, StatusRequest
<1>3. CallInv'
  BY DEF IInv, CallInv, StatusRequest
<1>4. ledger[p][r] # None /\ (calls[p][r] = 0 \/ r \in evicted)
  BY DEF StatusRequest, IsInterrupted, IInv, CallInv, TypeOK
<1>5. PollInv'
  BY <1>1, <1>4 DEF IInv, PollInv, TypeOK, StatusRequest
<1>6. PollSessionInv'
  BY <1>1 DEF IInv, PollSessionInv, TypeOK, StatusRequest, IsInterrupted
<1> QED
  BY <1>2, <1>3, <1>5, <1>6 DEF IInv

LEMMA ReadHistoryKeepsIInv ==
  ASSUME IInv, NEW k \in Polls, ReadHistory(k)
  PROVE  IInv'
<1>1. polls[k] \in Poll
  BY DEF IInv, TypeOK, ReadHistory
<1>2. LastMessage(polls[k].of) \in Answer \cup {None}
  <2>1. SessionOf[polls[k].of] \in Sessions
    BY <1>1, DispatcherAssumption DEF IInv, PollSessionInv, ReadHistory, Poll
  <2> QED
    BY <2>1 DEF IInv, TypeOK, LastMessage
<1> DEFINE poll == [polls[k] EXCEPT !.read = TRUE, !.answer = LastMessage(polls[k].of)]
<1>3. /\ poll \in Poll /\ poll.at = polls[k].at /\ poll.of = polls[k].of
      /\ polls' = [polls EXCEPT ![k] = poll]
  BY <1>1, <1>2 DEF Poll, ReadHistory
<1> HIDE DEF poll
<1>4. TypeOK'
  BY <1>3 DEF IInv, TypeOK, ReadHistory
<1>5. \A j \in Polls : polls'[j] # None =>
        polls[j] # None /\ polls'[j].at = polls[j].at /\ polls'[j].of = polls[j].of
  BY <1>3 DEF IInv, TypeOK, ReadHistory
<1> QED
  BY <1>4, <1>5, NoNewCall DEF ReadHistory

LEMMA RecoveredKeepsIInv ==
  ASSUME IInv, NEW k \in Polls, Recovered(k)
  PROVE  IInv'
<1> DEFINE p == polls[k].at
           r == polls[k].of
<1>1. polls[k] \in Poll
  BY DEF IInv, TypeOK, Recovered
<1>2. p \in Dispatchers /\ r \in Requests /\ polls[k].answer \in Answer \cup {None}
  BY <1>1 DEF Poll
<1>3. SetRecord(p, r, "completed", polls[k].answer)
  BY DEF Recovered
<1>4. /\ ledger' \in [Dispatchers -> Records]
      /\ evicted \subseteq evicted' /\ evicted' \subseteq Requests
      /\ \A q \in Dispatchers, x \in Requests :
           ledger[q][x] # None => ledger'[q][x] # None \/ x \in evicted'
  BY <1>2, <1>3, SetRecordStep DEF States, Answers, IInv
<1>5. file' \in Records /\ saveErrors' \in 0..MaxSaveErrors
  <2>1. file \in Records /\ saveErrors \in 0..MaxSaveErrors
    BY DEF IInv, TypeOK, Records
  <2>2. Saves(p) \/ SaveThrows
    BY DEF Recovered
  <2>3. ledger'[p] \in Records
    BY <1>2, <1>4
  <2> HIDE DEF p
  <2> QED
    BY <2>1, <2>2, <2>3, DispatcherAssumption DEF Saves, SaveThrows
<1>6. TypeOK' /\ \A j \in Polls : polls'[j] # None => polls'[j] = polls[j]
  BY <1>4, <1>5 DEF IInv, TypeOK, Recovered, Records
<1> QED
  BY <1>4, <1>6, NoNewCall DEF Recovered

LEMMA NotRecoveredKeepsIInv ==
  ASSUME IInv, NEW k \in Polls, NotRecovered(k)
  PROVE  IInv'
<1>1. TypeOK' /\ \A j \in Polls : polls'[j] # None => polls'[j] = polls[j]
  BY DEF IInv, TypeOK, NotRecovered
<1> QED
  BY <1>1, NoNewCall DEF NotRecovered

\* A message that comes in a session.
LEMMA SaidInIsTyped ==
  ASSUME TypeOK, NEW s \in Sessions, NEW a \in Answer, SaidIn(s, a)
  PROVE  last' \in [Sessions -> Answer \cup {None}] /\ said' \in [Sessions -> SUBSET Answer]
<1>1. said[s] \cup {a} \in SUBSET Answer
  BY DEF TypeOK
<1> QED
  BY <1>1 DEF TypeOK, SaidIn

LEMMA ProviderAnswersKeepsIInv ==
  ASSUME IInv, NEW r \in Requests, ProviderAnswers(r)
  PROVE  IInv'
<1>1. answers' \in [Requests -> 0..MaxStarts]
  <2>1. answers[r] \in 0..MaxStarts /\ starts[r] \in 0..MaxStarts /\ MaxStarts \in Nat
    BY DispatcherAssumption DEF IInv, TypeOK
  <2> QED
    BY <2>1 DEF ProviderAnswers, IInv, TypeOK
<1>2. last' \in [Sessions -> Answer \cup {None}] /\ said' \in [Sessions -> SUBSET Answer]
  <2>1. SessionOf[r] \in Sessions \cup {None}
    BY DispatcherAssumption
  <2>2. CASE \E s \in Sessions : SaidIn(s, r)
    BY <2>2, SaidInIsTyped DEF IInv, Answer
  <2>3. CASE UNCHANGED <<last, said>>
    BY <2>3 DEF IInv, TypeOK
  <2> QED
    BY <2>1, <2>2, <2>3 DEF ProviderAnswers
<1>3. TypeOK'
  BY <1>1, <1>2 DEF ProviderAnswers, IInv, TypeOK
<1> QED
  BY <1>3, NoNewCall DEF ProviderAnswers

LEMMA OtherAnswersKeepsIInv ==
  ASSUME IInv, NEW s \in Sessions, OtherAnswers(s)
  PROVE  IInv'
<1>1. last' \in [Sessions -> Answer \cup {None}] /\ said' \in [Sessions -> SUBSET Answer]
  BY SaidInIsTyped DEF IInv, OtherAnswers, Answer
<1>2. TypeOK'
  BY <1>1 DEF OtherAnswers, IInv, TypeOK
<1> QED
  BY <1>2, NoNewCall DEF OtherAnswers

LEMMA RestartKeepsIInv ==
  ASSUME IInv, NEW records \in Records, RestartWith(records),
         evicted' \subseteq Requests
  PROVE  IInv'
<1>1. TypeOK'
  BY DispatcherAssumption DEF IInv, TypeOK, RestartWith, Load, Records
<1>2. CallInv' /\ PollInv' /\ PollSessionInv'
  BY DEF RestartWith, CallInv, PollInv, PollSessionInv, IInv, TypeOK
<1> QED
  BY <1>1, <1>2 DEF IInv

LEMMA CrashInChatRequestKeepsIInv ==
  ASSUME IInv, NEW p \in Dispatchers, NEW r \in Requests, CrashInChatRequest(p, r)
  PROVE  IInv'
<1>1. ledger[p] \in Records
  BY DEF IInv, TypeOK, Records
<1>2. Put(ledger[p], r, "delivered", None) \in Records
  BY <1>1, PutIsRecords DEF States, Answers
<1>3. evicted' \subseteq Requests
  BY DEF CrashInChatRequest, IInv, TypeOK
<1> QED
  BY <1>2, <1>3, RestartKeepsIInv DEF CrashInChatRequest

LEMMA NextIInv == IInv /\ [Next]_vars => IInv'
<1> SUFFICES ASSUME IInv, [Next]_vars PROVE IInv'
  OBVIOUS
<1>1. CASE UNCHANGED vars
  BY <1>1 DEF vars, IInv, TypeOK, CallInv, PollInv, PollSessionInv
<1>2. ASSUME NEW p \in Dispatchers, NEW r \in Requests,
             \/ ChatRequest(p, r) \/ ChatRequestThrows(p, r) \/ CrashInChatRequest(p, r)
             \/ Settle(p, r)
             \/ \E k \in Polls : StatusRequest(k, p, r)
      PROVE  IInv'
  BY <1>2, ChatRequestKeepsIInv, ChatRequestThrowsKeepsIInv, CrashInChatRequestKeepsIInv,
     SettleKeepsIInv, StatusRequestKeepsIInv
<1>3. ASSUME NEW k \in Polls, ReadHistory(k) \/ Recovered(k) \/ NotRecovered(k)
      PROVE  IInv'
  BY <1>3, ReadHistoryKeepsIInv, RecoveredKeepsIInv, NotRecoveredKeepsIInv
<1>4. ASSUME (\E r \in Requests : ProviderAnswers(r)) \/ (\E s \in OpenSessions : OtherAnswers(s))
      PROVE  IInv'
  BY <1>4, ProviderAnswersKeepsIInv, OtherAnswersKeepsIInv, DispatcherAssumption
<1>5. CASE Crash
  <2>1. file \in Records /\ evicted' \subseteq Requests
    BY <1>5 DEF Crash, IInv, TypeOK, Records
  <2> QED
    BY <1>5, <2>1, RestartKeepsIInv DEF Crash
<1> QED
  BY <1>1, <1>2, <1>3, <1>4, <1>5 DEF Next

THEOREM Invariance == Spec => []IInv
<1>1. Init => IInv
  BY InitIInv
<1> QED
  BY <1>1, NextIInv, PTL DEF Spec

\* Type correctness, with any number of dispatchers: the file is always one
\* that a start can read, with at most maxRecords places.
THEOREM TypeCorrect == Spec => []TypeOK
<1>1. IInv => TypeOK
  BY DEF IInv
<1> QED
  BY <1>1, Invariance, PTL

\* activeRequestKeys does what it is for: commandStatus never recovers a
\* request whose own call is under way, unless the ledger lost its record.
THEOREM RecoveryIsExclusive == Spec => []RecoveryOnlyOfInterrupted
<1>1. IInv => RecoveryOnlyOfInterrupted
  BY DEF IInv, PollInv, RecoveryOnlyOfInterrupted
<1> QED
  BY <1>1, Invariance, PTL

----------------------------------------------------------------------------
(* A request is executed at most once by one dispatcher *)

\* The place of a record does not depend on what the record says.
LEMMA PutSameRequests ==
  ASSUME NEW records \in Records, NEW r \in Requests, NEW x \in Requests,
         NEW s \in States, NEW a \in Answers, NEW t \in States, NEW b \in Answers
  PROVE  Put(records, r, s, a)[x] = None <=> Put(records, r, t, b)[x] = None
<1>1. CASE x = r
  BY <1>1, PutIsRecords
<1>2. CASE x # r
  BY <1>2 DEF Put
<1> QED
  BY <1>1, <1>2

\* A step that executes nothing keeps OnceInv if only evicted records are lost.
LEMMA NothingLost ==
  ASSUME OnceInv, UNCHANGED starts, evicted \subseteq evicted',
         \A x \in Requests : starts[x] > 0 /\ x \notin evicted' =>
           file'[x] # None /\ \A q \in Dispatchers : ledger'[q][x] # None
  PROVE  OnceInv'
BY DEF OnceInv

\* Setting a record loses none but the evicted ones, in memory and, if it is
\* saved, in the file.
LEMMA SetRecordLosesNothing ==
  ASSUME TypeOK, OnceInv, OneDispatcher, NEW p \in Dispatchers, NEW r \in Requests,
         NEW state \in States, NEW answer \in Answers, SetRecord(p, r, state, answer),
         file' = file \/ \E t \in States : file' = Put(ledger[p], r, t, None)
                      \/ file' = ledger'[p]
  PROVE  \A x \in Requests : starts[x] > 0 /\ x \notin evicted' =>
           file'[x] # None /\ \A q \in Dispatchers : ledger'[q][x] # None
<1> SUFFICES ASSUME NEW x \in Requests, starts[x] > 0, x \notin evicted'
             PROVE  file'[x] # None /\ \A q \in Dispatchers : ledger'[q][x] # None
  OBVIOUS
<1>1. /\ ledger'[p] = Put(ledger[p], r, state, answer)
      /\ evicted \subseteq evicted'
      /\ \A q \in Dispatchers : ledger[q][x] # None => ledger'[q][x] # None
  BY SetRecordStep
<1>2. file[x] # None /\ \A q \in Dispatchers : ledger[q][x] # None
  BY <1>1 DEF OnceInv
<1>3. \A q \in Dispatchers : ledger'[q][x] # None
  BY <1>1, <1>2
<1>4. ledger[p] \in Records /\ None \in Answers
  BY DEF TypeOK, Records, Answers
<1>5. file'[x] # None
  <2>1. CASE file' = file
    BY <1>2, <2>1
  <2>2. ASSUME NEW t \in States, file' = Put(ledger[p], r, t, None) PROVE file'[x] # None
    BY <1>1, <1>3, <1>4, <2>2, PutSameRequests
  <2>3. CASE file' = ledger'[p]
    BY <1>3, <2>3
  <2> QED
    BY <2>1, <2>2, <2>3
<1> QED
  BY <1>3, <1>5

LEMMA ChatRequestKeepsOnce ==
  ASSUME IInv, OnceInv, OneDispatcher, NEW p \in Dispatchers, NEW r \in Requests,
         ChatRequest(p, r)
  PROVE  OnceInv'
<1>1. /\ SetRecord(p, r, "executing", None) /\ file' = ledger'[p]
      /\ "executing" \in States /\ None \in Answers /\ TypeOK
  BY DEF ChatRequest, Saves, States, Answers, IInv
<1>2. /\ evicted \subseteq evicted' /\ ledger'[p][r] # None
      /\ \A x \in Requests : starts[x] > 0 /\ x \notin evicted' =>
           file'[x] # None /\ \A q \in Dispatchers : ledger'[q][x] # None
  BY <1>1, SetRecordStep, SetRecordLosesNothing
<1>3. starts[r] = 0 \/ r \in evicted
  BY DEF OnceInv, ChatRequest, Arrives, IsNew, IInv, TypeOK
<1>4. \A x \in Requests : /\ starts[x] \in Nat
                         /\ starts'[x] = IF x = r THEN starts[x] + 1 ELSE starts[x]
  BY DEF ChatRequest, IInv, TypeOK
<1> SUFFICES ASSUME NEW x \in Requests, starts'[x] > 0, x \notin evicted'
             PROVE  /\ starts'[x] = 1 /\ file'[x] # None
                    /\ \A q \in Dispatchers : ledger'[q][x] # None
  BY DEF OnceInv
<1>5. CASE x = r
  <2>1. starts'[x] = 1
    BY <1>2, <1>3, <1>4, <1>5
  <2>2. \A q \in Dispatchers : ledger'[q][x] # None
    BY <1>2, <1>5 DEF OneDispatcher
  <2> QED
    BY <1>1, <2>1, <2>2
<1>6. CASE x # r
  <2>1. starts[x] = starts'[x]
    BY <1>4, <1>6
  <2>2. starts[x] = 1
    BY <1>2, <2>1 DEF OnceInv
  <2> QED
    BY <1>2, <2>1, <2>2
<1> QED
  BY <1>5, <1>6

LEMMA OtherRecordsKeepOnce ==
  ASSUME IInv, OnceInv, OneDispatcher, NEW p \in Dispatchers, NEW r \in Requests,
         NEW state \in States, NEW answer \in Answers, SetRecord(p, r, state, answer),
         file' = file \/ (\E t \in States : file' = Put(ledger[p], r, t, None))
                      \/ file' = ledger'[p],
         UNCHANGED starts
  PROVE  OnceInv'
<1>1. TypeOK /\ evicted \subseteq evicted'
  BY SetRecordStep DEF IInv
<1> QED
  BY <1>1, NothingLost, SetRecordLosesNothing

LEMMA RestartKeepsOnce ==
  ASSUME OnceInv, NEW records, RestartWith(records), evicted \subseteq evicted',
         \A x \in Requests : starts[x] > 0 /\ x \notin evicted' => records[x] # None
  PROVE  OnceInv'
BY NothingLost DEF RestartWith, Load

LEMMA NextOnceInv == ASSUME OneDispatcher PROVE IInv /\ OnceInv /\ [Next]_vars => OnceInv'
<1> SUFFICES ASSUME IInv, OnceInv, [Next]_vars PROVE OnceInv'
  OBVIOUS
<1>1. CASE UNCHANGED vars
  BY <1>1 DEF vars, OnceInv
<1>2. ASSUME NEW p \in Dispatchers, NEW r \in Requests, ChatRequest(p, r) PROVE OnceInv'
  BY <1>2, ChatRequestKeepsOnce
<1>3. ASSUME NEW p \in Dispatchers, NEW r \in Requests, ChatRequestThrows(p, r)
      PROVE  OnceInv'
  <2>1. PICK state \in {"delivered", "executing"} :
          /\ SetRecord(p, r, state, None)
          /\ file' = file \/ file' = Put(ledger[p], r, "delivered", None)
    BY <1>3 DEF ChatRequestThrows
  <2> QED
    BY <1>3, <2>1, OtherRecordsKeepOnce DEF ChatRequestThrows, States, Answers
<1>4. ASSUME NEW p \in Dispatchers, NEW r \in Requests, CrashInChatRequest(p, r)
      PROVE  OnceInv'
  <2> DEFINE records == Put(ledger[p], r, "delivered", None)
  <2>1. RestartWith(records)
    BY <1>4 DEF CrashInChatRequest
  <2>2. evicted' = evicted \cup {x \in Requests : ledger[p][x] # None /\ records[x] = None}
    BY <1>4 DEF CrashInChatRequest
  <2> HIDE DEF records
  <2>3. \A x \in Requests : starts[x] > 0 /\ x \notin evicted' => records[x] # None
    BY <2>2 DEF OnceInv
  <2> QED
    BY <2>1, <2>2, <2>3, RestartKeepsOnce
<1>5. ASSUME NEW p \in Dispatchers, NEW r \in Requests, Settle(p, r) PROVE OnceInv'
  <2>1. PICK state \in {"completed", "failed"}, answer \in Answer \cup {None} :
          SetRecord(p, r, state, answer)
    BY <1>5 DEF Settle, Answer
  <2> QED
    BY <1>5, <2>1, OtherRecordsKeepOnce DEF Settle, Saves, SaveThrows, States, Answers
<1>6. ASSUME NEW k \in Polls, Recovered(k) PROVE OnceInv'
  <2>1. polls[k] \in Poll
    BY <1>6 DEF Recovered, IInv, TypeOK
  <2>2. /\ polls[k].at \in Dispatchers /\ polls[k].of \in Requests
        /\ polls[k].answer \in Answers /\ "completed" \in States
    BY <2>1 DEF Poll, Answers, States
  <2> QED
    BY <1>6, <2>2, OtherRecordsKeepOnce DEF Recovered, Saves, SaveThrows
<1>7. CASE \/ \E p \in Dispatchers, r \in Requests, k \in Polls : StatusRequest(k, p, r)
           \/ \E k \in Polls : ReadHistory(k) \/ NotRecovered(k)
           \/ \E r \in Requests : ProviderAnswers(r)
           \/ \E s \in OpenSessions : OtherAnswers(s)
  BY <1>7 DEF OnceInv, StatusRequest, ReadHistory, NotRecovered, ProviderAnswers, OtherAnswers
<1>8. CASE Crash
  BY <1>8, RestartKeepsOnce DEF Crash, OnceInv
<1> QED
  BY <1>1, <1>2, <1>3, <1>4, <1>5, <1>6, <1>7, <1>8 DEF Next

\* The durable ledger makes one dispatcher execute a request at most once,
\* across duplicates, crashes and failed saves, as long as it has room for the
\* request; with two dispatchers on one file it does not (MCDispatcherTwo).
THEOREM OneDispatcherExecutesOnce == ASSUME OneDispatcher PROVE Spec => []ExecutedOnce
<1>1. IInv /\ OnceInv => ExecutedOnce
  <2> SUFFICES ASSUME IInv, OnceInv, NEW r \in Requests
               PROVE  starts[r] <= 1 \/ r \in evicted
    BY DEF ExecutedOnce
  <2>1. starts[r] \in Nat
    BY DEF IInv, TypeOK
  <2> QED
    BY <2>1 DEF OnceInv
<1>2. Init => IInv /\ OnceInv
  BY InitIInv
<1>3. IInv /\ OnceInv /\ [Next]_vars => IInv' /\ OnceInv'
  BY NextIInv, NextOnceInv
<1> QED
  BY <1>1, <1>2, <1>3, PTL DEF Spec

----------------------------------------------------------------------------
(* The answer on record came in the session of the request *)

\* a is the answer to r itself, or one that was given in the session it names.
AnswersTo(a, r) == a = r \/ (SessionOf[r] # None /\ a \in said[SessionOf[r]])

\* The completed ones of these records have such answers.
RecordsAnswered(records) ==
  \A r \in Requests :
    records[r] # None /\ records[r].state = "completed" => AnswersTo(records[r].answer, r)

AnswersInv ==
  /\ \A s \in Sessions : last[s] # None => last[s] \in said[s]
  /\ \A k \in Polls :
       polls[k] # None /\ polls[k].answer # None => AnswersTo(polls[k].answer, polls[k].of)
  /\ \A p \in Dispatchers : RecordsAnswered(ledger[p])
  /\ RecordsAnswered(file)

\* What a record says stays as long as it is there, whatever is set beside it.
LEMMA PutFields ==
  ASSUME NEW records \in Records, NEW r \in Requests,
         NEW state \in States, NEW answer \in Answers, NEW x \in Requests,
         Put(records, r, state, answer)[x] # None
  PROVE  /\ x = r => /\ Put(records, r, state, answer)[x].state = state
                     /\ Put(records, r, state, answer)[x].answer = answer
         /\ x # r => /\ records[x] # None
                     /\ Put(records, r, state, answer)[x].state = records[x].state
                     /\ Put(records, r, state, answer)[x].answer = records[x].answer
<1>1. CASE x = r
  <2>1. Put(records, r, state, answer)[x] = [state |-> state, answer |-> answer, newer |-> 0]
    BY <1>1 DEF Put
  <2> QED
    BY <1>1, <2>1
<1>2. CASE x # r
  <2>1. records[x] # None
    BY <1>2, PutIsRecords
  <2>2. records[x] \in Record
    BY <2>1 DEF Records
  <2>3. \/ Put(records, r, state, answer)[x] = records[x]
        \/ Put(records, r, state, answer)[x]
             = [records[x] EXCEPT !.newer = records[x].newer + 1]
    BY <1>2, <2>1 DEF Put
  <2> QED
    BY <1>2, <2>1, <2>2, <2>3 DEF Record
<1> QED
  BY <1>1, <1>2

LEMMA PutKeepsAnswers ==
  ASSUME NEW records \in Records, NEW r \in Requests,
         NEW state \in States, NEW answer \in Answers,
         RecordsAnswered(records), state = "completed" => AnswersTo(answer, r)
  PROVE  RecordsAnswered(Put(records, r, state, answer))
BY PutFields DEF RecordsAnswered

\* A step that sets a record, with an answer to its request if it completes it.
LEMMA SetRecordKeepsAnswers ==
  ASSUME IInv, AnswersInv, NEW p \in Dispatchers, NEW r \in Requests,
         NEW state \in States, NEW answer \in Answers, SetRecord(p, r, state, answer),
         state = "completed" => AnswersTo(answer, r),
         file' = file \/ file' = Put(ledger[p], r, "delivered", None) \/ file' = ledger'[p],
         UNCHANGED <<last, said>>,
         \A k \in Polls : polls'[k] # None => polls'[k] = polls[k]
  PROVE  AnswersInv'
<1>1. ledger \in [Dispatchers -> Records] /\ ledger[p] \in Records
  BY DEF IInv, TypeOK, Records
<1>2. ledger' = [ledger EXCEPT ![p] = Put(ledger[p], r, state, answer)]
  BY DEF SetRecord
<1>3. RecordsAnswered(Put(ledger[p], r, state, answer))
  BY <1>1, PutKeepsAnswers DEF AnswersInv
<1>4. RecordsAnswered(Put(ledger[p], r, "delivered", None))
  BY <1>1, PutKeepsAnswers DEF AnswersInv, States, Answers
<1>5. ASSUME NEW q \in Dispatchers PROVE RecordsAnswered(ledger'[q])
  BY <1>1, <1>2, <1>3 DEF AnswersInv
<1>6. RecordsAnswered(file')
  BY <1>4, <1>5 DEF AnswersInv
<1>7. (\A q \in Dispatchers : RecordsAnswered(ledger[q]))' /\ RecordsAnswered(file)'
  BY <1>5, <1>6 DEF RecordsAnswered, AnswersTo
<1>8. (\A k \in Polls :
         polls[k] # None /\ polls[k].answer # None => AnswersTo(polls[k].answer, polls[k].of))'
  BY DEF AnswersInv, AnswersTo
<1>9. (\A s \in Sessions : last[s] # None => last[s] \in said[s])'
  BY DEF AnswersInv
<1> QED
  BY <1>7, <1>8, <1>9 DEF AnswersInv

LEMMA ReadHistoryKeepsAnswers ==
  ASSUME IInv, AnswersInv, NEW k \in Polls, ReadHistory(k)
  PROVE  AnswersInv'
<1> DEFINE r == polls[k].of
<1>1. polls[k] \in Poll /\ r \in Requests /\ SessionOf[r] \in Sessions
  BY DispatcherAssumption DEF IInv, TypeOK, PollSessionInv, ReadHistory, Poll
<1>2. LastMessage(r) # None => AnswersTo(LastMessage(r), r)
  <2>1. SessionOf[r] # None
    BY DEF IInv, PollSessionInv, ReadHistory
  <2>2. \A s \in Sessions : last[s] # None => last[s] \in said[s]
    BY DEF AnswersInv
  <2> HIDE DEF r
  <2> QED
    BY <1>1, <2>1, <2>2 DEF LastMessage, AnswersTo
<1> DEFINE poll == [polls[k] EXCEPT !.read = TRUE, !.answer = LastMessage(r)]
<1>3. polls' = [polls EXCEPT ![k] = poll] /\ poll.of = r /\ poll.answer = LastMessage(r)
  BY <1>1 DEF ReadHistory, Poll
<1> HIDE DEF r, poll
<1>4. \A j \in Polls :
        polls'[j] # None /\ polls'[j].answer # None => AnswersTo(polls'[j].answer, polls'[j].of)
  BY <1>2, <1>3 DEF AnswersInv, IInv, TypeOK
<1>5. UNCHANGED <<ledger, file, last, said>>
  BY DEF ReadHistory
<1>6. (\A j \in Polls :
         polls[j] # None /\ polls[j].answer # None => AnswersTo(polls[j].answer, polls[j].of))'
  BY <1>4, <1>5 DEF AnswersTo
<1>7. (\A p \in Dispatchers : RecordsAnswered(ledger[p]))' /\ RecordsAnswered(file)'
      /\ (\A s \in Sessions : last[s] # None => last[s] \in said[s])'
  BY <1>5 DEF AnswersInv, RecordsAnswered, AnswersTo
<1> QED
  BY <1>6, <1>7 DEF AnswersInv

\* What was said in a session stays said.
LEMMA MoreSaidKeepsAnswers ==
  ASSUME IInv, AnswersInv, UNCHANGED <<ledger, file, polls>>,
         \A s \in Sessions : said[s] \subseteq said'[s],
         \A s \in Sessions : last'[s] # None => last'[s] \in said'[s]
  PROVE  AnswersInv'
<1>1. \A a, r : r \in Requests /\ AnswersTo(a, r) => AnswersTo(a, r)'
  BY DispatcherAssumption DEF AnswersTo
<1>2. \A k \in Polls : polls[k] # None => polls[k].of \in Requests
  BY DEF IInv, TypeOK, Poll
<1>3. (\A k \in Polls :
         polls[k] # None /\ polls[k].answer # None => AnswersTo(polls[k].answer, polls[k].of))'
  BY <1>1, <1>2 DEF AnswersInv
<1>4. (\A p \in Dispatchers : RecordsAnswered(ledger[p]))' /\ RecordsAnswered(file)'
  BY <1>1 DEF AnswersInv, RecordsAnswered
<1> QED
  BY <1>3, <1>4 DEF AnswersInv

LEMMA SaidInKeepsAnswers ==
  ASSUME IInv, AnswersInv, NEW s \in Sessions, NEW a \in Answer, SaidIn(s, a),
         UNCHANGED <<ledger, file, polls>>
  PROVE  AnswersInv'
<1>1. \A x \in Sessions : said[x] \subseteq said'[x]
  BY DEF SaidIn, IInv, TypeOK
<1>2. \A x \in Sessions : last'[x] # None => last'[x] \in said'[x]
  BY DEF SaidIn, AnswersInv, IInv, TypeOK
<1> QED
  BY <1>1, <1>2, MoreSaidKeepsAnswers

LEMMA ProviderAnswersKeepsAnswers ==
  ASSUME IInv, AnswersInv, NEW r \in Requests, ProviderAnswers(r)
  PROVE  AnswersInv'
<1>1. SessionOf[r] \in Sessions \cup {None}
  BY DispatcherAssumption
<1>2. CASE \E s \in Sessions : SaidIn(s, r)
  BY <1>2, SaidInKeepsAnswers DEF ProviderAnswers, Answer
<1>3. CASE UNCHANGED <<last, said>>
  BY <1>3, MoreSaidKeepsAnswers DEF ProviderAnswers, AnswersInv
<1> QED
  BY <1>1, <1>2, <1>3 DEF ProviderAnswers

LEMMA RestartKeepsAnswers ==
  ASSUME AnswersInv, NEW records, RecordsAnswered(records), RestartWith(records)
  PROVE  AnswersInv'
<1>1. /\ file' = records /\ \A q \in Dispatchers : ledger'[q] = records
      /\ last' = last /\ said' = said /\ \A k \in Polls : polls'[k] = None
  BY DEF RestartWith, Load
<1> QED
  BY <1>1 DEF AnswersInv, RecordsAnswered, AnswersTo

LEMMA NextAnswersInv == IInv /\ AnswersInv /\ [Next]_vars => AnswersInv'
<1> SUFFICES ASSUME IInv, AnswersInv, [Next]_vars PROVE AnswersInv'
  OBVIOUS
<1>1. CASE UNCHANGED vars
  BY <1>1 DEF vars, AnswersInv, RecordsAnswered, AnswersTo
<1>2. ASSUME NEW p \in Dispatchers, NEW r \in Requests, ChatRequest(p, r) PROVE AnswersInv'
  BY <1>2, SetRecordKeepsAnswers DEF ChatRequest, Saves, States, Answers
<1>3. ASSUME NEW p \in Dispatchers, NEW r \in Requests, ChatRequestThrows(p, r)
      PROVE  AnswersInv'
  <2>1. PICK state \in {"delivered", "executing"} :
          /\ SetRecord(p, r, state, None)
          /\ file' = file \/ file' = Put(ledger[p], r, "delivered", None)
    BY <1>3 DEF ChatRequestThrows
  <2> QED
    BY <1>3, <2>1, SetRecordKeepsAnswers DEF ChatRequestThrows, States, Answers
<1>4. ASSUME NEW p \in Dispatchers, NEW r \in Requests, CrashInChatRequest(p, r)
      PROVE  AnswersInv'
  <2>1. ledger[p] \in Records
    BY DEF IInv, TypeOK, Records
  <2>2. RecordsAnswered(Put(ledger[p], r, "delivered", None))
    BY <2>1, PutKeepsAnswers DEF AnswersInv, States, Answers
  <2> QED
    BY <1>4, <2>2, RestartKeepsAnswers DEF CrashInChatRequest
<1>5. ASSUME NEW p \in Dispatchers, NEW r \in Requests, Settle(p, r) PROVE AnswersInv'
  <2>1. PICK state \in {"completed", "failed"}, answer \in Answers :
          /\ SetRecord(p, r, state, answer)
          /\ state = "completed" => answer = r
    BY <1>5 DEF Settle, Answers, Answer
  <2>2. file' = file \/ file' = ledger'[p]
    BY <1>5 DEF Settle, Saves, SaveThrows
  <2> QED
    BY <1>5, <2>1, <2>2, SetRecordKeepsAnswers DEF Settle, States, AnswersTo
<1>6. ASSUME NEW k \in Polls, Recovered(k) PROVE AnswersInv'
  <2>1. polls[k] \in Poll
    BY <1>6 DEF Recovered, IInv, TypeOK
  <2>2. /\ polls[k].at \in Dispatchers /\ polls[k].of \in Requests
        /\ polls[k].answer \in Answers /\ "completed" \in States
        /\ AnswersTo(polls[k].answer, polls[k].of)
    BY <1>6, <2>1 DEF Poll, Answers, States, AnswersInv, Recovered
  <2>3. file' = file \/ file' = ledger'[polls[k].at]
    BY <1>6 DEF Recovered, Saves, SaveThrows
  <2>4. \A j \in Polls : polls'[j] # None => polls'[j] = polls[j]
    BY <1>6 DEF Recovered, IInv, TypeOK
  <2> QED
    BY <1>6, <2>2, <2>3, <2>4, SetRecordKeepsAnswers DEF Recovered
<1>7. ASSUME NEW k \in Polls, ReadHistory(k) PROVE AnswersInv'
  BY <1>7, ReadHistoryKeepsAnswers
<1>8. ASSUME NEW k \in Polls,
             NotRecovered(k) \/ \E p \in Dispatchers, r \in Requests : StatusRequest(k, p, r)
      PROVE  AnswersInv'
  <2>1. \A j \in Polls : polls'[j] # None /\ polls'[j].answer # None => polls'[j] = polls[j]
    BY <1>8 DEF NotRecovered, StatusRequest, IInv, TypeOK
  <2>2. UNCHANGED <<ledger, file, last, said>>
    BY <1>8 DEF NotRecovered, StatusRequest
  <2> QED
    BY <2>1, <2>2 DEF AnswersInv, RecordsAnswered, AnswersTo
<1>9. ASSUME (\E r \in Requests : ProviderAnswers(r)) \/ (\E s \in OpenSessions : OtherAnswers(s))
      PROVE  AnswersInv'
  BY <1>9, ProviderAnswersKeepsAnswers, SaidInKeepsAnswers, DispatcherAssumption
     DEF OtherAnswers, Answer
<1>10. CASE Crash
  BY <1>10, RestartKeepsAnswers DEF Crash, AnswersInv
<1> QED
  BY <1>1, <1>2, <1>3, <1>4, <1>5, <1>6, <1>7, <1>8, <1>9, <1>10 DEF Next

\* The answer on record of a completed request is its own, or was given in the
\* session that it names: with any number of dispatchers, whatever was lost, and
\* however the history was read between two answers.  So a request that alone is
\* answered in its session has its own answer; another may have that of a request
\* before it (MCDispatcherRecovery), of the one that its session was made for, or
\* of someone else.
THEOREM AnsweredInOwnSession == Spec => []OwnAnswerInOwnSession
<1>1. Init => IInv /\ AnswersInv
  BY InitIInv DEF Init, AnswersInv, RecordsAnswered
<1>2. IInv /\ AnswersInv /\ [Next]_vars => IInv' /\ AnswersInv'
  BY NextIInv, NextAnswersInv
<1>3. AnswersInv => OwnAnswerInOwnSession
  BY DEF AnswersInv, RecordsAnswered, AnswersTo, OwnAnswerInOwnSession
<1> QED
  BY <1>1, <1>2, <1>3, PTL DEF Spec

----------------------------------------------------------------------------
(* One dispatcher keeps the promise of ExecuteOnce *)

\* The file does not say more of r than the ledger of p, and says something as
\* soon as r may have been executed.
FileSays(p, r) ==
  /\ file[r] # None => ledger[p][r] # None
  /\ IsSettled(file[r]) => IsSettled(ledger[p][r])
  /\ ledger[p][r] # None /\ ledger[p][r].state # "delivered" => file[r] # None

FileInv == \A p \in Dispatchers, r \in Requests : r \notin evicted => FileSays(p, r)

\* No request is recovered of which the file says nothing.
PollFileInv ==
  \A k \in Polls : polls[k] # None => polls[k].of \in evicted \/ file[polls[k].of] # None

PromiseInv == IInv /\ OnceInv /\ FileInv /\ PollFileInv

\* What a step does to the record of x in the file, if x is not forgotten.
Forwards(x) ==
  /\ file[x] # None => file'[x] # None
  /\ IsSettled(file[x]) => IsSettled(file'[x])
  /\ file[x] = None => ~IsSettled(file'[x])

\* Two records, or the lack of them, that say the same.
Agree(a, b) == (a = None <=> b = None) /\ (a # None => a.state = b.state)

\* A record in the file that moves forwards takes a step of ExecuteOnce.
LEMMA ForwardsIsPromised ==
  ASSUME IInv, OnceInv, NEW x \in Requests, evicted \subseteq evicted',
         starts'[x] = starts[x], x \notin evicted' => Forwards(x)
  PROVE  Promise!Accept(x) \/ Promise!Settle(x) \/ Promise!Forget(x) \/ Promise!Stay(x)
<1> DEFINE before == Phase(x)
           after == Phase(x)'
<1>1. starts[x] \in Nat
  BY DEF IInv, TypeOK
<1>2. CASE x \in evicted'
  <2>1. after = "forgotten" /\ before \in {"new", "accepted", "running", "settled", "forgotten"}
    BY <1>2 DEF Phase
  <2> QED
    BY <1>1, <2>1 DEF Promise!Forget, Promise!Stay, Promise!Moves
<1>3. CASE x \notin evicted'
  <2>1. starts[x] > 0 => file[x] # None
    BY <1>3 DEF OnceInv
  <2>2. \/ after = before
        \/ before = "new" /\ after = "accepted"
        \/ before \in {"accepted", "running"} /\ after = "settled"
    BY <1>3, <2>1 DEF Phase, Forwards
  <2> QED
    BY <1>1, <2>2 DEF Promise!Accept, Promise!Settle, Promise!Stay, Promise!Moves
<1> QED
  BY <1>2, <1>3

\* A step that executes nothing, and on which all records move forwards.
LEMMA AllForwards ==
  ASSUME PromiseInv, UNCHANGED starts, evicted \subseteq evicted',
         \A x \in Requests \ evicted' :
           Forwards(x) /\ \A p \in Dispatchers : FileSays(p, x)',
         \A k \in Polls : polls'[k] # None => polls[k] # None /\ polls'[k].of = polls[k].of
  PROVE  FileInv' /\ PollFileInv' /\ Promise!Next
<1>1. FileInv'
  BY DEF FileInv
<1>2. PollFileInv'
  <2> SUFFICES ASSUME NEW k \in Polls, polls'[k] # None
               PROVE  polls'[k].of \in evicted' \/ file'[polls'[k].of] # None
    BY DEF PollFileInv
  <2>1. polls[k].of \in Requests /\ polls'[k].of = polls[k].of
    BY DEF PromiseInv, IInv, TypeOK, Poll
  <2> QED
    BY <2>1 DEF PromiseInv, PollFileInv, Forwards
<1>3. ASSUME NEW x \in Requests
      PROVE  Promise!Accept(x) \/ Promise!Settle(x) \/ Promise!Forget(x) \/ Promise!Stay(x)
  BY ForwardsIsPromised DEF PromiseInv
<1> QED
  BY <1>1, <1>2, <1>3 DEF Promise!Next

LEMMA PutAgrees ==
  ASSUME NEW records \in Records, NEW r \in Requests,
         NEW state \in States, NEW answer \in Answers, NEW x \in Requests \ {r},
         records[x] # None => Put(records, r, state, answer)[x] # None
  PROVE  Agree(Put(records, r, state, answer)[x], records[x])
BY PutFields, PutIsRecords DEF Agree

\* When a record is set, those of the other requests stay what they are in the
\* ledger, and become in the file what they are in the ledger or stay.
LEMMA OthersAgree ==
  ASSUME IInv, NEW p \in Dispatchers, NEW r \in Requests,
         NEW state \in States, NEW answer \in Answers, SetRecord(p, r, state, answer),
         file' = file \/ file' = Put(ledger[p], r, "delivered", None) \/ file' = ledger'[p],
         NEW x \in Requests \ {r}, x \notin evicted'
  PROVE  /\ Agree(ledger'[p][x], ledger[p][x])
         /\ file'[x] = file[x] \/ Agree(file'[x], ledger[p][x])
<1>1. /\ ledger[p] \in Records /\ TypeOK
      /\ "delivered" \in States /\ None \in Answers
  BY DEF IInv, TypeOK, Records, States, Answers
<1>2. /\ ledger'[p] = Put(ledger[p], r, state, answer)
      /\ ledger[p][x] # None => ledger'[p][x] # None
  BY <1>1, SetRecordStep
<1>3. Agree(ledger'[p][x], ledger[p][x])
  BY <1>1, <1>2, PutAgrees
<1>4. ledger[p][x] # None => Put(ledger[p], r, "delivered", None)[x] # None
  BY <1>1, <1>2, PutSameRequests
<1>5. Agree(Put(ledger[p], r, "delivered", None)[x], ledger[p][x])
  BY <1>1, <1>4, PutAgrees
<1> QED
  BY <1>3, <1>5

\* So they move forwards.
LEMMA OthersForwards ==
  ASSUME PromiseInv, OneDispatcher, NEW p \in Dispatchers, NEW x \in Requests,
         x \notin evicted, Agree(ledger'[p][x], ledger[p][x]),
         file'[x] = file[x] \/ Agree(file'[x], ledger[p][x])
  PROVE  Forwards(x) /\ \A q \in Dispatchers : FileSays(q, x)'
<1>1. FileSays(p, x) /\ \A q \in Dispatchers : q = p
  BY DEF PromiseInv, FileInv, OneDispatcher
<1>2. Forwards(x)
  BY <1>1 DEF Agree, Forwards, FileSays, IsSettled
<1>3. FileSays(p, x)'
  BY <1>1 DEF Agree, FileSays, IsSettled
<1> QED
  BY <1>1, <1>2, <1>3

LEMMA ChatRequestIsPromised ==
  ASSUME PromiseInv, OneDispatcher, NEW p \in Dispatchers, NEW r \in Requests,
         ChatRequest(p, r)
  PROVE  FileInv' /\ PollFileInv' /\ Promise!Next
<1>1. /\ SetRecord(p, r, "executing", None) /\ file' = ledger'[p] /\ polls' = polls
      /\ "executing" \in States /\ None \in Answers /\ IInv /\ TypeOK /\ OnceInv /\ FileInv
  BY DEF ChatRequest, Saves, States, Answers, PromiseInv, IInv
<1>2. evicted \subseteq evicted' /\ ledger'[p][r] # None
  BY <1>1, SetRecordStep
<1>3. ledger'[p][r].state = "executing"
  <2>1. ledger[p] \in Records /\ ledger'[p] = Put(ledger[p], r, "executing", None)
    BY <1>1, SetRecordStep DEF TypeOK, Records
  <2> QED
    BY <1>1, <1>2, <2>1, PutFields
<1>4. ASSUME NEW x \in Requests, x # r, x \notin evicted'
      PROVE  Forwards(x) /\ \A q \in Dispatchers : FileSays(q, x)'
  <2>1. /\ Agree(ledger'[p][x], ledger[p][x])
        /\ file'[x] = file[x] \/ Agree(file'[x], ledger[p][x])
    BY <1>1, <1>4, OthersAgree
  <2> QED
    BY <1>2, <1>4, <2>1, OthersForwards
<1>5. \A q \in Dispatchers : FileSays(q, r)'
  BY <1>1, <1>2 DEF FileSays, OneDispatcher
<1>6. FileInv'
  BY <1>4, <1>5 DEF FileInv
<1>7. PollFileInv'
  <2> SUFFICES ASSUME NEW k \in Polls, polls[k] # None
               PROVE  polls[k].of \in evicted' \/ file'[polls[k].of] # None
    BY <1>1 DEF PollFileInv
  <2>1. polls[k].of \in Requests
    BY <1>1 DEF TypeOK, Poll
  <2> QED
    BY <1>1, <1>2, <1>4, <2>1 DEF PollFileInv, PromiseInv, Forwards
<1>8. \A x \in Requests : /\ starts[x] \in Nat
                         /\ starts'[x] = IF x = r THEN starts[x] + 1 ELSE starts[x]
  BY <1>1 DEF ChatRequest, TypeOK
<1>9. Promise!Execute(r) \/ Promise!ExecuteAgain(r)
  <2>1. CASE r \in evicted
    <3>1. Phase(r) = "forgotten" /\ Phase(r)' = "forgotten"
      BY <1>2, <2>1 DEF Phase
    <3> QED
      BY <1>8, <3>1 DEF Promise!ExecuteAgain, Promise!Moves
  <2>2. CASE r \notin evicted
    <3>1. ledger[p][r] = None
      BY DEF ChatRequest, Arrives, IsNew
    <3>2. file[r] = None /\ starts[r] = 0
      BY <1>1, <1>8, <2>2, <3>1 DEF FileInv, FileSays, OnceInv
    <3>3. r \notin evicted'
      BY <1>2, <2>2, <3>1 DEF ChatRequest, SetRecord
    <3>4. Phase(r) = "new" /\ Phase(r)' = "running"
      BY <1>1, <1>3, <1>8, <2>2, <3>2, <3>3 DEF Phase, IsSettled
    <3> QED
      BY <1>8, <3>4 DEF Promise!Execute, Promise!Moves
  <2> QED
    BY <2>1, <2>2
<1>10. ASSUME NEW x \in Requests, x # r
       PROVE  Promise!Accept(x) \/ Promise!Settle(x) \/ Promise!Forget(x) \/ Promise!Stay(x)
  BY <1>1, <1>2, <1>4, <1>8, <1>10, ForwardsIsPromised
<1> QED
  BY <1>6, <1>7, <1>9, <1>10 DEF Promise!Next

\* A step that sets the record of r and executes nothing.
LEMMA SetRecordIsPromised ==
  ASSUME PromiseInv, OneDispatcher, NEW p \in Dispatchers, NEW r \in Requests,
         NEW state \in States, NEW answer \in Answers, SetRecord(p, r, state, answer),
         file' = file \/ file' = Put(ledger[p], r, "delivered", None) \/ file' = ledger'[p],
         r \notin evicted' => Forwards(r) /\ FileSays(p, r)',
         UNCHANGED starts,
         \A k \in Polls : polls'[k] # None => polls[k] # None /\ polls'[k].of = polls[k].of
  PROVE  FileInv' /\ PollFileInv' /\ Promise!Next
<1>1. IInv /\ TypeOK
  BY DEF PromiseInv, IInv
<1>2. evicted \subseteq evicted'
  BY <1>1, SetRecordStep
<1>3. ASSUME NEW x \in Requests \ evicted'
      PROVE  Forwards(x) /\ \A q \in Dispatchers : FileSays(q, x)'
  <2>1. CASE x = r
    BY <2>1 DEF OneDispatcher
  <2>2. CASE x # r
    <3>1. /\ Agree(ledger'[p][x], ledger[p][x])
          /\ file'[x] = file[x] \/ Agree(file'[x], ledger[p][x])
      BY <1>1, <2>2, OthersAgree
    <3> QED
      BY <1>2, <3>1, OthersForwards
  <2> QED
    BY <2>1, <2>2
<1> QED
  BY <1>2, <1>3, AllForwards

\* The record of r becomes one that says that r is settled.
LEMMA SettlingIsPromised ==
  ASSUME PromiseInv, OneDispatcher, NEW p \in Dispatchers, NEW r \in Requests,
         NEW state \in {"completed", "failed"}, NEW answer \in Answers,
         SetRecord(p, r, state, answer), file' = file \/ file' = ledger'[p],
         r \notin evicted => file[r] # None,
         UNCHANGED starts,
         \A k \in Polls : polls'[k] # None => polls'[k] = polls[k]
  PROVE  FileInv' /\ PollFileInv' /\ Promise!Next
<1>1. TypeOK /\ ledger[p] \in Records /\ state \in States
  BY DEF PromiseInv, IInv, TypeOK, Records, States
<1>2. /\ evicted \subseteq evicted' /\ ledger'[p][r] # None
      /\ ledger'[p] = Put(ledger[p], r, state, answer)
  BY <1>1, SetRecordStep
<1>3. IsSettled(ledger'[p][r])
  BY <1>1, <1>2, PutFields DEF IsSettled
<1>4. ASSUME r \notin evicted' PROVE Forwards(r) /\ FileSays(p, r)'
  <2>1. file[r] # None /\ file'[r] # None
    BY <1>2, <1>4
  <2>2. IsSettled(file[r]) => IsSettled(file'[r])
    BY <1>3
  <2> QED
    BY <1>2, <1>3, <2>1, <2>2 DEF Forwards, FileSays, IsSettled
<1> QED
  BY <1>1, <1>4, SetRecordIsPromised

LEMMA ChatRequestThrowsIsPromised ==
  ASSUME PromiseInv, OneDispatcher, NEW p \in Dispatchers, NEW r \in Requests,
         ChatRequestThrows(p, r)
  PROVE  FileInv' /\ PollFileInv' /\ Promise!Next
<1>1. PICK state \in {"delivered", "executing"} :
        /\ SetRecord(p, r, state, None)
        /\ \/ state = "delivered" /\ file' = file
           \/ file' = Put(ledger[p], r, "delivered", None)
  BY DEF ChatRequestThrows
<1>2. /\ TypeOK /\ ledger[p] \in Records /\ state \in States
      /\ None \in Answers /\ "delivered" \in States
  BY DEF PromiseInv, IInv, TypeOK, Records, States, Answers
<1>3. /\ evicted \subseteq evicted' /\ ledger'[p][r] # None
      /\ ledger'[p] = Put(ledger[p], r, state, None)
  BY <1>1, <1>2, SetRecordStep
<1>4. ledger'[p][r].state = state
  BY <1>2, <1>3, PutFields
<1>5. /\ Put(ledger[p], r, "delivered", None)[r] # None
      /\ Put(ledger[p], r, "delivered", None)[r].state = "delivered"
  BY <1>2, PutIsRecords, PutFields
<1>6. ASSUME r \notin evicted' PROVE Forwards(r) /\ FileSays(p, r)'
  <2>1. file[r] = None
    BY <1>3, <1>6 DEF ChatRequestThrows, Arrives, IsNew, PromiseInv, FileInv, FileSays
  <2>2. file'[r] # None => file'[r].state = "delivered"
    BY <1>1, <1>5, <2>1
  <2>3. state # "delivered" => file'[r] # None
    BY <1>1, <1>5
  <2> QED
    BY <1>3, <1>4, <2>1, <2>2, <2>3 DEF Forwards, FileSays, IsSettled
<1>7. SetRecord(p, r, state, None) /\ UNCHANGED <<starts, polls>>
  BY <1>1 DEF ChatRequestThrows
<1> QED
  BY <1>1, <1>2, <1>6, <1>7, SetRecordIsPromised

LEMMA SettleIsPromised ==
  ASSUME PromiseInv, OneDispatcher, NEW p \in Dispatchers, NEW r \in Requests, Settle(p, r)
  PROVE  FileInv' /\ PollFileInv' /\ Promise!Next
<1>1. PICK state \in {"completed", "failed"}, answer \in Answers :
        SetRecord(p, r, state, answer)
  BY DEF Settle, Answers, Answer
<1>2. (file' = file \/ file' = ledger'[p]) /\ UNCHANGED <<starts, polls>>
  BY DEF Settle, Saves, SaveThrows
<1>3. starts[r] > 0
  BY DEF Settle, PromiseInv, IInv, TypeOK, CallInv
<1>4. r \notin evicted => file[r] # None
  BY <1>3 DEF PromiseInv, OnceInv
<1> QED
  BY <1>1, <1>2, <1>4, SettlingIsPromised

LEMMA RecoveredIsPromised ==
  ASSUME PromiseInv, OneDispatcher, NEW k \in Polls, Recovered(k)
  PROVE  FileInv' /\ PollFileInv' /\ Promise!Next
<1>1. polls[k] \in Poll
  BY DEF Recovered, PromiseInv, IInv, TypeOK
<1>2. PICK p \in Dispatchers, r \in Requests, answer \in Answers :
        p = polls[k].at /\ r = polls[k].of /\ answer = polls[k].answer
  BY <1>1 DEF Poll, Answers
<1>3. SetRecord(p, r, "completed", answer) /\ (Saves(p) \/ SaveThrows)
  BY <1>2 DEF Recovered
<1>4. file' = file \/ file' = ledger'[p]
  BY <1>3 DEF Saves, SaveThrows
<1>5. r \notin evicted => file[r] # None
  BY <1>2 DEF Recovered, PromiseInv, PollFileInv
<1>6. UNCHANGED starts /\ \A j \in Polls : polls'[j] # None => polls'[j] = polls[j]
  BY DEF Recovered, PromiseInv, IInv, TypeOK
<1> QED
  BY <1>3, <1>4, <1>5, <1>6, SettlingIsPromised

\* After a restart the ledger is what the file is.
LEMMA RestartIsPromised ==
  ASSUME PromiseInv, NEW records, RestartWith(records), evicted \subseteq evicted',
         \A x \in Requests \ evicted' :
           /\ file[x] # None => records[x] # None
           /\ IsSettled(file[x]) => IsSettled(records[x])
           /\ file[x] = None => ~IsSettled(records[x])
  PROVE  FileInv' /\ PollFileInv' /\ Promise!Next
<1>1. /\ file' = records /\ UNCHANGED starts
      /\ \A q \in Dispatchers : ledger'[q] = records
      /\ \A k \in Polls : polls'[k] = None
  BY DEF RestartWith, Load
<1>2. \A x \in Requests \ evicted' :
        Forwards(x) /\ \A q \in Dispatchers : FileSays(q, x)'
  BY <1>1 DEF Forwards, FileSays
<1> QED
  BY <1>1, <1>2, AllForwards

LEMMA CrashInChatRequestIsPromised ==
  ASSUME PromiseInv, NEW p \in Dispatchers, NEW r \in Requests, CrashInChatRequest(p, r)
  PROVE  FileInv' /\ PollFileInv' /\ Promise!Next
<1>1. PICK records : records = Put(ledger[p], r, "delivered", None)
  OBVIOUS
<1>2. /\ RestartWith(records)
      /\ evicted' = evicted \cup {x \in Requests : ledger[p][x] # None /\ records[x] = None}
      /\ ledger[p][r] = None
  BY <1>1 DEF CrashInChatRequest, Arrives, IsNew
<1>3. /\ ledger[p] \in Records /\ "delivered" \in States /\ None \in Answers
      /\ \A x \in Requests \ evicted : FileSays(p, x)
  BY DEF PromiseInv, IInv, TypeOK, Records, States, Answers, FileInv
<1>4. ASSUME NEW x \in Requests \ evicted'
      PROVE  /\ file[x] # None => records[x] # None
             /\ IsSettled(file[x]) => IsSettled(records[x])
             /\ file[x] = None => ~IsSettled(records[x])
  <2>1. x \notin evicted /\ FileSays(p, x)
    BY <1>2, <1>3
  <2>2. CASE x = r
    <3>1. file[x] = None
      BY <1>2, <2>1, <2>2 DEF FileSays
    <3>2. records[x] # None /\ records[x].state = "delivered"
      BY <1>1, <1>3, <2>2, PutIsRecords, PutFields
    <3> QED
      BY <3>1, <3>2 DEF IsSettled
  <2>3. CASE x # r
    <3>1. Agree(records[x], ledger[p][x])
      BY <1>1, <1>2, <1>3, <2>3, PutAgrees
    <3> QED
      BY <2>1, <3>1 DEF Agree, FileSays, IsSettled
  <2> QED
    BY <2>2, <2>3
<1>5. evicted \subseteq evicted'
  BY <1>2
<1> QED
  BY <1>2, <1>4, <1>5, RestartIsPromised

\* A step that leaves the records alone.
LEMMA NothingIsPromised ==
  ASSUME PromiseInv, UNCHANGED <<ledger, file, starts, evicted>>,
         \A k \in Polls : polls'[k] # None =>
           \/ polls[k] # None /\ polls'[k].of = polls[k].of
           \/ polls'[k].of \in evicted \/ file[polls'[k].of] # None
  PROVE  FileInv' /\ PollFileInv' /\ Promise!Next
<1>1. FileInv' /\ PollFileInv'
  BY DEF PromiseInv, FileInv, PollFileInv, FileSays
<1>2. \A x \in Requests : Promise!Stay(x)
  BY DEF Phase, Promise!Stay
<1> QED
  BY <1>1, <1>2 DEF Promise!Next

LEMMA StatusRequestIsPromised ==
  ASSUME PromiseInv, NEW k \in Polls, NEW p \in Dispatchers, NEW r \in Requests,
         StatusRequest(k, p, r)
  PROVE  FileInv' /\ PollFileInv' /\ Promise!Next
<1>1. r \in evicted \/ file[r] # None
  BY DEF StatusRequest, IsInterrupted, PromiseInv, FileInv, FileSays
<1>2. polls' = [polls EXCEPT ![k] = [at |-> p, of |-> r, read |-> FALSE, answer |-> None]]
  BY DEF StatusRequest
<1>3. \A j \in Polls : polls'[j] = polls[j] \/ polls'[j].of = r
  BY <1>2 DEF PromiseInv, IInv, TypeOK
<1> QED
  BY <1>1, <1>3, NothingIsPromised DEF StatusRequest

LEMMA ReadHistoryIsPromised ==
  ASSUME PromiseInv, NEW k \in Polls, ReadHistory(k)
  PROVE  FileInv' /\ PollFileInv' /\ Promise!Next
<1>1. polls[k] \in Poll /\ polls[k] # None
  BY DEF ReadHistory, PromiseInv, IInv, TypeOK
<1>2. \A j \in Polls : polls'[j] # None => polls[j] # None /\ polls'[j].of = polls[j].of
  BY <1>1 DEF ReadHistory, PromiseInv, IInv, TypeOK, Poll
<1> QED
  BY <1>2, NothingIsPromised DEF ReadHistory

LEMMA NextIsPromised ==
  ASSUME OneDispatcher
  PROVE  PromiseInv /\ [Next]_vars => FileInv' /\ PollFileInv' /\ Promise!Next
<1> SUFFICES ASSUME PromiseInv, [Next]_vars PROVE FileInv' /\ PollFileInv' /\ Promise!Next
  OBVIOUS
<1>1. CASE UNCHANGED vars
  BY <1>1, NothingIsPromised DEF vars
<1>2. ASSUME NEW p \in Dispatchers, NEW r \in Requests,
             \/ ChatRequest(p, r) \/ ChatRequestThrows(p, r) \/ CrashInChatRequest(p, r)
             \/ Settle(p, r)
             \/ \E k \in Polls : StatusRequest(k, p, r)
      PROVE  FileInv' /\ PollFileInv' /\ Promise!Next
  BY <1>2, ChatRequestIsPromised, ChatRequestThrowsIsPromised, CrashInChatRequestIsPromised,
     SettleIsPromised, StatusRequestIsPromised
<1>3. ASSUME NEW k \in Polls, ReadHistory(k) \/ Recovered(k) \/ NotRecovered(k)
      PROVE  FileInv' /\ PollFileInv' /\ Promise!Next
  <2>1. CASE NotRecovered(k)
    <3>1. \A j \in Polls : polls'[j] # None => polls'[j] = polls[j]
      BY <2>1 DEF NotRecovered, PromiseInv, IInv, TypeOK
    <3> QED
      BY <2>1, <3>1, NothingIsPromised DEF NotRecovered
  <2> QED
    BY <1>3, <2>1, ReadHistoryIsPromised, RecoveredIsPromised
<1>4. ASSUME (\E r \in Requests : ProviderAnswers(r)) \/ (\E s \in OpenSessions : OtherAnswers(s))
      PROVE  FileInv' /\ PollFileInv' /\ Promise!Next
  BY <1>4, NothingIsPromised DEF ProviderAnswers, OtherAnswers
<1>5. CASE Crash
  BY <1>5, RestartIsPromised DEF Crash, IsSettled
<1> QED
  BY <1>1, <1>2, <1>3, <1>4, <1>5 DEF Next

\* One dispatcher implements what the node promises: through crashes, failed
\* saves, duplicates and recoveries, what the file says of a request only moves
\* from accepted over running to settled, and the request is executed once,
\* until the ledger has no room for it.
THEOREM OneDispatcherKeepsPromise == ASSUME OneDispatcher PROVE Spec => KeepsPromise
<1>1. Init => PromiseInv /\ Promise!Init
  <2>1. Init => FileInv /\ PollFileInv
    BY DEF Init, FileInv, FileSays, PollFileInv, IsSettled
  <2>2. Init => Promise!Init
    BY DEF Init, Promise!Init, Phase, IsSettled
  <2> QED
    BY <2>1, <2>2, InitIInv DEF PromiseInv
<1>2. PromiseInv /\ [Next]_vars => PromiseInv' /\ Promise!Next
  BY NextIInv, NextOnceInv, NextIsPromised DEF PromiseInv
<1> QED
  BY <1>1, <1>2, PTL DEF Spec, KeepsPromise, Promise!Spec

=============================================================================
