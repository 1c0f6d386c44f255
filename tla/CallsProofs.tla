----------------------------- MODULE CallsProofs -----------------------------
(***************************************************************************)
(* For any writes, keys, workers and number of crashes: the logs agree     *)
(* with the effects, every key has one effect and one answer, and Calls    *)
(* implements EffectOnce.                                                  *)
(***************************************************************************)
EXTENDS CallsProperties, TLAPS

Intent(c) == <<c.principal, c.scope, c.op>>

\* What the tables T say about one another, in every committed state.
Sound(T) ==
  /\ \A e, f \in T.effects : e.id = f.id => e = f
  /\ \A e, f \in T.effects : Intent(e.by) = Intent(f.by) => e = f
  /\ \A e, f \in T.effects :
       e.by.principal = f.by.principal /\ e.by.key = f.by.key /\ e.by.key # NoKey
       => e = f
  /\ \A x \in T.operations : \E e \in T.effects : x = OperationRow(e.by, e.id)
  /\ \A x \in T.receipts : \E e \in T.effects :
       /\ x.result = e.id /\ x.principal = e.by.principal
       /\ x.scope = e.by.scope /\ x.digest = Digest(e.by)
  /\ \A x, y \in T.receipts : x.principal = y.principal /\ x.key = y.key => x = y

Complete(T) ==
  \A e \in T.effects :
    /\ OperationRow(e.by, e.id) \in T.operations
    /\ e.by.key # NoKey => ReceiptRow(e.by, e.id) \in T.receipts

Did(T, c, id) ==
  \E e \in T.effects :
    e.id = id /\ e.by.principal = c.principal /\ Digest(e.by) = Digest(c)

Fresh(T, c, id) == \A e \in T.effects : e.id # id /\ Intent(e.by) # Intent(c)

Receipted(T, c, id) == \E x \in Receipts(T, c) : x.result = id

\* How far the open transaction of worker w has come.
Performed(w) ==
  LET c == job[w].request
      id == job[w].answer
  IN Fresh(tables, c, id) /\ staged = WithEffect(tables, c, id)

Logged(w) ==
  LET c == job[w].request
      id == job[w].answer
  IN \/ /\ Fresh(tables, c, id)
        /\ staged = WithOperation(WithEffect(tables, c, id), c, id)
     \/ Did(tables, c, id) /\ staged = tables

Ready(w) ==
  LET c == job[w].request
      id == job[w].answer
  IN \/ Did(tables, c, id) /\ Receipted(tables, c, id) /\ staged = tables
     \/ /\ Receipt(tables, c) = {}
        /\ Fresh(tables, c, id)
        /\ staged = WithReceipt(WithOperation(WithEffect(tables, c, id), c, id), c, id)
     \/ /\ Receipt(tables, c) = {}
        /\ Did(tables, c, id)
        /\ staged = WithReceipt(tables, c, id)

Running(w) == job[w].state \in {"open", "written", "logged", "ready"}

MutexInv ==
  /\ \A w \in Workers : Running(w) <=> holder = w
  /\ holder = Nobody => staged = tables

InTransaction(w) == job[w].state \in {"written", "logged", "ready"}

Progress(w) ==
  /\ job[w].state = "open" => staged = tables
  /\ InTransaction(w) => Permitted(w)
  /\ job[w].state = "written" => Receipt(tables, job[w].request) = {} /\ Performed(w)
  /\ job[w].state = "logged" => Receipt(tables, job[w].request) = {} /\ Logged(w)
  /\ job[w].state = "ready" => Ready(w)

ProgressInv == \A w \in Workers : Progress(w)

\* What is answered is in the tables, and its scope was granted.
Backed(r, scopes, id) ==
  /\ r \in Writes =>
       /\ r.scope \in scopes /\ Did(tables, r, id)
       /\ r.key # NoKey => Receipted(tables, r, id)
  /\ r \in Queries =>
       \E x \in Receipts(tables, r) : x.result = id /\ x.scope \in scopes

AnswerInv ==
  \A w \in Workers : job[w].state = "answered" /\ job[w].answer \in Ids =>
    Backed(job[w].request, job[w].scopes, job[w].answer)

ToldInv ==
  \A t \in told : t.answer \in Ids /\ t.request.key # NoKey =>
    Receipted(tables, t.request, t.answer)

\* Only a lookup can answer not_found.
Conclusive(r, answer) ==
  answer # "none" /\ (r \in Writes => answer \in Ids \cup {"error"})

JobInv ==
  /\ job \in [Workers -> Job]
  /\ \A w \in Workers :
       /\ job[w].state # "idle" => job[w].request \in Requests
       /\ InTransaction(w) => job[w].request \in Writes /\ job[w].answer \in Ids
       /\ job[w].state = "answered" => Conclusive(job[w].request, job[w].answer)

TypeInv == TypeOK /\ JobInv

IInv == /\ TypeInv /\ Sound(tables) /\ Complete(tables)
        /\ MutexInv /\ ProgressInv /\ AnswerInv /\ ToldInv

-----------------------------------------------------------------------------
(* Type correctness.                                                       *)

LEMMA EnterType ==
  ASSUME JobInv, NEW w \in Workers, NEW state \in JobStates, NEW answer \in Answers,
         job[w].state # "idle", Enter(w, state, answer),
         state \in {"written", "logged", "ready"} =>
           job[w].request \in Writes /\ answer \in Ids,
         state = "answered" => Conclusive(job[w].request, answer)
  PROVE  JobInv'
<1>1. job[w] \in Job
  BY DEF JobInv
<1>2. [job[w] EXCEPT !.state = state, !.answer = answer] \in Job
  BY <1>1 DEF Job
<1> QED BY <1>1, <1>2 DEF JobInv, Enter, InTransaction, Job

LEMMA FinishType ==
  ASSUME TypeInv, NEW w \in Workers, NEW T \in Tables, NEW answer \in Answers,
         job[w].state # "idle", Finish(w, T, answer),
         Conclusive(job[w].request, answer)
  PROVE  TypeInv'
<1>1. JobInv'
  BY EnterType DEF Finish, JobStates, TypeInv
<1> QED BY <1>1 DEF TypeInv, TypeOK, JobInv, Finish

LEMMA WithType ==
  ASSUME NEW T \in Tables, NEW c \in Writes, NEW id \in Ids
  PROVE  /\ WithEffect(T, c, id) \in Tables
         /\ WithOperation(T, c, id) \in Tables
         /\ WithReceipt(T, c, id) \in Tables
<1>1. [id |-> id, by |-> c] \in Effect
  BY DEF Effect
<1>2. WithEffect(T, c, id) \in Tables
  BY <1>1 DEF WithEffect, Tables
<1>3. WithOperation(T, c, id) \in Tables
  BY DEF WithOperation, Tables
<1>4. WithReceipt(T, c, id) \in Tables
  BY DEF WithReceipt, Tables
<1> QED BY <1>2, <1>3, <1>4

LEMMA RowType ==
  ASSUME NEW T \in Tables
  PROVE  /\ \A x \in T.operations : x.result \in Ids
         /\ \A x \in T.receipts : x.result \in Ids /\ x.key # NoKey
  BY DEF Tables, OperationRow, ReceiptRow

LEMMA OutcomeType ==
  ASSUME NEW T \in Tables, NEW q, NEW scopes
  PROVE  Outcome(T, q, scopes) \in Ids \cup {"not_found", "error"}
<1>1. CASE Receipts(T, q) = {}
  BY <1>1 DEF Outcome
<1>2. CASE Receipts(T, q) # {}
  <2>1. (CHOOSE x \in Receipts(T, q) : TRUE) \in T.receipts
    BY <1>2 DEF Receipts
  <2> QED BY <1>2, <2>1, RowType DEF Outcome
<1> QED BY <1>1, <1>2

LEMMA WorkType ==
  ASSUME TypeInv, NEW w \in Workers, Work(w)
  PROVE  TypeInv'
<1>0. /\ tables \in Tables /\ staged \in Tables /\ job[w] \in Job /\ JobInv
      /\ {"error", "none"} \subseteq Answers /\ Ids \subseteq Answers
  BY DEF TypeInv, TypeOK, Answers
<1>1. CASE Lock(w)
  <2>1. JobInv'
    BY <1>0, <1>1, EnterType DEF Lock, JobStates, Writing
  <2> QED BY <1>1, <2>1 DEF TypeInv, TypeOK, JobInv, Lock
<1>2. CASE Deny(w) \/ Conflict(w) \/ Fail(w)
  BY <1>0, <1>2, FinishType DEF Deny, Conflict, Fail, Writing, Conclusive
<1>3. CASE Recall(w)
  <2>1. PICK x \in staged.receipts : Enter(w, "ready", x.result)
    BY <1>3 DEF Recall, Receipt, Receipts
  <2>2. x.result \in Ids /\ job[w].request \in Writes /\ job[w].state # "idle"
    BY <1>0, <1>3, RowType DEF Recall, Writing
  <2>3. JobInv'
    BY <1>0, <2>1, <2>2, EnterType DEF JobStates
  <2> QED BY <1>3, <2>3 DEF TypeInv, TypeOK, JobInv, Recall
<1>4. CASE Repeat(w)
  <2>1. PICK x \in staged.operations : Enter(w, "logged", x.result)
    BY <1>4 DEF Repeat, Operations
  <2>2. x.result \in Ids /\ job[w].request \in Writes /\ job[w].state # "idle"
    BY <1>0, <1>4, RowType DEF Repeat, Writing
  <2>3. JobInv'
    BY <1>0, <2>1, <2>2, EnterType DEF JobStates
  <2> QED BY <1>4, <2>3 DEF TypeInv, TypeOK, JobInv, Repeat
<1>5. CASE Perform(w)
  <2>1. job[w].request \in Writes /\ job[w].state # "idle"
    BY <1>5 DEF Perform, Writing
  <2>2. PICK id \in Ids : /\ staged' = WithEffect(staged, job[w].request, id)
                          /\ Enter(w, "written", id)
    BY <1>5 DEF Perform
  <2>3. JobInv'
    BY <1>0, <2>1, <2>2, EnterType DEF JobStates
  <2>4. staged' \in Tables
    BY <1>0, <2>1, <2>2, WithType
  <2> QED BY <1>5, <2>3, <2>4 DEF TypeInv, TypeOK, JobInv, Perform
<1>6. CASE LogOperation(w)
  <2>1. /\ job[w].request \in Writes /\ job[w].answer \in Ids
        /\ job[w].state # "idle"
    BY <1>0, <1>6 DEF LogOperation, Writing, JobInv, InTransaction
  <2>2. JobInv'
    BY <1>0, <1>6, <2>1, EnterType DEF LogOperation, JobStates
  <2>3. staged' \in Tables
    BY <1>0, <1>6, <2>1, WithType DEF LogOperation
  <2> QED BY <1>6, <2>2, <2>3 DEF TypeInv, TypeOK, JobInv, LogOperation
<1>7. CASE LogReceipt(w)
  <2>1. /\ job[w].request \in Writes /\ job[w].answer \in Ids
        /\ job[w].state # "idle"
    BY <1>0, <1>7 DEF LogReceipt, Writing, JobInv, InTransaction
  <2>2. JobInv'
    BY <1>0, <1>7, <2>1, EnterType DEF LogReceipt, JobStates
  <2>3. staged' \in Tables
    BY <1>0, <1>7, <2>1, WithType DEF LogReceipt
  <2> QED BY <1>7, <2>2, <2>3 DEF TypeInv, TypeOK, JobInv, LogReceipt
<1>8. CASE Commit(w)
  BY <1>0, <1>8, FinishType, CallsAssumption
  DEF Commit, Writing, Job, JobInv, InTransaction, Conclusive
<1>9. CASE Look(w)
  <2>1. Outcome(staged, job[w].request, job[w].scopes) \in Ids \cup {"not_found", "error"}
    BY <1>0, OutcomeType
  <2>2. JobInv'
    BY <1>0, <1>9, <2>1, EnterType, CallsAssumption
    DEF Look, JobStates, Conclusive, Answers
  <2> QED BY <1>9, <2>2 DEF TypeInv, TypeOK, JobInv, Look
<1>10. CASE Deliver(w) \/ Lose(w)
  <2>1. Idle \in Job /\ Idle.state = "idle"
    BY DEF Idle, Job, JobStates, Answers
  <2>2. JobInv'
    BY <1>0, <1>10, <2>1 DEF Deliver, Lose, JobInv, InTransaction
  <2>3. told' \subseteq [request : Requests, answer : Answers]
    <3>1. job[w].request \in Requests /\ job[w].answer \in Answers
      BY <1>0, <1>10 DEF Deliver, Lose, JobInv, Job
    <3> QED BY <1>10, <3>1 DEF Deliver, Lose, TypeInv, TypeOK
  <2> QED BY <1>10, <2>2, <2>3 DEF TypeInv, TypeOK, JobInv, Deliver, Lose
<1> QED
  BY <1>1, <1>2, <1>3, <1>4, <1>5, <1>6, <1>7, <1>8, <1>9, <1>10 DEF Work

LEMMA NextType == TypeInv /\ [Next]_vars => TypeInv'
<1> SUFFICES ASSUME TypeInv, [Next]_vars PROVE TypeInv'
  OBVIOUS
<1>0. Idle \in Job /\ Idle.state = "idle"
  BY DEF Idle, Job, JobStates, Answers
<1>1. CASE \E w \in Workers : Work(w)
  BY <1>1, WorkType
<1>2. ASSUME NEW w \in Workers, NEW r \in Requests, Arrive(w, r)
      PROVE  TypeInv'
  <2>1. r.principal \in Principals
    BY CallsAssumption DEF Requests
  <2>2. [state |-> "queued", request |-> r, scopes |-> grants[r.principal],
         answer |-> "none"] \in Job
    BY <2>1 DEF TypeInv, TypeOK, Job, JobStates, Answers
  <2>3. JobInv'
    BY <1>2, <2>2 DEF Arrive, TypeInv, JobInv, InTransaction
  <2>4. sends' \in 0..MaxSends
    BY <1>2, CallsAssumption DEF Arrive, TypeInv, TypeOK
  <2> QED BY <1>2, <2>3, <2>4 DEF TypeInv, TypeOK, JobInv, Arrive
<1>3. CASE Crash
  <2>1. JobInv'
    BY <1>0, <1>3 DEF Crash, JobInv, InTransaction
  <2>2. crashes' \in 0..MaxCrashes
    BY <1>3, CallsAssumption DEF Crash, TypeInv, TypeOK
  <2> QED BY <1>3, <2>1, <2>2 DEF TypeInv, TypeOK, JobInv, Crash
<1>4. ASSUME NEW g \in GrantChoices, Reconfigure(g)
      PROVE  TypeInv'
  BY <1>4, CallsAssumption DEF Reconfigure, TypeInv, TypeOK, JobInv, InTransaction
<1>5. CASE UNCHANGED vars
  BY <1>5 DEF vars, TypeInv, TypeOK, JobInv, InTransaction
<1> QED BY <1>1, <1>2, <1>3, <1>4, <1>5 DEF Next

LEMMA InitType == Init => TypeInv
<1> SUFFICES ASSUME Init PROVE TypeInv
  OBVIOUS
<1>1. EmptyTables \in Tables
  BY DEF EmptyTables, Tables
<1>2. Idle \in Job /\ Idle.state = "idle"
  BY DEF Idle, Job, JobStates, Answers
<1> QED
  BY <1>1, <1>2, CallsAssumption DEF Init, TypeInv, TypeOK, JobInv, InTransaction

\* The tables and the jobs of the workers keep their shapes.
THEOREM CallsTypeCorrect == Spec => []TypeOK
<1>1. TypeInv => TypeOK
  BY DEF TypeInv
<1> QED BY <1>1, InitType, NextType, PTL DEF Spec

-----------------------------------------------------------------------------
(* What a transaction does to the tables.                                  *)

\* Looking up the two logs of complete tables finds every effect.
LEMMA LookupFinds ==
  ASSUME NEW T \in Tables, Sound(T), Complete(T), NEW c \in Writes,
         Receipt(T, c) = {}
  PROVE  /\ Operations(T, c) = {} => \A e \in T.effects : Intent(e.by) # Intent(c)
         /\ \A e \in T.effects : e.by.principal = c.principal /\ c.key # NoKey
                                   => e.by.key # c.key
<1>1. ASSUME NEW e \in T.effects, Operations(T, c) = {}, Intent(e.by) = Intent(c)
      PROVE  FALSE
  <2>1. OperationRow(e.by, e.id) \in Operations(T, c)
    BY <1>1 DEF Complete, Operations, OperationRow, Intent
  <2> QED BY <1>1, <2>1
<1>2. ASSUME NEW e \in T.effects, e.by.principal = c.principal, c.key # NoKey,
             e.by.key = c.key
      PROVE  FALSE
  <2>1. ReceiptRow(e.by, e.id) \in Receipts(T, c)
    BY <1>2 DEF Complete, Receipts, ReceiptRow
  <2> QED BY <1>2, <2>1 DEF Receipt
<1> QED BY <1>1, <1>2

\* Effect, operation and receipt of a new call, all in one commit.
LEMMA NewCall ==
  ASSUME NEW T \in Tables, Sound(T), Complete(T), NEW c \in Writes, NEW id \in Ids,
         Fresh(T, c, id), Receipt(T, c) = {},
         NEW U, U = WithReceipt(WithOperation(WithEffect(T, c, id), c, id), c, id)
  PROVE  Sound(U) /\ Complete(U) /\ Did(U, c, id)
         /\ (c.key # NoKey => Receipted(U, c, id))
<1> DEFINE new == [id |-> id, by |-> c]
<1>1. /\ U.effects = T.effects \cup {new}
      /\ U.operations = T.operations \cup {OperationRow(c, id)}
      /\ U.receipts = IF c.key = NoKey THEN T.receipts
                      ELSE T.receipts \cup {ReceiptRow(c, id)}
  BY DEF WithReceipt, WithOperation, WithEffect
<1>2. new.id = id /\ new.by = c
  OBVIOUS
<1>3. ASSUME NEW e \in T.effects
      PROVE  /\ e.id # id /\ Intent(e.by) # Intent(c)
             /\ ~ (e.by.principal = c.principal /\ e.by.key = c.key /\ c.key # NoKey)
  BY LookupFinds DEF Fresh
<1>4. /\ ReceiptRow(c, id).principal = c.principal /\ ReceiptRow(c, id).key = c.key
      /\ ReceiptRow(c, id).scope = c.scope /\ ReceiptRow(c, id).digest = Digest(c)
      /\ ReceiptRow(c, id).result = id
  BY DEF ReceiptRow
<1>5. ASSUME NEW x \in T.receipts, c.key # NoKey
      PROVE  ~ (x.principal = c.principal /\ x.key = c.key)
  BY <1>5 DEF Receipt, Receipts
<1> HIDE DEF new
<1>6. Sound(U)
  <2>1. \A e, f \in U.effects : e.id = f.id => e = f
    BY <1>1, <1>2, <1>3 DEF Sound
  <2>2. \A e, f \in U.effects : Intent(e.by) = Intent(f.by) => e = f
    BY <1>1, <1>2, <1>3 DEF Sound
  <2>3. \A e, f \in U.effects :
          e.by.principal = f.by.principal /\ e.by.key = f.by.key /\ e.by.key # NoKey
          => e = f
    BY <1>1, <1>2, <1>3 DEF Sound
  <2>4. \A x \in U.operations : \E e \in U.effects : x = OperationRow(e.by, e.id)
    BY <1>1, <1>2 DEF Sound
  <2>5. \A x \in U.receipts : \E e \in U.effects :
          /\ x.result = e.id /\ x.principal = e.by.principal
          /\ x.scope = e.by.scope /\ x.digest = Digest(e.by)
    BY <1>1, <1>2, <1>4 DEF Sound
  <2>6. \A x, y \in U.receipts : x.principal = y.principal /\ x.key = y.key => x = y
    BY <1>1, <1>4, <1>5 DEF Sound
  <2> QED BY <2>1, <2>2, <2>3, <2>4, <2>5, <2>6 DEF Sound
<1>7. Complete(U)
  BY <1>1, <1>2 DEF Complete
<1>8. Did(U, c, id)
  BY <1>1, <1>2 DEF Did
<1>9. c.key # NoKey => Receipted(U, c, id)
  BY <1>1, <1>4 DEF Receipted, Receipts
<1> QED BY <1>6, <1>7, <1>8, <1>9

\* The receipt of a repeated call.
LEMMA RepeatedCall ==
  ASSUME NEW T \in Tables, Sound(T), Complete(T), NEW c \in Writes, NEW id \in Ids,
         Did(T, c, id), Receipt(T, c) = {}, NEW U, U = WithReceipt(T, c, id)
  PROVE  Sound(U) /\ Complete(U) /\ Did(U, c, id)
         /\ (c.key # NoKey => Receipted(U, c, id))
<1>1. /\ U.effects = T.effects /\ U.operations = T.operations
      /\ U.receipts = IF c.key = NoKey THEN T.receipts
                      ELSE T.receipts \cup {ReceiptRow(c, id)}
  BY DEF WithReceipt
<1>2. /\ ReceiptRow(c, id).principal = c.principal /\ ReceiptRow(c, id).key = c.key
      /\ ReceiptRow(c, id).scope = c.scope /\ ReceiptRow(c, id).digest = Digest(c)
      /\ ReceiptRow(c, id).result = id
  BY DEF ReceiptRow
<1>3. ASSUME NEW x \in T.receipts, c.key # NoKey
      PROVE  ~ (x.principal = c.principal /\ x.key = c.key)
  BY <1>3 DEF Receipt, Receipts
<1>4. \A x \in U.receipts : \E e \in U.effects :
        /\ x.result = e.id /\ x.principal = e.by.principal
        /\ x.scope = e.by.scope /\ x.digest = Digest(e.by)
  <2>1. PICK e \in T.effects :
          e.id = id /\ e.by.principal = c.principal /\ Digest(e.by) = Digest(c)
    BY DEF Did
  <2>2. e.by.scope = c.scope
    BY <2>1 DEF Digest
  <2> HIDE DEF Digest
  <2> QED BY <1>1, <1>2, <2>1, <2>2 DEF Sound
<1>5. \A x, y \in U.receipts : x.principal = y.principal /\ x.key = y.key => x = y
  BY <1>1, <1>2, <1>3 DEF Sound
<1>6. Sound(U)
  BY <1>1, <1>4, <1>5 DEF Sound
<1>7. Complete(U)
  BY <1>1 DEF Complete
<1>8. Did(U, c, id)
  BY <1>1 DEF Did
<1>9. c.key # NoKey => Receipted(U, c, id)
  BY <1>1, <1>2 DEF Receipted, Receipts
<1> QED BY <1>6, <1>7, <1>8, <1>9

-----------------------------------------------------------------------------
(* The invariant.                                                          *)

\* One worker at most is inside a transaction.
LEMMA OthersWait ==
  ASSUME MutexInv, NEW w \in Workers, holder \in {w, Nobody},
         NEW v \in Workers, v # w
  PROVE  ~Running(v)
  BY CallsAssumption DEF MutexInv

\* A step of the worker that has, or takes, the store mutex and keeps it.
LEMMA InsideInv ==
  ASSUME IInv, NEW w \in Workers, NEW state \in {"open", "written", "logged", "ready"},
         NEW answer, Enter(w, state, answer), holder \in {w, Nobody}, holder' = w,
         UNCHANGED <<tables, told>>, TypeInv', Progress(w)'
  PROVE  IInv'
<1>1. /\ job'[w].state = state
      /\ \A v \in Workers : v # w => job'[v] = job[v]
  BY DEF Enter, IInv, TypeInv, JobInv, Job
<1>2. \A v \in Workers : v # w => ~Running(v) /\ ~Running(v)'
  BY <1>1, OthersWait DEF IInv, Running
<1>3. MutexInv'
  <2>1. w # Nobody
    BY CallsAssumption
  <2> QED BY <1>1, <1>2, <2>1 DEF MutexInv, Running
<1>4. ProgressInv'
  <2>1. ASSUME NEW v \in Workers, v # w PROVE Progress(v)'
    BY <1>2, <2>1 DEF Progress, Running, InTransaction
  <2> QED BY <2>1 DEF ProgressInv
<1>5. AnswerInv'
  BY <1>1 DEF IInv, AnswerInv, Backed
<1>6. Sound(tables)' /\ Complete(tables)' /\ ToldInv'
  BY DEF IInv, ToldInv, Sound, Complete
<1> QED BY <1>3, <1>4, <1>5, <1>6 DEF IInv

\* A step that leaves the committed tables alone and releases the mutex.
LEMMA ReleaseInv ==
  ASSUME IInv, NEW w \in Workers, NEW answer, Enter(w, "answered", answer),
         Running(w), holder' = Nobody, UNCHANGED <<tables, told>>, staged' = tables,
         TypeInv',
         answer \in Ids => Backed(job[w].request, job[w].scopes, answer)
  PROVE  IInv'
<1>1. /\ job'[w].state = "answered" /\ job'[w].answer = answer
      /\ job'[w].request = job[w].request /\ job'[w].scopes = job[w].scopes
      /\ \A v \in Workers : v # w => job'[v] = job[v]
  BY DEF Enter, IInv, TypeInv, JobInv, Job
<1>2. \A v \in Workers : ~Running(v)'
  <2>1. \A v \in Workers : v # w => ~Running(v)
    BY OthersWait DEF IInv, MutexInv
  <2> QED BY <1>1, <2>1 DEF Running
<1>3. MutexInv'
  BY <1>2, CallsAssumption DEF MutexInv
<1>4. ProgressInv'
  BY <1>2 DEF ProgressInv, Progress, Running, InTransaction
<1>5. AnswerInv'
  BY <1>1 DEF IInv, AnswerInv, Backed
<1>6. Sound(tables)' /\ Complete(tables)' /\ ToldInv'
  BY DEF IInv, ToldInv, Sound, Complete
<1> QED BY <1>3, <1>4, <1>5, <1>6 DEF IInv

\* A commit adds rows and takes none away.
LEMMA Grows ==
  ASSUME IInv, NEW w \in Workers, Commit(w)
  PROVE  /\ tables.effects \subseteq tables'.effects
         /\ tables.receipts \subseteq tables'.receipts
<1>1. Ready(w) /\ tables' = staged
  BY DEF IInv, ProgressInv, Progress, Commit, Writing, Finish
<1> QED
  BY <1>1 DEF Ready, WithEffect, WithOperation, WithReceipt

\* The committed tables stay sound and have what the call is answered.
LEMMA CommitSound ==
  ASSUME IInv, NEW w \in Workers, Commit(w)
  PROVE  /\ Sound(tables)' /\ Complete(tables)'
         /\ Backed(job[w].request, job[w].scopes, job[w].answer)'
<1> DEFINE c == job[w].request
           id == job[w].answer
<1>1. c \in Writes /\ id \in Ids /\ c.scope \in job[w].scopes /\ c \notin Queries
  BY CallsAssumption DEF IInv, TypeInv, JobInv, ProgressInv, Progress, Permitted,
                         InTransaction, Commit, Writing
<1>2. tables' = staged /\ tables \in Tables /\ Sound(tables) /\ Complete(tables)
  BY DEF Commit, Finish, IInv, TypeInv, TypeOK
<1>3. Ready(w)
  BY DEF IInv, ProgressInv, Progress, Commit, Writing
<1>4. Sound(tables') /\ Complete(tables') /\ Did(tables', c, id)
      /\ (c.key # NoKey => Receipted(tables', c, id))
  BY <1>1, <1>2, <1>3, NewCall, RepeatedCall DEF Ready
<1>5. /\ job'[w].request = c /\ job'[w].answer = id
      /\ job'[w].scopes = job[w].scopes
  BY DEF Commit, Finish, Enter, IInv, TypeInv, JobInv, Job
<1>6. Backed(job[w].request, job[w].scopes, job[w].answer)'
  BY <1>1, <1>4, <1>5 DEF Backed
<1> QED BY <1>2, <1>4, <1>6

LEMMA CommitInv ==
  ASSUME IInv, NEW w \in Workers, Commit(w), TypeInv'
  PROVE  IInv'
<1>1. /\ job'[w].state = "answered"
      /\ \A v \in Workers : v # w => job'[v] = job[v]
      /\ holder' = Nobody /\ staged' = tables' /\ told' = told /\ Running(w)
  BY DEF Commit, Writing, Finish, Enter, IInv, TypeInv, JobInv, Job, Running
<1>2. \A v \in Workers : ~Running(v)'
  <2>1. \A v \in Workers : v # w => ~Running(v)
    BY <1>1, OthersWait DEF IInv, MutexInv
  <2> QED BY <1>1, <2>1 DEF Running
<1>3. MutexInv'
  BY <1>1, <1>2, CallsAssumption DEF MutexInv
<1>4. ProgressInv'
  BY <1>2 DEF ProgressInv, Progress, Running, InTransaction
<1>5. AnswerInv'
  <2>1. ASSUME NEW v \in Workers, v # w, job[v].state = "answered", job[v].answer \in Ids
        PROVE  Backed(job[v].request, job[v].scopes, job[v].answer)'
    <3>1. Backed(job[v].request, job[v].scopes, job[v].answer)
      BY <2>1 DEF IInv, AnswerInv
    <3> QED BY <1>1, <2>1, <3>1, Grows DEF Backed, Did, Receipted, Receipts
  <2> QED BY <1>1, <2>1, CommitSound DEF AnswerInv
<1>6. ToldInv'
  BY <1>1, Grows DEF IInv, ToldInv, Receipted, Receipts
<1> QED BY <1>3, <1>4, <1>5, <1>6, CommitSound DEF IInv

\* The response leaves the worker: what callers have been told is backed.
LEMMA DeliverInv ==
  ASSUME IInv, NEW w \in Workers, Deliver(w) \/ Lose(w), TypeInv'
  PROVE  IInv'
<1>1. /\ job'[w] = Idle /\ Idle.state = "idle" /\ job[w].state = "answered"
      /\ \A v \in Workers : v # w => job'[v] = job[v]
      /\ holder' = holder /\ staged' = staged /\ tables' = tables
  BY DEF Deliver, Lose, IInv, TypeInv, JobInv, Idle
<1>2. \A v \in Workers : Running(v)' <=> Running(v)
  BY <1>1 DEF Running
<1>3. MutexInv'
  BY <1>1, <1>2 DEF IInv, MutexInv
<1>4. ProgressInv'
  <2>1. ASSUME NEW v \in Workers, v # w PROVE Progress(v)'
    <3>1. Progress(v) /\ job'[v] = job[v]
      BY <1>1, <2>1 DEF IInv, ProgressInv
    <3> QED
      BY <1>1, <3>1 DEF Progress, InTransaction, Permitted, Performed, Logged, Ready
  <2>2. Progress(w)'
    BY <1>1 DEF Progress, InTransaction
  <2> QED BY <2>1, <2>2 DEF ProgressInv
<1>5. AnswerInv'
  BY <1>1 DEF IInv, AnswerInv, Backed
<1>6. ToldInv'
  <2>1. CASE told' = told
    BY <1>1, <2>1 DEF IInv, ToldInv
  <2>2. CASE told' = told \cup {[request |-> job[w].request, answer |-> job[w].answer]}
    <3>1. ASSUME job[w].answer \in Ids, job[w].request.key # NoKey
          PROVE  Receipted(tables, job[w].request, job[w].answer)
      <4>1. Backed(job[w].request, job[w].scopes, job[w].answer)
        BY <1>1, <3>1 DEF IInv, AnswerInv
      <4>2. job[w].request \in Writes \cup Queries
        BY <1>1 DEF IInv, TypeInv, JobInv, Requests
      <4> QED BY <3>1, <4>1, <4>2 DEF Backed, Receipted
    <3> QED BY <1>1, <2>2, <3>1 DEF IInv, ToldInv
  <2> QED BY <2>1, <2>2 DEF Deliver, Lose
<1>7. Sound(tables)' /\ Complete(tables)'
  BY <1>1 DEF IInv, Sound, Complete
<1> QED BY <1>3, <1>4, <1>5, <1>6, <1>7 DEF IInv

LEMMA WorkInv ==
  ASSUME IInv, NEW w \in Workers, Work(w)
  PROVE  IInv'
<1>0. TypeInv /\ TypeInv' /\ job[w] \in Job /\ tables \in Tables /\ staged \in Tables
  BY WorkType DEF IInv, TypeInv, JobInv, TypeOK
<1>a. Running(w) => holder = w
  BY DEF IInv, MutexInv
<1>b. ASSUME NEW state, NEW answer, Enter(w, state, answer)
      PROVE  /\ job'[w].state = state /\ job'[w].answer = answer
             /\ job'[w].request = job[w].request /\ job'[w].scopes = job[w].scopes
  BY <1>0, <1>b DEF Enter, TypeInv, JobInv, Job
<1>c. job[w].state = "open" => staged = tables
  BY DEF IInv, ProgressInv, Progress
<1>1. CASE Lock(w)
  <2>1. MutexInv /\ Progress(w)'
    BY <1>1, <1>b DEF Lock, IInv, MutexInv, Progress, InTransaction
  <2> QED BY <1>0, <1>1, <2>1, InsideInv DEF Lock
<1>2. CASE Deny(w) \/ Conflict(w) \/ Fail(w)
  <2>1. Running(w) /\ Finish(w, tables, "error") /\ "error" \notin Ids
    BY <1>2, CallsAssumption DEF Deny, Conflict, Fail, Running, Writing
  <2> QED BY <1>0, <2>1, ReleaseInv DEF Finish
<1>3. CASE Recall(w)
  <2> DEFINE c == job[w].request
  <2>1. /\ holder = w /\ staged = tables /\ c \in Writes /\ Permitted(w)
        /\ UNCHANGED <<tables, staged, holder, told>>
    BY <1>3, <1>a, <1>c DEF Recall, Writing, Running
  <2>2. PICK x \in Receipt(tables, c) :
          x.digest = Digest(c) /\ Enter(w, "ready", x.result)
    BY <1>3, <2>1 DEF Recall
  <2>3. x \in tables.receipts /\ x \in Receipts(tables, c) /\ x.principal = c.principal
    BY <2>2 DEF Receipt, Receipts
  <2>4. Did(tables, c, x.result)
    <3>1. PICK e \in tables.effects : /\ x.result = e.id /\ x.principal = e.by.principal
                                      /\ x.digest = Digest(e.by)
      BY <2>3 DEF IInv, Sound
    <3> QED BY <2>2, <2>3, <3>1 DEF Did
  <2>5. Progress(w)'
    BY <1>b, <2>1, <2>2, <2>3, <2>4
    DEF Progress, InTransaction, Permitted, Ready, Receipted
  <2> QED BY <1>0, <2>1, <2>2, <2>5, InsideInv
<1>4. CASE Repeat(w)
  <2> DEFINE c == job[w].request
  <2>1. /\ holder = w /\ staged = tables /\ c \in Writes /\ Permitted(w)
        /\ Receipt(tables, c) = {} /\ UNCHANGED <<tables, staged, holder, told>>
    BY <1>4, <1>a, <1>c DEF Repeat, Writing, Running
  <2>2. PICK x \in Operations(tables, c) :
          x.digest = Digest(c) /\ Enter(w, "logged", x.result)
    BY <1>4, <2>1 DEF Repeat
  <2>3. x \in tables.operations /\ x.principal = c.principal
    BY <2>2 DEF Operations
  <2>4. Did(tables, c, x.result)
    <3>1. PICK e \in tables.effects : x = OperationRow(e.by, e.id)
      BY <2>3 DEF IInv, Sound
    <3>2. /\ x.result = e.id /\ x.principal = e.by.principal
          /\ x.digest = Digest(e.by)
      BY <3>1 DEF OperationRow
    <3> QED BY <2>2, <2>3, <3>2 DEF Did
  <2>5. Progress(w)'
    BY <1>b, <2>1, <2>2, <2>4 DEF Progress, InTransaction, Permitted, Logged
  <2> QED BY <1>0, <2>1, <2>2, <2>5, InsideInv
<1>5. CASE Perform(w)
  <2> DEFINE c == job[w].request
  <2>1. /\ holder = w /\ staged = tables /\ c \in Writes /\ Permitted(w)
        /\ Receipt(tables, c) = {} /\ Operations(tables, c) = {}
        /\ UNCHANGED <<tables, holder, told>>
    BY <1>5, <1>a, <1>c DEF Perform, Writing, Running
  <2>2. PICK id \in Ids : /\ \A e \in tables.effects : e.id # id
                          /\ staged' = WithEffect(tables, c, id)
                          /\ Enter(w, "written", id)
    BY <1>5, <2>1 DEF Perform
  <2>3. Fresh(tables, c, id)
    BY <1>0, <2>1, <2>2, LookupFinds DEF Fresh, IInv
  <2>4. Progress(w)'
    BY <1>b, <2>1, <2>2, <2>3 DEF Progress, InTransaction, Permitted, Performed
  <2> QED BY <1>0, <2>1, <2>2, <2>4, InsideInv
<1>6. CASE LogOperation(w)
  <2> DEFINE c == job[w].request
             id == job[w].answer
  <2>1. /\ holder = w /\ Permitted(w) /\ Receipt(tables, c) = {} /\ Performed(w)
        /\ UNCHANGED <<tables, holder, told>> /\ Enter(w, "logged", id)
        /\ staged' = WithOperation(staged, c, id)
    BY <1>6, <1>a DEF LogOperation, Writing, Running, IInv, ProgressInv, Progress,
                      InTransaction
  <2>2. Progress(w)'
    BY <1>b, <2>1 DEF Progress, InTransaction, Permitted, Performed, Logged
  <2> QED BY <1>0, <2>1, <2>2, InsideInv
<1>7. CASE LogReceipt(w)
  <2> DEFINE c == job[w].request
             id == job[w].answer
  <2>1. /\ holder = w /\ Permitted(w) /\ Receipt(tables, c) = {} /\ Logged(w)
        /\ UNCHANGED <<tables, holder, told>> /\ Enter(w, "ready", id)
        /\ staged' = WithReceipt(staged, c, id)
    BY <1>7, <1>a DEF LogReceipt, Writing, Running, IInv, ProgressInv, Progress,
                      InTransaction
  <2>2. Progress(w)'
    BY <1>b, <2>1 DEF Progress, InTransaction, Permitted, Logged, Ready
  <2> QED BY <1>0, <2>1, <2>2, InsideInv
<1>8. CASE Commit(w)
  BY <1>0, <1>8, CommitInv
<1>9. CASE Look(w)
  <2> DEFINE q == job[w].request
             answer == Outcome(staged, q, job[w].scopes)
  <2>1. /\ Running(w) /\ staged = tables /\ q \in Queries /\ q \notin Writes
        /\ Enter(w, "answered", answer) /\ holder' = Nobody
        /\ UNCHANGED <<tables, staged, told>>
    BY <1>9, <1>c, CallsAssumption DEF Look, Running
  <2>2. answer \in Ids => Backed(q, job[w].scopes, answer)
    <3>1. ASSUME answer \in Ids
          PROVE  \E x \in Receipts(tables, q) : x.result = answer /\ x.scope \in job[w].scopes
      <4>1. "error" \notin Ids /\ "not_found" \notin Ids
        BY CallsAssumption
      <4> QED BY <2>1, <3>1, <4>1 DEF Outcome
    <3> QED BY <2>1, <3>1 DEF Backed
  <2> HIDE DEF answer
  <2> QED BY <1>0, <2>1, <2>2, ReleaseInv
<1>10. CASE Deliver(w) \/ Lose(w)
  BY <1>0, <1>10, DeliverInv
<1> QED
  BY <1>1, <1>2, <1>3, <1>4, <1>5, <1>6, <1>7, <1>8, <1>9, <1>10 DEF Work

LEMMA NextInv == IInv /\ [Next]_vars => IInv'
<1> SUFFICES ASSUME IInv, [Next]_vars PROVE IInv'
  OBVIOUS
<1>0. TypeInv'
  BY NextType DEF IInv
<1>1. CASE \E w \in Workers : Work(w)
  BY <1>1, WorkInv
<1>2. ASSUME NEW w \in Workers, NEW r \in Requests, Arrive(w, r)
      PROVE  IInv'
  <2>1. /\ job'[w].state = "queued" /\ job[w].state = "idle"
        /\ \A v \in Workers : v # w => job'[v] = job[v]
        /\ UNCHANGED <<tables, staged, holder, told>>
    BY <1>2 DEF Arrive, IInv, TypeInv, JobInv
  <2>2. MutexInv'
    BY <2>1 DEF IInv, MutexInv, Running
  <2>3. ProgressInv'
    <3>1. ASSUME NEW v \in Workers, v # w PROVE Progress(v)'
      <4>1. Progress(v) /\ job'[v] = job[v]
        BY <2>1, <3>1 DEF IInv, ProgressInv
      <4> QED
        BY <2>1, <4>1 DEF Progress, InTransaction, Permitted, Performed, Logged, Ready
    <3>2. Progress(w)'
      BY <2>1 DEF Progress, InTransaction
    <3> QED BY <3>1, <3>2 DEF ProgressInv
  <2>4. AnswerInv' /\ ToldInv' /\ Sound(tables)' /\ Complete(tables)'
    BY <2>1 DEF IInv, AnswerInv, Backed, ToldInv, Sound, Complete
  <2> QED BY <1>0, <2>2, <2>3, <2>4 DEF IInv
<1>3. CASE Crash
  <2>1. /\ \A w \in Workers : job'[w].state = "idle"
        /\ holder' = Nobody /\ staged' = tables /\ UNCHANGED <<tables, told>>
    BY <1>3 DEF Crash, Idle
  <2>2. MutexInv' /\ ProgressInv' /\ AnswerInv'
    BY <2>1, CallsAssumption
    DEF MutexInv, ProgressInv, Progress, AnswerInv, Running, InTransaction
  <2>3. ToldInv' /\ Sound(tables)' /\ Complete(tables)'
    BY <2>1 DEF IInv, ToldInv, Sound, Complete
  <2> QED BY <1>0, <2>2, <2>3 DEF IInv
<1>4. CASE (\E g \in GrantChoices : Reconfigure(g)) \/ UNCHANGED vars
  <2>1. UNCHANGED <<tables, staged, holder, job, told>>
    BY <1>4 DEF Reconfigure, vars
  <2>2. MutexInv' /\ AnswerInv'
    BY <2>1 DEF IInv, MutexInv, AnswerInv, Running, Backed
  <2>3. ProgressInv'
    BY <2>1 DEF IInv, ProgressInv, Progress, InTransaction, Permitted, Performed,
                Logged, Ready
  <2>4. ToldInv' /\ Sound(tables)' /\ Complete(tables)'
    BY <2>1 DEF IInv, ToldInv, Sound, Complete
  <2> QED BY <1>0, <2>2, <2>3, <2>4 DEF IInv
<1> QED BY <1>1, <1>2, <1>3, <1>4 DEF Next

LEMMA InitInv == Init => IInv
<1> SUFFICES ASSUME Init PROVE IInv
  OBVIOUS
<1>1. \A w \in Workers : job[w].state = "idle"
  BY DEF Init, Idle
<1>2. MutexInv /\ ProgressInv /\ AnswerInv /\ ToldInv
  BY <1>1, CallsAssumption
  DEF Init, MutexInv, ProgressInv, Progress, AnswerInv, ToldInv, Running, InTransaction
<1>3. Sound(tables) /\ Complete(tables)
  BY DEF Init, EmptyTables, Sound, Complete
<1> QED BY <1>2, <1>3, InitType DEF IInv

LEMMA Invariant == Spec => []IInv
  BY InitInv, NextInv, PTL DEF Spec

-----------------------------------------------------------------------------
(* What follows for callers.                                               *)

\* One effect per idempotency key and per effect key.
THEOREM OncePerKeyHolds == Spec => []OncePerKey
<1>1. IInv => OncePerKey
  BY DEF IInv, Sound, OncePerKey, Intent
<1> QED BY <1>1, Invariant, PTL

\* Effects, operation rows and receipts agree in every committed state.
THEOREM LogsAgreeHolds == Spec => []LogsAgree
<1>1. IInv => LogsAgree
  BY DEF IInv, Sound, Complete, LogsAgree
<1> QED BY <1>1, Invariant, PTL

\* No transaction is left open when the mutex is free.
THEOREM TransactionClosedHolds == Spec => []TransactionClosed
<1>1. IInv => TransactionClosed
  BY DEF IInv, MutexInv, TransactionClosed
<1> QED BY <1>1, Invariant, PTL

\* One answer per effect key, for everyone and for ever.
THEOREM AnswersAgreeHolds == Spec => []AnswersAgree
<1>1. IInv => AnswersAgree
  <2> SUFFICES ASSUME IInv, NEW t \in told, NEW u \in told,
                      Results(t), Results(u),
                      t.request.principal = u.request.principal,
                      t.request.key = u.request.key, t.request.key # NoKey
               PROVE  t.answer = u.answer
    BY DEF AnswersAgree
  <2>1. PICK x \in Receipts(tables, t.request) : x.result = t.answer
    BY DEF IInv, ToldInv, Receipted, Results
  <2>2. PICK y \in Receipts(tables, u.request) : y.result = u.answer
    BY DEF IInv, ToldInv, Receipted, Results
  <2>3. x \in tables.receipts /\ y \in tables.receipts
        /\ x.principal = y.principal /\ x.key = y.key
    BY DEF Receipts
  <2> QED BY <2>1, <2>2, <2>3 DEF IInv, Sound
<1> QED BY <1>1, Invariant, PTL

\* Results stay within the scopes granted to who asks.
THEOREM DisclosedInScopeHolds == Spec => []DisclosedInScope
<1>1. IInv => DisclosedInScope
  <2> SUFFICES ASSUME IInv, NEW w \in Workers, job[w].state = "answered",
                      job[w].answer \in Ids
               PROVE  \E e \in tables.effects :
                        /\ e.id = job[w].answer
                        /\ e.by.principal = job[w].request.principal
                        /\ e.by.scope \in job[w].scopes
    BY DEF DisclosedInScope
  <2> DEFINE r == job[w].request
  <2>1. r \in Requests /\ Backed(r, job[w].scopes, job[w].answer)
    BY DEF IInv, AnswerInv, TypeInv, JobInv
  <2>2. CASE r \in Writes
    <3>1. PICK e \in tables.effects : /\ e.id = job[w].answer
                                      /\ e.by.principal = r.principal
                                      /\ Digest(e.by) = Digest(r)
      BY <2>1, <2>2 DEF Backed, Did
    <3>2. e.by.scope = r.scope /\ r.scope \in job[w].scopes
      BY <2>1, <2>2, <3>1 DEF Digest, Backed
    <3> QED BY <3>1, <3>2
  <2>3. CASE r \in Queries
    <3>1. PICK x \in Receipts(tables, r) :
            x.result = job[w].answer /\ x.scope \in job[w].scopes
      BY <2>1, <2>3 DEF Backed
    <3>2. x \in tables.receipts /\ x.principal = r.principal
      BY DEF Receipts
    <3> QED BY <3>1, <3>2 DEF IInv, Sound
  <2> QED BY <2>1, <2>2, <2>3 DEF Requests
<1> QED BY <1>1, Invariant, PTL

\* A lookup never misses what a caller already knows.
THEOREM NotFoundIsTrueHolds == Spec => NotFoundIsTrue
<1> DEFINE A == \A w \in Workers :
                  /\ job'[w].state = "answered" /\ job'[w].answer = "not_found"
                  /\ job[w].state # "answered"
                  => \A t \in told : ~ /\ Results(t)
                                       /\ t.request.principal = job[w].request.principal
                                       /\ t.request.key = job[w].request.key
<1>1. IInv /\ [Next]_vars => [A]_vars
  <2> SUFFICES ASSUME IInv, Next, NEW w \in Workers,
                      job'[w].state = "answered", job'[w].answer = "not_found",
                      job[w].state # "answered",
                      NEW t \in told, Results(t),
                      t.request.principal = job[w].request.principal,
                      t.request.key = job[w].request.key
               PROVE  FALSE
    OBVIOUS
  <2>0. job \in [Workers -> Job]
    BY DEF IInv, TypeInv, JobInv
  <2>1. Work(w)
    <3>1. job'[w] # job[w] /\ job'[w].state # "idle" /\ job'[w].state # "queued"
      OBVIOUS
    <3>2. ~Crash /\ \A r \in Requests : ~Arrive(w, r)
      BY <2>0, <3>1 DEF Crash, Arrive, Idle
    <3>3. ASSUME NEW v \in Workers, v # w PROVE ~Work(v) /\ \A r \in Requests : ~Arrive(v, r)
      BY <2>0, <3>1, <3>3
      DEF Work, Lock, Deny, Recall, Repeat, Conflict, Perform, LogOperation, LogReceipt,
          Commit, Fail, Look, Deliver, Lose, Finish, Enter, Arrive
    <3>4. \A g \in GrantChoices : ~Reconfigure(g)
      BY <3>1 DEF Reconfigure
    <3> QED BY <3>2, <3>3, <3>4 DEF Next
  <2>2. ASSUME NEW state, NEW answer, Enter(w, state, answer)
        PROVE  job'[w].answer = answer /\ job'[w].state = state
    BY <2>0, <2>2 DEF Enter, Job
  <2>3. Look(w)
    <3>1. "not_found" \notin Ids /\ "not_found" # "error"
      BY CallsAssumption
    <3>2. ~Deny(w) /\ ~Conflict(w) /\ ~Fail(w)
      BY <2>2, <3>1 DEF Deny, Conflict, Fail, Finish
    <3>3. ~Lock(w)
      BY <2>2 DEF Lock
    <3>4. ~Commit(w)
      BY <2>2, <3>1 DEF Commit, Finish, IInv, TypeInv, JobInv, Writing, InTransaction
    <3>5. ~Deliver(w) /\ ~Lose(w)
      BY DEF Deliver, Lose
    <3>6. ~Recall(w) /\ ~Repeat(w) /\ ~Perform(w)
      BY <2>2 DEF Recall, Repeat, Perform
    <3>7. ~LogOperation(w) /\ ~LogReceipt(w)
      BY <2>2 DEF LogOperation, LogReceipt
    <3> QED BY <2>1, <3>2, <3>3, <3>4, <3>5, <3>6, <3>7 DEF Work
  <2>4. /\ job[w].request \in Queries /\ staged = tables
        /\ Outcome(tables, job[w].request, job[w].scopes) = "not_found"
    BY <2>2, <2>3 DEF Look, IInv, ProgressInv, Progress
  <2>5. t.answer \in Ids /\ t.request.key # NoKey
    BY <2>4, CallsAssumption DEF Results
  <2>6. PICK x \in Receipts(tables, t.request) : x.result = t.answer
    BY <2>5 DEF IInv, ToldInv, Receipted
  <2>7. x \in Receipts(tables, job[w].request)
    BY <2>6 DEF Receipts
  <2>8. Outcome(tables, job[w].request, job[w].scopes) \in Ids \cup {"error"}
    <3>1. (CHOOSE y \in Receipts(tables, job[w].request) : TRUE) \in tables.receipts
      BY <2>7 DEF Receipts
    <3>2. tables \in Tables
      BY DEF IInv, TypeInv, TypeOK
    <3> QED BY <2>7, <3>1, <3>2, RowType DEF Outcome
  <2> QED BY <2>4, <2>8, CallsAssumption
<1> QED BY <1>1, Invariant, PTL DEF Spec, NotFoundIsTrue

-----------------------------------------------------------------------------
(* Refinement.                                                             *)

\* A commit is the effect, the recognition of a repeated call, or nothing.
LEMMA CommitImplements ==
  ASSUME IInv, NEW w \in Workers, Commit(w)
  PROVE  Once!Next \/ UNCHANGED Once!vars
<1> DEFINE c == job[w].request
           id == job[w].answer
           name == [principal |-> c.principal, key |-> c.key, id |-> id]
<1>1. c \in Writes /\ id \in Ids
  BY DEF IInv, TypeInv, JobInv, Commit, Writing, InTransaction
<1>2. /\ Ready(w) /\ tables' = staged /\ told' = told /\ tables \in Tables
      /\ Sound(tables) /\ Complete(tables)
  BY DEF IInv, TypeInv, TypeOK, ProgressInv, Progress, Commit, Writing, Finish
<1>3. CASE tables' = tables
  BY <1>2, <1>3 DEF Once!vars, KeyNames
<1>4. ASSUME Receipt(tables, c) = {} PROVE Once!Unnamed(c)
  <2> SUFFICES ASSUME NEW x \in tables.receipts,
                      x.principal = c.principal, x.key = c.key
               PROVE  FALSE
    BY DEF Once!Unnamed, KeyNames
  <2>1. x.key # NoKey
    BY <1>2, RowType
  <2> QED BY <1>4, <2>1 DEF Receipt, Receipts
<1>5. ASSUME tables'.receipts = WithReceipt(tables, c, id).receipts
      PROVE  KeyNames' = Once!Named(c, id)
  <2>1. CASE c.key = NoKey
    BY <1>5, <2>1 DEF WithReceipt, KeyNames, Once!Named
  <2>2. CASE c.key # NoKey
    <3>1. tables'.receipts = tables.receipts \cup {ReceiptRow(c, id)}
      BY <1>5, <2>2 DEF WithReceipt
    <3>2. /\ ReceiptRow(c, id).principal = c.principal
          /\ ReceiptRow(c, id).key = c.key /\ ReceiptRow(c, id).result = id
      BY DEF ReceiptRow
    <3>3. KeyNames' = KeyNames \cup {name}
      BY <3>1, <3>2 DEF KeyNames
    <3> QED BY <2>2, <3>3 DEF Once!Named
  <2> QED BY <2>1, <2>2
<1>6. CASE /\ Receipt(tables, c) = {} /\ Fresh(tables, c, id)
           /\ staged = WithReceipt(WithOperation(WithEffect(tables, c, id), c, id), c, id)
  <2>1. /\ tables'.effects = tables.effects \cup {[id |-> id, by |-> c]}
        /\ tables'.receipts = WithReceipt(tables, c, id).receipts
    BY <1>2, <1>6 DEF WithReceipt, WithOperation, WithEffect
  <2>2. \A e \in tables.effects : e.id # id /\ Once!Intent(e.by) # Once!Intent(c)
    BY <1>6 DEF Fresh, Intent, Once!Intent
  <2>3. Once!Perform(c, id)
    BY <1>2, <1>4, <1>5, <1>6, <2>1, <2>2 DEF Once!Perform
  <2> QED BY <1>1, <2>3 DEF Once!Next
<1>7. CASE /\ Receipt(tables, c) = {} /\ Did(tables, c, id)
           /\ staged = WithReceipt(tables, c, id)
  <2>1. tables'.effects = tables.effects
    BY <1>2, <1>7 DEF WithReceipt
  <2>2. Once!Did(c, id)
    BY <1>7 DEF Did, Once!Did, Digest, Once!Digest
  <2>3. Once!Recognise(c, id)
    BY <1>2, <1>4, <1>5, <1>7, <2>1, <2>2 DEF Once!Recognise
  <2> QED BY <1>1, <2>3 DEF Once!Next
<1> QED BY <1>2, <1>3, <1>6, <1>7 DEF Ready

\* What is delivered is true.
LEMMA DeliverImplements ==
  ASSUME IInv, NEW w \in Workers, Deliver(w)
  PROVE  Once!Next \/ UNCHANGED Once!vars
<1> DEFINE r == job[w].request
           a == job[w].answer
<1>1. /\ r \in Requests /\ a \in Answers /\ tables' = tables
      /\ job[w].state = "answered"
  BY DEF Deliver, IInv, TypeInv, JobInv, Job
<1>2. KeyNames' = KeyNames
  BY <1>1 DEF KeyNames
<1>3. CASE told' = told
  BY <1>1, <1>2, <1>3 DEF Once!vars
<1>4. CASE a # "error" /\ told' = told \cup {[request |-> r, answer |-> a]}
  <2>1. Conclusive(r, a)
    BY <1>1 DEF IInv, TypeInv, JobInv
  <2>2. CASE a = "not_found"
    <3>1. r \in Queries
      BY <1>1, <2>1, <2>2, CallsAssumption DEF Conclusive, Requests
    <3>2. Once!Unconfirmed(r)
      BY <1>1, <1>2, <1>4, <2>2 DEF Once!Unconfirmed
    <3> QED BY <3>1, <3>2 DEF Once!Next
  <2>3. CASE a \in Ids /\ r \in Writes
    <3>1. Did(tables, r, a) /\ (r.key # NoKey => Receipted(tables, r, a))
      BY <1>1, <2>3 DEF IInv, AnswerInv, Backed
    <3>2. r.key # NoKey => [principal |-> r.principal, key |-> r.key, id |-> a] \in KeyNames
      BY <3>1 DEF Receipted, Receipts, KeyNames
    <3>3. Once!Did(r, a)
      BY <3>1 DEF Did, Once!Did, Digest, Once!Digest
    <3>4. Once!Report(r, a)
      BY <1>1, <1>2, <1>4, <3>2, <3>3 DEF Once!Report
    <3> QED BY <2>3, <3>4 DEF Once!Next
  <2>4. CASE a \in Ids /\ r \in Queries
    <3>1. PICK x \in Receipts(tables, r) : x.result = a
      BY <1>1, <2>4 DEF IInv, AnswerInv, Backed
    <3>2. [principal |-> r.principal, key |-> r.key, id |-> a] \in KeyNames
      BY <3>1 DEF Receipts, KeyNames
    <3>3. Once!Confirm(r, a)
      BY <1>1, <1>2, <1>4, <3>2 DEF Once!Confirm
    <3> QED BY <2>4, <3>3 DEF Once!Next
  <2> QED BY <1>1, <1>4, <2>1, <2>2, <2>3, <2>4 DEF Answers, Requests, Conclusive
<1> QED BY <1>3, <1>4 DEF Deliver

\* Locks, transactions, retries, lost responses and crashes implement the
\* atomic specification.
THEOREM CallsImplementEffectOnce == Spec => ImplementsEffectOnce
<1>1. Init => Once!Init
  BY DEF Init, EmptyTables, Once!Init, KeyNames
<1>2. IInv /\ [Next]_vars => [Once!Next]_(Once!vars)
  <2> SUFFICES ASSUME IInv, [Next]_vars
               PROVE  Once!Next \/ UNCHANGED Once!vars
    OBVIOUS
  <2>1. ASSUME UNCHANGED <<tables, told>> PROVE UNCHANGED Once!vars
    BY <2>1 DEF Once!vars, KeyNames
  <2>2. ASSUME NEW w \in Workers, Work(w) PROVE Once!Next \/ UNCHANGED Once!vars
    <3>1. CASE Commit(w)
      BY <3>1, CommitImplements
    <3>2. CASE Deliver(w)
      BY <3>2, DeliverImplements
    <3>3. CASE ~Commit(w) /\ ~Deliver(w)
      BY <2>1, <2>2, <3>3
      DEF Work, Lock, Deny, Recall, Repeat, Conflict, Perform, LogOperation, LogReceipt,
          Fail, Look, Lose, Finish
    <3> QED BY <3>1, <3>2, <3>3
  <2>3. CASE \/ \E w \in Workers, r \in Requests : Arrive(w, r)
             \/ Crash \/ (\E g \in GrantChoices : Reconfigure(g)) \/ UNCHANGED vars
    BY <2>1, <2>3 DEF Arrive, Crash, Reconfigure, vars
  <2> QED BY <2>2, <2>3 DEF Next
<1> QED BY <1>1, <1>2, Invariant, PTL DEF Spec, ImplementsEffectOnce, Once!Spec

=============================================================================
