---------------------------- MODULE CWMemoProofs ----------------------------
(***************************************************************************)
(* Safety of CWMemo for any sets of calls and job ids and any bounds.      *)
(* IInv is the inductive invariant: the facts about the two threads that   *)
(* the properties of CWMemo rest on, and those properties themselves.      *)
(***************************************************************************)
EXTENDS CWMemo, TLAPS

\* The client thread carries a call exactly between its pop and its store, and
\* rests while no session is open.
ThreadInv ==
  /\ landing # NoKey <=> thread = "popped"
  /\ pc = "out" => thread = "idle" /\ running = {}

\* Without a cluster there is no client and no job.
LocalInv ==
  local => /\ running = {} /\ thread = "idle" /\ exc = FALSE
           /\ jobs = [j \in JobIds |-> NoKey]

\* Whatever is under way was entered in fresh first.
UnderWayIsFresh ==
  /\ \A j \in JobIds : jobs[j] # NoKey => jobs[j] \in fresh
  /\ thread = "popped" => landing \in fresh
  /\ pc = "starting" => cur \in fresh

\* What this object started is this object's, and nothing comes from the future.
ValuesInv ==
  /\ \A k \in Keys : db[k] <= epoch
  /\ \A k \in fresh : db[k] \in {NoValue, epoch}
  /\ force => asked \subseteq fresh

\* A submitted call is in the database, or this object has started it.
AskedInv == \A k \in asked : Stored(k) \/ k \in fresh

IInv ==
  /\ TypeOK
  /\ AnsweredJobsAreKnown
  /\ ThreadInv
  /\ LocalInv
  /\ UnderWayIsFresh
  /\ ValuesInv
  /\ AskedInv
  /\ NoCallIsLost
  /\ ForceAnswersFresh

-----------------------------------------------------------------------------
LEMMA InitIInv == Init => IInv
<1> SUFFICES ASSUME Init PROVE IInv
  OBVIOUS
<1> USE ConstantsAssumption DEF Init, NoValue
<1>1. TypeOK
  <2>1. epoch \in Values /\ sessions \in 0..MaxSessions
    BY DEF Values
  <2>2. answer \in [kind : {"none", "value", "KeyError", "RemoteException"},
                    key : Keys \cup {NoKey}, asked : BOOLEAN, value : {NoValue} \cup Values]
    BY DEF NoAnswer
  <2>3. QED  BY <2>1, <2>2 DEF TypeOK
<1>2. AnsweredJobsAreKnown /\ ThreadInv /\ LocalInv /\ UnderWayIsFresh
  BY DEF AnsweredJobsAreKnown, ThreadInv, LocalInv, UnderWayIsFresh
<1>3. ValuesInv /\ AskedInv /\ NoCallIsLost
  BY DEF ValuesInv, AskedInv, NoCallIsLost
<1>4. ForceAnswersFresh
  BY DEF ForceAnswersFresh, NoAnswer
<1>5. QED  BY <1>1, <1>2, <1>3, <1>4 DEF IInv

LEMMA StepIInv == IInv /\ [Next]_vars => IInv'
<1> SUFFICES ASSUME IInv, [Next]_vars PROVE IInv'
  OBVIOUS
<1>0. CASE Restart
  <2> USE <1>0, ConstantsAssumption DEF Restart, IInv, NoValue
  <2>1. TypeOK'
    <3>1. epoch' \in Values /\ sessions' \in 0..MaxSessions
      BY DEF Values, TypeOK
    <3>2. answer' \in [kind : {"none", "value", "KeyError", "RemoteException"},
                       key : Keys \cup {NoKey}, asked : BOOLEAN,
                       value : {NoValue} \cup Values]
      BY DEF NoAnswer
    <3>3. QED  BY <3>1, <3>2 DEF TypeOK
  <2>2. (AnsweredJobsAreKnown /\ ThreadInv /\ LocalInv /\ UnderWayIsFresh)'
    BY DEF AnsweredJobsAreKnown, ThreadInv, LocalInv, UnderWayIsFresh
  <2>3. (ValuesInv /\ AskedInv /\ NoCallIsLost)'
    BY DEF ValuesInv, AskedInv, NoCallIsLost, TypeOK, Values
  <2>4. ForceAnswersFresh'
    BY DEF ForceAnswersFresh, NoAnswer
  <2>5. QED  BY <2>1, <2>2, <2>3, <2>4
<1> USE ConstantsAssumption
    DEF IInv, TypeOK, AnsweredJobsAreKnown, ThreadInv, LocalInv, UnderWayIsFresh,
        ValuesInv, AskedInv, NoCallIsLost, ForceAnswersFresh, NoValue, Values, NoAnswer,
        objectVars, clientVars, mainVars, Stored, Pending
<1>2. CASE Enter
  <2> USE <1>2 DEF Enter
  <2>1. sessions' \in 0..MaxSessions
    OBVIOUS
  <2>2. TypeOK'
    BY <2>1
  <2>3. (AnsweredJobsAreKnown /\ ThreadInv /\ LocalInv /\ UnderWayIsFresh)'
    OBVIOUS
  <2>4. (ValuesInv /\ AskedInv /\ NoCallIsLost /\ ForceAnswersFresh)'
    OBVIOUS
  <2>5. QED  BY <2>2, <2>3, <2>4
<1>3. CASE LeaveStart  BY <1>3 DEF LeaveStart
<1>4. CASE Leave  BY <1>4 DEF Leave
<1>5. ASSUME NEW k \in Keys, SubmitMemoized(k) PROVE IInv'
  BY <1>5 DEF SubmitMemoized, Usable
<1>6. ASSUME NEW k \in Keys, SubmitStart(k) PROVE IInv'
  BY <1>6 DEF SubmitStart, Usable
<1>7. CASE RunLocally  BY <1>7 DEF RunLocally
<1>8. CASE RaiseLocally  BY <1>8 DEF RaiseLocally
<1>9. CASE Register  BY <1>9 DEF Register
<1>10. ASSUME NEW k \in Keys, GetWaits(k) PROVE IInv'
  BY <1>10 DEF GetWaits, AtTest, MustWait
<1>11. ASSUME NEW k \in Keys, GetRaises(k) PROVE IInv'
  <2> USE <1>11 DEF GetRaises, Outcome
  <2>0. answer' \in [kind : {"none", "value", "KeyError", "RemoteException"},
                     key : Keys \cup {NoKey}, asked : BOOLEAN, value : {NoValue} \cup Values]
    OBVIOUS
  <2>1. TypeOK'
    BY <2>0
  <2>2. (AnsweredJobsAreKnown /\ ThreadInv /\ LocalInv /\ UnderWayIsFresh)'
    BY DEF AtTest
  <2>3. (ValuesInv /\ AskedInv /\ NoCallIsLost /\ ForceAnswersFresh)'
    OBVIOUS
  <2>4. QED  BY <2>1, <2>2, <2>3
<1>12. ASSUME NEW k \in Keys, GetReturns(k) PROVE IInv'
  BY <1>12 DEF GetReturns, Outcome, AtTest, Settled
<1>13. ASSUME NEW k \in Keys, GetMisses(k) PROVE IInv'
  BY <1>13 DEF GetMisses, Outcome, AtTest
<1>14. ASSUME NEW j \in JobIds, CompletionPop(j) PROVE IInv'
  <2> USE <1>14 DEF CompletionPop
  <2>1. jobs[j] \in Keys
    OBVIOUS
  <2>2. TypeOK' /\ AnsweredJobsAreKnown'
    BY <2>1
  <2>3. ThreadInv' /\ LocalInv' /\ UnderWayIsFresh' /\ ValuesInv' /\ AskedInv' /\ ForceAnswersFresh'
    BY <2>1
  <2>4. ASSUME NEW k \in fresh, pc # "exited", ~Stored(k), ~(pc = "starting" /\ cur = k),
               ~(thread' = "popped" /\ landing' = k)
        PROVE  Pending(k)'
    <3>1. PICK i \in JobIds : jobs[i] = k
      BY <2>4
    <3>2. i # j
      BY <3>1, <2>4
    <3>3. QED  BY <3>1, <3>2
  <2>5. NoCallIsLost'
    BY <2>4
  <2>6. QED  BY <2>2, <2>3, <2>5
<1>15. CASE CompletionStore  BY <1>15 DEF CompletionStore
<1>16. CASE ClientNotify  BY <1>16 DEF ClientNotify, WakeWaiter
<1>17. ASSUME NEW j \in JobIds, ClientFailure(j) PROVE IInv'
  BY <1>17 DEF ClientFailure, WakeWaiter
<1>18. CASE UNCHANGED vars  BY <1>18 DEF vars
<1>19. QED
  BY <1>0, <1>2, <1>3, <1>4, <1>5, <1>6, <1>7, <1>8, <1>9, <1>10, <1>11, <1>12,
     <1>13, <1>14, <1>15, <1>16, <1>17, <1>18
  DEF Next, Main, Client, GetStep, Answered

\* Every reachable state satisfies the inductive invariant: type correctness,
\* and what follows from it below.
THEOREM Invariance == Spec => []IInv
<1>1. QED  BY InitIInv, StepIInv, PTL DEF Spec

\* The type invariant, for every value of the constants.
THEOREM TypeCorrect == Spec => []TypeOK
<1>1. IInv => TypeOK  BY DEF IInv
<1>2. QED  BY Invariance, <1>1, PTL

\* No submitted call is lost between submit, the client thread and the database.
THEOREM NoCallLost == Spec => []NoCallIsLost
<1>1. IInv => NoCallIsLost  BY DEF IInv
<1>2. QED  BY Invariance, <1>1, PTL

\* completion always finds the job it is called for.
THEOREM AnsweredKnown == Spec => []AnsweredJobsAreKnown
<1>1. IInv => AnsweredJobsAreKnown  BY DEF IInv
<1>2. QED  BY Invariance, <1>1, PTL

\* Under force no submitted call is answered from an older process's database.
THEOREM ForceIsFresh == Spec => []ForceAnswersFresh
<1>1. IInv => ForceAnswersFresh  BY DEF IInv
<1>2. QED  BY Invariance, <1>1, PTL

\* A session that ends without an exception leaves no call unanswered except
\* those whose function raised.
THEOREM CleanExit == Spec => []CleanExitIsComplete
<1>1. IInv => CleanExitIsComplete
  <2> SUFFICES ASSUME IInv, pc = "out", NEW k \in asked, ~Stored(k)
               PROVE  \E j \in JobIds : jobs[j] = k /\ j \notin running
    BY DEF CleanExitIsComplete
  <2>1. k \in fresh
    BY DEF IInv, AskedInv
  <2>2. QED
    BY <2>1 DEF IInv, NoCallIsLost, ThreadInv, Pending
<1>2. QED  BY Invariance, <1>1, PTL

\* The database forgets a result only on behalf of force, and never goes back
\* to an older one.
THEOREM OnlyForceMayForget == Spec => OnlyForceForgets
<1>1. IInv /\ [Next]_vars => KeepOrBar
  <2> SUFFICES ASSUME IInv, [Next]_vars, NEW k \in Keys
               PROVE  db'[k] >= db[k] \/ (db'[k] = NoValue /\ force /\ k \notin fresh)
    BY DEF KeepOrBar
  <2> USE ConstantsAssumption
      DEF IInv, TypeOK, ValuesInv, NoValue, Values, Stored
  <2>1. CASE \E c \in Keys : SubmitStart(c)
    BY <2>1 DEF SubmitStart, Usable
  <2>2. CASE RunLocally
    BY <2>2 DEF RunLocally
  <2>3. CASE CompletionStore
    BY <2>3 DEF CompletionStore
  <2>4. CASE UNCHANGED db
    BY <2>4
  <2>5. QED
    BY <2>1, <2>2, <2>3, <2>4
    DEF Next, Main, Client, GetStep, Answered, vars, Enter, LeaveStart, Leave,
        SubmitMemoized, RaiseLocally, Register, GetWaits, GetRaises, GetReturns,
        GetMisses, CompletionPop, ClientNotify, ClientFailure, Restart
<1>2. QED  BY Invariance, <1>1, PTL DEF Spec, OnlyForceForgets

-----------------------------------------------------------------------------
(* CWMemo implements MemoFutures: a step of either thread is one of the     *)
(* futures' steps, or invisible to them.                                   *)

Owed == {k \in Keys : Pending(k)}

LEMMA FuturesInit == Init => Futures!Init
  BY ConstantsAssumption
  DEF Init, Futures!Init, Pending, NoAnswer, NoValue

\* The main thread's part of get and the sessions.
LEMMA FuturesGet ==
  ASSUME IInv, NEW k \in Keys, GetStep(k)
  PROVE  [Futures!Next]_(Futures!vars)
<1>1. CASE GetWaits(k)
  BY <1>1 DEF GetWaits, Futures!vars, clientVars, Pending
<1>2. CASE GetRaises(k)
  <2>1. Futures!Raise(k)
    BY <1>2 DEF GetRaises, Outcome, Futures!Raise, Futures!Say, Pending
  <2>2. QED  BY <2>1 DEF Futures!Next
<1>3. CASE GetReturns(k)
  <2>1. ~Pending(k) /\ ~exc
    BY <1>3, ConstantsAssumption DEF GetReturns, Settled, IInv, LocalInv, Pending
  <2>2. Futures!Reply(k)
    BY <1>3, <2>1
    DEF GetReturns, Outcome, Stored, Futures!Reply, Futures!Say, clientVars, Pending
  <2>3. QED  BY <2>2 DEF Futures!Next
<1>4. CASE GetMisses(k)
  <2>1. ~Pending(k) /\ ~exc
    BY <1>4, ConstantsAssumption DEF GetMisses, Settled, IInv, LocalInv, Pending
  <2>2. Futures!Miss(k)
    BY <1>4, <2>1
    DEF GetMisses, Outcome, Stored, Futures!Miss, Futures!Say, clientVars, Pending
  <2>3. QED  BY <2>2 DEF Futures!Next
<1>5. QED  BY <1>1, <1>2, <1>3, <1>4 DEF GetStep

LEMMA FuturesMain == IInv /\ Main => [Futures!Next]_(Futures!vars)
<1> SUFFICES ASSUME IInv, Main PROVE [Futures!Next]_(Futures!vars)
  OBVIOUS
<1>1. CASE Enter
  <2>1. Futures!Forgive
    BY <1>1 DEF Enter, Futures!Forgive, IInv, ThreadInv, Pending
  <2>2. QED  BY <2>1 DEF Futures!Next
<1>2. CASE LeaveStart \/ Leave \/ RaiseLocally
  BY <1>2 DEF LeaveStart, Leave, RaiseLocally, Futures!vars, clientVars, Pending
<1>3. ASSUME NEW k \in Keys, SubmitMemoized(k) PROVE [Futures!Next]_(Futures!vars)
  BY <1>3 DEF SubmitMemoized, Futures!vars, clientVars, Pending
<1>4. ASSUME NEW k \in Keys, SubmitStart(k) PROVE [Futures!Next]_(Futures!vars)
  <2>1. CASE ~Stored(k)
    BY <1>4, <2>1
    DEF SubmitStart, Stored, Futures!vars, clientVars, Pending, IInv, TypeOK
  <2>2. CASE Stored(k)
    <3>1. k \notin fresh
      BY <1>4, <2>2 DEF SubmitStart, Usable
    <3>2. ~Pending(k) /\ k # landing
      BY <3>1, ConstantsAssumption DEF IInv, UnderWayIsFresh, ThreadInv, Pending
    <3>3. Futures!Bar(k)
      BY <1>4, <3>2 DEF SubmitStart, Futures!Bar, clientVars, Pending
    <3>4. QED  BY <3>3 DEF Futures!Next
  <2>3. QED  BY <2>1, <2>2
<1>5. CASE RunLocally
  <2>1. Owed = {} /\ landing = NoKey
    BY <1>5, ConstantsAssumption DEF RunLocally, IInv, LocalInv, ThreadInv, Owed, Pending
  <2>2. Futures!Compute(cur, epoch)
    BY <1>5, <2>1 DEF RunLocally, Futures!Compute, clientVars, Owed, Pending
  <2>3. cur \in Keys /\ epoch \in Values
    BY <1>5 DEF RunLocally, IInv, TypeOK
  <2>4. QED  BY <2>2, <2>3 DEF Futures!Next
<1>6. CASE Register
  <2>1. cur \in Keys
    BY <1>6 DEF Register, IInv, TypeOK
  <2>2. PICK j \in JobIds : jobs[j] = NoKey /\ jobs' = [jobs EXCEPT ![j] = cur]
    BY <1>6 DEF Register
  <2>3. \A k \in Keys : Pending(k)' <=> Pending(k) \/ k = cur
    BY <2>1, <2>2, ConstantsAssumption DEF Pending, IInv, TypeOK
  <2>4. Futures!Owe(cur)
    BY <1>6, <2>1, <2>3 DEF Register, Futures!Owe, Owed
  <2>5. QED  BY <2>1, <2>4 DEF Futures!Next
<1>7. ASSUME NEW k \in Keys, GetStep(k) PROVE [Futures!Next]_(Futures!vars)
  BY <1>7, FuturesGet
<1>8. QED
  BY <1>1, <1>2, <1>3, <1>4, <1>5, <1>6, <1>7 DEF Main

LEMMA FuturesClient == IInv /\ Client => [Futures!Next]_(Futures!vars)
<1> SUFFICES ASSUME IInv, Client PROVE [Futures!Next]_(Futures!vars)
  OBVIOUS
<1>1. ASSUME NEW j \in JobIds, CompletionPop(j) PROVE [Futures!Next]_(Futures!vars)
  <2>1. jobs[j] \in Keys
    BY <1>1 DEF CompletionPop, IInv, TypeOK, AnsweredJobsAreKnown
  <2>2. landing = NoKey
    BY <1>1 DEF CompletionPop, IInv, ThreadInv
  <2>3. \A k \in Keys : k # jobs[j] => (Pending(k)' <=> Pending(k))
    BY <1>1, ConstantsAssumption DEF CompletionPop, Pending, IInv, TypeOK
  <2>4. Pending(jobs[j])
    BY DEF Pending
  <2>5. Owed' \in {Owed, Owed \ {jobs[j]}}
    BY <2>1, <2>3, <2>4 DEF Owed
  <2>6. Futures!Arrive(jobs[j])
    BY <1>1, <2>1, <2>2, <2>4, <2>5 DEF CompletionPop, Futures!Arrive, Owed
  <2>7. QED  BY <2>1, <2>6 DEF Futures!Next
<1>2. CASE CompletionStore
  <2>1. landing # NoKey /\ epoch \in Values
    BY <1>2 DEF CompletionStore, IInv, ThreadInv, TypeOK
  <2>2. Futures!Land(epoch)
    BY <1>2, <2>1 DEF CompletionStore, Futures!Land, Pending
  <2>3. QED  BY <2>1, <2>2 DEF Futures!Next
<1>3. CASE ClientNotify
  BY <1>3 DEF ClientNotify, Futures!vars, Pending
<1>4. ASSUME NEW j \in JobIds, ClientFailure(j) PROVE [Futures!Next]_(Futures!vars)
  <2>1. jobs[j] \in Keys
    BY <1>4 DEF ClientFailure, IInv, TypeOK, AnsweredJobsAreKnown
  <2>2. Owed # {}
    BY <2>1 DEF Owed, Pending
  <2>3. Futures!Break
    BY <1>4, <2>2 DEF ClientFailure, Futures!Break, Owed, Pending
  <2>4. QED  BY <2>3 DEF Futures!Next
<1>5. QED
  BY <1>1, <1>2, <1>3, <1>4 DEF Client, Answered

\* The memo never answers a call it still owes, and its database changes by
\* results alone: CWMemo refines the futures over a persistent store.
THEOREM Refinement == Spec => ImplementsFutures
<1>1. IInv /\ [Next]_vars => [Futures!Next]_(Futures!vars)
  <2> SUFFICES ASSUME IInv, [Next]_vars PROVE [Futures!Next]_(Futures!vars)
    OBVIOUS
  <2>1. CASE Main  BY <2>1, FuturesMain
  <2>2. CASE Client  BY <2>2, FuturesClient
  <2>3. CASE Restart
    <3>1. Futures!Forfeit
      BY <2>3, ConstantsAssumption DEF Restart, Futures!Forfeit, NoAnswer, Pending
    <3>2. QED  BY <3>1 DEF Futures!Next
  <2>4. CASE UNCHANGED vars
    BY <2>4 DEF vars, clientVars, Futures!vars, Pending
  <2>5. QED  BY <2>1, <2>2, <2>3, <2>4 DEF Next
<1>2. QED
  BY FuturesInit, Invariance, <1>1, PTL DEF Spec, ImplementsFutures, Futures!Spec
=============================================================================
