------------------------------- MODULE CWMemo -------------------------------
(***************************************************************************)
(* The memoizing proxy of accept/cwmemo.py: futures whose results are kept *)
(* in an on-disk database that outlives the process.                       *)
(*                                                                         *)
(* Two threads of one process share the object.  The main thread calls     *)
(* submit and get (its program counter is pc, its current call cur); the   *)
(* thread of cw.client.ClientThread, an external library, runs completion  *)
(* for one finished job after the other (thread, landing).  They share the *)
(* dictionary jobs and the condition variable jobs_cond that guards it;    *)
(* the database is written outside of that lock.  A process may stop at    *)
(* any moment; the next one finds the database and nothing else.           *)
(***************************************************************************)
EXTENDS Naturals

CONSTANTS
  Keys,         \* the calls (function and positional arguments) that are memoized
  JobIds,       \* the values cw.randid() returns; bounds the jobs pending at once
  NoKey,        \* no call
  MaxEpoch,     \* bound on the number of processes
  MaxSessions,  \* bound on the number of times one object is entered
  JobsMayFail   \* whether a function may raise on a worker

ASSUME ConstantsAssumption ==
  /\ NoKey \notin Keys
  /\ MaxEpoch \in Nat \ {0}
  /\ MaxSessions \in Nat \ {0}
  /\ JobsMayFail \in BOOLEAN

VARIABLES
  db,        \* memo.db: for a key, the epoch of the process that computed its value
  epoch,     \* number of the running process, that is of the CWMemo object
  force,     \* self.force
  local,     \* self.local
  sessions,  \* how often this object was entered
  fresh,     \* self.fresh
  asked,     \* history: the keys this object was asked for by submit
  jobs,      \* self.jobs: the key of each pending job
  running,   \* the jobs the client has submitted and not answered
  exc,       \* whether client.remote_exception is set
  pc, cur,   \* the main thread: where it is, and the key of its current call
  thread,    \* the client thread: "idle", or inside completion
  landing,   \* the key completion has taken out of jobs
  answer     \* history: the last get, its outcome, and whether submit came first

mainVars == <<pc, cur>>
clientVars == <<jobs, running, exc, thread, landing>>
objectVars == <<epoch, force, local>>
vars == <<db, objectVars, sessions, fresh, asked, clientVars, mainVars, answer>>

NoValue == 0
Values == 1..MaxEpoch
NoAnswer == [kind |-> "none", key |-> NoKey, asked |-> FALSE, value |-> NoValue]

Stored(k) == db[k] # NoValue
Pending(k) == \E j \in JobIds : jobs[j] = k    \* key in self.jobs.values()

TypeOK ==
  /\ db \in [Keys -> {NoValue} \cup Values]
  /\ epoch \in Values
  /\ force \in BOOLEAN /\ local \in BOOLEAN
  /\ sessions \in 0..MaxSessions
  /\ fresh \in SUBSET Keys /\ asked \in SUBSET Keys
  /\ jobs \in [JobIds -> Keys \cup {NoKey}]
  /\ running \in SUBSET JobIds
  /\ exc \in BOOLEAN
  /\ pc \in {"out", "idle", "starting", "blocked", "woken", "leaving", "exited"}
  /\ cur \in Keys \cup {NoKey}
  /\ pc \in {"starting", "blocked", "woken"} => cur \in Keys
  /\ thread \in {"idle", "popped", "stored"}
  /\ landing \in Keys \cup {NoKey}
  /\ thread = "popped" => landing \in Keys
  /\ answer \in [kind : {"none", "value", "KeyError", "RemoteException"},
                 key : Keys \cup {NoKey}, asked : BOOLEAN, value : {NoValue} \cup Values]

-----------------------------------------------------------------------------
(* The object: created once per process, entered around the work.          *)

\* __init__, in a process that starts on an empty database.
Init ==
  /\ db = [k \in Keys |-> NoValue]
  /\ epoch = 1
  /\ force \in BOOLEAN /\ local \in BOOLEAN
  /\ sessions = 0
  /\ fresh = {} /\ asked = {}
  /\ jobs = [j \in JobIds |-> NoKey]
  /\ running = {} /\ exc = FALSE
  /\ pc = "out" /\ cur = NoKey
  /\ thread = "idle" /\ landing = NoKey
  /\ answer = NoAnswer

\* The process ends, normally or by a crash at any point, and another one
\* makes a new object: all is as in Init, except for what the database holds.
Restart ==
  /\ epoch < MaxEpoch
  /\ epoch' = epoch + 1
  /\ force' \in BOOLEAN /\ local' \in BOOLEAN
  /\ sessions' = 0
  /\ fresh' = {} /\ asked' = {}
  /\ jobs' = [j \in JobIds |-> NoKey]
  /\ running' = {} /\ exc' = FALSE
  /\ pc' = "out" /\ cur' = NoKey
  /\ thread' = "idle" /\ landing' = NoKey
  /\ answer' = NoAnswer
  /\ UNCHANGED db

\* __enter__: a new client thread; fresh and jobs are those of the object.
Enter ==
  /\ pc = "out" /\ sessions < MaxSessions
  /\ pc' = "idle" /\ sessions' = sessions + 1
  /\ exc' = FALSE /\ running' = {} /\ thread' = "idle" /\ landing' = NoKey
  /\ UNCHANGED <<db, objectVars, fresh, asked, jobs, cur, answer>>

\* __exit__ without an exception: client.wait() until every job is answered.
LeaveStart ==
  /\ pc = "idle"
  /\ pc' = "leaving"
  /\ UNCHANGED <<db, objectVars, sessions, fresh, asked, clientVars, cur, answer>>

\* Changed: the wait for the jobs does not wait for the last completion.
LeaveEarly ==
  /\ pc = "leaving"
  /\ ~local => running = {}
  /\ pc' = "out" /\ cur' = NoKey
  /\ UNCHANGED <<db, objectVars, sessions, fresh, asked, clientVars, answer>>

Leave ==
  /\ pc = "leaving"
  /\ ~local => running = {} /\ thread = "idle"
  /\ pc' = "out" /\ cur' = NoKey
  /\ UNCHANGED <<db, objectVars, sessions, fresh, asked, clientVars, answer>>

-----------------------------------------------------------------------------
(* submit                                                                  *)

\* Changed: force is not asked; force bars the values of this object too.
UsableIfStored(k) == Stored(k)
UsableUnlessForced(k) == Stored(k) /\ ~force

\* A memoized value is as good as a new one, unless force bars it.
Usable(k) == Stored(k) /\ (force => k \in fresh)

SubmitMemoized(k) ==
  /\ pc = "idle" /\ Usable(k)
  /\ asked' = asked \cup {k}
  /\ UNCHANGED <<db, objectVars, sessions, fresh, clientVars, mainVars, answer>>

\* The test of the database, del self.db[key], and fresh.add.
SubmitStart(k) ==
  /\ pc = "idle" /\ ~Usable(k)
  /\ db' = [db EXCEPT ![k] = NoValue]
  /\ fresh' = fresh \cup {k}
  /\ asked' = asked \cup {k}
  /\ pc' = "starting" /\ cur' = k
  /\ UNCHANGED <<objectVars, sessions, clientVars, answer>>

\* self.local: the function runs here and now ...
RunLocally ==
  /\ pc = "starting" /\ local
  /\ db' = [db EXCEPT ![cur] = epoch]
  /\ pc' = "idle" /\ cur' = NoKey
  /\ UNCHANGED <<objectVars, sessions, fresh, asked, clientVars, answer>>

\* ... or raises, through the caller and __exit__, and ends the process.
RaiseLocally ==
  /\ pc = "starting" /\ local /\ JobsMayFail
  /\ pc' = "exited" /\ cur' = NoKey
  /\ UNCHANGED <<db, objectVars, sessions, fresh, asked, clientVars, answer>>

\* The job is entered in jobs before the client knows of it.
Register ==
  /\ pc = "starting" /\ ~local
  /\ \E j \in JobIds :
       /\ jobs[j] = NoKey
       /\ jobs' = [jobs EXCEPT ![j] = cur]
       /\ running' = running \cup {j}
  /\ pc' = "idle" /\ cur' = NoKey
  /\ UNCHANGED <<db, objectVars, sessions, fresh, asked, exc, thread, landing, answer>>

-----------------------------------------------------------------------------
(* get: the main thread holds jobs_cond except while it waits.             *)

Outcome(kind, k, value) ==
  [kind |-> kind, key |-> k, asked |-> k \in asked, value |-> value]

\* The call is made, or the condition variable lets it go on.
AtTest(k) == pc = "idle" \/ (pc = "woken" /\ cur = k)

\* Changed: the wait does not look at the exceptions of the client.
MustWaitDespiteException(k) == Pending(k)

MustWait(k) == Pending(k) /\ ~exc

GetWaits(k) ==
  /\ ~local /\ AtTest(k) /\ MustWait(k)
  /\ pc' = "blocked" /\ cur' = k
  /\ UNCHANGED <<db, objectVars, sessions, fresh, asked, clientVars, answer>>

\* The exception of any job is raised by whichever get comes first.
GetRaises(k) ==
  /\ ~local /\ AtTest(k) /\ exc
  /\ exc' = FALSE
  /\ answer' = Outcome("RemoteException", k, NoValue)
  /\ pc' = "exited" /\ cur' = NoKey
  /\ UNCHANGED <<db, objectVars, sessions, fresh, asked, jobs, running, thread, landing>>

\* Changed: the database is read before the exception is raised.
SettledDespiteException(k) == local \/ ~Pending(k)

Settled(k) == local \/ (~Pending(k) /\ ~exc)

GetReturns(k) ==
  /\ AtTest(k) /\ Settled(k) /\ Stored(k)
  /\ answer' = Outcome("value", k, db[k])
  /\ pc' = "idle" /\ cur' = NoKey
  /\ UNCHANGED <<db, objectVars, sessions, fresh, asked, clientVars>>

\* raise KeyError: no caller catches it, so it ends the process.
GetMisses(k) ==
  /\ AtTest(k) /\ Settled(k) /\ ~Stored(k)
  /\ answer' = Outcome("KeyError", k, NoValue)
  /\ pc' = "exited" /\ cur' = NoKey
  /\ UNCHANGED <<db, objectVars, sessions, fresh, asked, clientVars>>

GetStep(k) == GetWaits(k) \/ GetRaises(k) \/ GetReturns(k) \/ GetMisses(k)

-----------------------------------------------------------------------------
(* The client thread.                                                      *)

\* Changed: nobody is notified.
WakeNobody == pc' = pc

\* jobs_cond.notify_all(): a waiting get takes the lock again and re-tests.
WakeWaiter == pc' = IF pc = "blocked" THEN "woken" ELSE pc

\* completion, under the lock: the job leaves the dictionary ...
CompletionPop(j) ==
  /\ thread = "idle" /\ j \in running
  /\ running' = running \ {j}
  /\ landing' = jobs[j]
  /\ jobs' = [jobs EXCEPT ![j] = NoKey]
  /\ thread' = "popped"
  /\ UNCHANGED <<db, objectVars, sessions, fresh, asked, exc, mainVars, answer>>

\* ... and, after the lock is released, its result enters the database.
CompletionStore ==
  /\ thread = "popped"
  /\ db' = [db EXCEPT ![landing] = epoch]
  /\ thread' = "stored" /\ landing' = NoKey
  /\ UNCHANGED <<objectVars, sessions, fresh, asked, jobs, running, exc, mainVars, answer>>

ClientNotify ==
  /\ thread = "stored"
  /\ thread' = "idle"
  /\ WakeWaiter
  /\ UNCHANGED <<db, objectVars, sessions, fresh, asked, jobs, running, exc, landing,
                 cur, answer>>

\* Changed: a job that fails leaves the dictionary as one that succeeds.
ClientFailurePops(j) ==
  /\ JobsMayFail
  /\ thread = "idle" /\ j \in running
  /\ running' = running \ {j}
  /\ exc' = TRUE
  /\ jobs' = [jobs EXCEPT ![j] = NoKey]
  /\ WakeWaiter
  /\ UNCHANGED <<db, objectVars, sessions, fresh, asked, thread, landing, cur, answer>>

\* The function raised on the worker: no completion, the job stays in jobs.
ClientFailure(j) ==
  /\ JobsMayFail
  /\ thread = "idle" /\ j \in running
  /\ running' = running \ {j}
  /\ exc' = TRUE
  /\ WakeWaiter
  /\ UNCHANGED <<db, objectVars, sessions, fresh, asked, jobs, thread, landing, cur,
                 answer>>

Answered(j) == CompletionPop(j) \/ ClientFailure(j)

-----------------------------------------------------------------------------
Main ==
  \/ Enter \/ LeaveStart \/ Leave
  \/ \E k \in Keys : SubmitMemoized(k) \/ SubmitStart(k)
  \/ RunLocally \/ RaiseLocally \/ Register
  \/ \E k \in Keys : GetStep(k)

Client ==
  \/ \E j \in JobIds : Answered(j)
  \/ CompletionStore \/ ClientNotify

Next == Main \/ Client \/ Restart

(***************************************************************************)
(* The cluster answers every job, the client thread keeps running, and a   *)
(* thread that was notified gets the lock.  Nothing is assumed of what the *)
(* caller of submit and get does next.                                     *)
(***************************************************************************)
Fairness ==
  /\ WF_vars(Client)
  /\ WF_vars(pc = "woken" /\ GetStep(cur))

Spec == Init /\ [][Next]_vars
FairSpec == Spec /\ Fairness

-----------------------------------------------------------------------------
(* Properties.                                                             *)

\* When a job is answered, completion finds it in self.jobs: a job is entered
\* there before the client hears of it, so the pop cannot raise KeyError.
AnsweredJobsAreKnown == \A j \in running : jobs[j] # NoKey

\* submit never loses a call: what this object started is being started, is
\* registered, is on its way to the database, or is there.
NoCallIsLost ==
  pc # "exited" =>
    \A k \in fresh :
      \/ Stored(k)
      \/ pc = "starting" /\ cur = k
      \/ Pending(k)
      \/ thread = "popped" /\ landing = k

\* Under force, a value that answers a submitted call was computed by this
\* very object, whatever an earlier process left in the database.
ForceAnswersFresh ==
  (force /\ answer.kind = "value" /\ answer.asked) => answer.value = epoch

\* A stored result disappears only when force bars a value this object did
\* not compute, and is only ever replaced by a more recent one.
KeepOrBar ==
  \A k \in Keys :
    \/ db'[k] >= db[k]
    \/ db'[k] = NoValue /\ force /\ k \notin fresh

OnlyForceForgets == [][KeepOrBar]_vars

\* A session that ends without an exception has waited for its jobs: every
\* call submitted in it is in the database, unless its function raised.
CleanExitIsComplete ==
  (pc = "out") =>
    \A k \in asked : Stored(k) \/ \E j \in JobIds : jobs[j] = k /\ j \notin running

\* A pending job of k that this session did not submit: it failed in an
\* earlier one, and neither __exit__ nor __enter__ took it out of jobs.
Abandoned(k) == ~exc /\ \E j \in JobIds \ running : jobs[j] = k

\* No get waits forever: its job is answered, or another one fails, and
\* somebody wakes it up.  The only exception is a call whose job failed in an
\* earlier session of the object: no client knows of that job any more.
GetTerminates ==
  (pc \in {"blocked", "woken"}) ~> (pc \notin {"blocked", "woken"} \/ Abandoned(cur))

\* The docstring of get: it blocks until the result of the call is ready.
\* completion pops the job before it stores the result, and a get between
\* the two raises KeyError.
GetFindsSubmittedCalls == answer.kind = "KeyError" => ~answer.asked

\* CWMemo implements the futures of MemoFutures: the calls in jobs are owed, a
\* call that completion has popped is landing, and a get answers accordingly.
Futures == INSTANCE MemoFutures WITH
  store <- db,
  owed <- {k \in Keys : Pending(k)},
  landing <- landing,
  broken <- exc,
  answer <- <<answer.kind, answer.key, answer.value>>

ImplementsFutures == Futures!Spec
=============================================================================
