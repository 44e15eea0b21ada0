----------------------------- MODULE ResultProofs -----------------------------
(***************************************************************************)
(* What holds of build_and_execute for any jobs, workers and files that    *)
(* earlier runs have left behind; and of the results that its jobs report, *)
(* as they are judged and triaged, for any number of results, replicas and *)
(* scores.                                                                 *)
(***************************************************************************)
EXTENDS BuildExecute, Triage, InductionLemmas

\* A worker is busy exactly when it has a job, no two have the same, and a job
\* that a worker has is no longer to be taken.
Occupied ==
  /\ \A w \in Workers : job[w] = NoJob <=> pc[w] = "free"
  /\ \A w \in Workers : job[w] \notin todo
  /\ \A v, w \in Workers : job[v] = job[w] /\ job[v] # NoJob => v = w

Base == TypeOK /\ Occupied

Steps == {"free", "clean", "configure", "build", "execute", "load", "time", "copy",
          "parse", "leave"}

-----------------------------------------------------------------------------
LEMMA InitBase == Init => Base
<1>. SUFFICES ASSUME Init PROVE Base
  OBVIOUS
<1>. USE ConstantsAssumption DEF Init
<1>1. TypeOK
  <2>1. NoResult \in Executions
    BY DEF NoResult, Executions, Writers, Statuses
  <2>2. shared \in [Files -> Writers] /\ own \in [Jobs -> [Files -> Writers]]
    BY DEF Writers
  <2>3. binary \in [Jobs -> Writers \cup {"precise"}]
    BY DEF Writers
  <2>. QED  BY <2>1, <2>2, <2>3 DEF TypeOK
<1>2. Occupied
  BY DEF Occupied
<1>. QED  BY <1>1, <1>2 DEF Base

LEMMA ReadType ==
  ASSUME TypeOK, NEW j \in Jobs, NEW f \in Files
  PROVE  Read(j, f) \in Writers
BY DEF TypeOK, Read

LEMMA WriteType ==
  ASSUME TypeOK, NEW j \in Jobs, NEW fs, WriteAll(j, fs)
  PROVE  /\ shared' \in [Files -> Writers] /\ link' \in [Jobs -> SUBSET Files]
         /\ own' \in [Jobs -> [Files -> Writers]]
BY DEF TypeOK, WriteAll, Writers

LEMMA RemoveType ==
  ASSUME TypeOK, NEW j \in Jobs, NEW fs, RemoveAll(j, fs)
  PROVE  /\ shared' \in [Files -> Writers] /\ link' \in [Jobs -> SUBSET Files]
         /\ own' \in [Jobs -> [Files -> Writers]]
BY DEF TypeOK, RemoveAll, Writers

\* What an assignment to two fields of the Execution of one job does.
LEMMA OutputAndStatus ==
  ASSUME TypeOK, NEW j \in Jobs, NEW o \in Writers, NEW s \in Statuses,
         result' = [result EXCEPT ![j].output = o, ![j].status = s]
  PROVE  /\ result' \in [Jobs -> Executions]
         /\ \A k \in Jobs \ {j} : result'[k] = result[k]
         /\ result'[j].output = o /\ result'[j].status = s
         /\ result'[j].roitime = result[j].roitime /\ result'[j].config = result[j].config
<1>0. result[j] \in Executions
  BY DEF TypeOK
<1>1. [result[j] EXCEPT !.output = o, !.status = s] \in Executions
  BY <1>0 DEF Executions
<1>2. result' = [result EXCEPT ![j] = [result[j] EXCEPT !.output = o, !.status = s]]
  BY DEF TypeOK
<1>. QED  BY <1>1, <1>2 DEF TypeOK, Executions

TimeIsSet(j, t, s) == result' = [result EXCEPT ![j].roitime = t, ![j].status = s]

LEMMA TimeAndStatus ==
  ASSUME TypeOK, NEW j \in Jobs, NEW t \in Writers, NEW s \in Statuses,
         TimeIsSet(j, t, s)
  PROVE  /\ result' \in [Jobs -> Executions]
         /\ \A k \in Jobs \ {j} : result'[k] = result[k]
         /\ result'[j].roitime = t /\ result'[j].status = s
         /\ result'[j].output = result[j].output /\ result'[j].config = result[j].config
<1>0. result[j] \in Executions
  BY DEF TypeOK
<1>1. [result[j] EXCEPT !.roitime = t, !.status = s] \in Executions
  BY <1>0 DEF Executions
<1>2. result' = [result EXCEPT ![j] = [result[j] EXCEPT !.roitime = t, !.status = s]]
  BY DEF TypeOK, TimeIsSet
<1>. QED  BY <1>1, <1>2 DEF TypeOK, Executions

LEMMA StatusType ==
  ASSUME TypeOK, NEW j \in Jobs PROVE result[j].status \in Statuses
BY DEF TypeOK, Executions

LEMMA OnlyStatus ==
  ASSUME TypeOK, NEW j \in Jobs, NEW s \in Statuses,
         result' = [result EXCEPT ![j].status = s]
  PROVE  /\ result' \in [Jobs -> Executions]
         /\ \A k \in Jobs \ {j} : result'[k] = result[k]
         /\ result'[j].status = s
         /\ result'[j].output = result[j].output /\ result'[j].roitime = result[j].roitime
         /\ result'[j].config = result[j].config
<1>0. result[j] \in Executions
  BY DEF TypeOK
<1>1. [result[j] EXCEPT !.status = s] \in Executions
  BY <1>0 DEF Executions
<1>2. result' = [result EXCEPT ![j] = [result[j] EXCEPT !.status = s]]
  BY DEF TypeOK
<1>. QED  BY <1>1, <1>2 DEF TypeOK, Executions

LEMMA OnlyTime ==
  ASSUME TypeOK, NEW j \in Jobs, NEW t \in Writers,
         result' = [result EXCEPT ![j].roitime = t]
  PROVE  /\ result' \in [Jobs -> Executions]
         /\ \A k \in Jobs \ {j} : result'[k] = result[k]
         /\ result'[j].roitime = t
         /\ result'[j].output = result[j].output /\ result'[j].status = result[j].status
         /\ result'[j].config = result[j].config
<1>0. result[j] \in Executions
  BY DEF TypeOK
<1>1. [result[j] EXCEPT !.roitime = t] \in Executions
  BY <1>0 DEF Executions
<1>2. result' = [result EXCEPT ![j] = [result[j] EXCEPT !.roitime = t]]
  BY DEF TypeOK
<1>. QED  BY <1>1, <1>2 DEF TypeOK, Executions

\* The ROI time is read and the status stays, or it is missing and the status says so.
LEMMA TimeIsLoaded ==
  ASSUME TypeOK, NEW w \in Workers, job[w] \in Jobs, LoadTime(w),
         Read(job[w], "time") \in Writers
  PROVE  /\ result' \in [Jobs -> Executions]
         /\ \A k \in Jobs \ {job[w]} : result'[k] = result[k]
         /\ result'[job[w]].output = result[job[w]].output
         /\ result'[job[w]].config = result[job[w]].config
         /\ \/ /\ Read(job[w], "time") # Absent
               /\ result'[job[w]].roitime = Read(job[w], "time")
               /\ result'[job[w]].status = result[job[w]].status
            \/ result'[job[w]].roitime = Absent /\ result'[job[w]].status = "notime"
<1>1. CASE /\ Read(job[w], "time") # Absent
           /\ result' = [result EXCEPT ![job[w]].roitime = Read(job[w], "time")]
  BY <1>1, OnlyTime
<1>2. CASE result' = [result EXCEPT ![job[w]].roitime = Absent, ![job[w]].status = "notime"]
  <2>1. TimeIsSet(job[w], Absent, "notime")
    BY <1>2 DEF TimeIsSet
  <2>2. Absent \in Writers /\ "notime" \in Statuses
    BY DEF Writers, Statuses
  <2>. QED  BY <2>1, <2>2, TimeAndStatus
<1>. QED  BY <1>1, <1>2 DEF LoadTime

LEMMA StayBusy ==
  ASSUME Base, NEW w \in Workers, NEW to \in Steps \ {"free"}, Goto(w, pc[w], to),
         pc[w] # "free", UNCHANGED <<job, todo>>
  PROVE  Occupied' /\ pc' \in [Workers -> Steps]
BY DEF Base, TypeOK, Occupied, Goto, Steps

LEMMA RaiseBase ==
  ASSUME Base, NEW w \in Workers, job[w] # NoJob, Raise(w), UNCHANGED <<files, binary>>
  PROVE  Base'
<1>. USE DEF Base, Raise, places, files
<1>1. TypeOK'
  <2>1. job[w] \in Jobs /\ "raised" \in Statuses
    BY DEF TypeOK, Statuses
  <2>2. result' \in [Jobs -> Executions]
    BY <2>1, OnlyStatus
  <2>. QED  BY <2>2 DEF TypeOK
<1>2. Occupied'
  BY ConstantsAssumption DEF TypeOK, Occupied
<1>. QED  BY <1>1, <1>2

LEMMA StepBase == Base /\ [Next]_vars => Base'
<1>. SUFFICES ASSUME Base, [Next]_vars PROVE Base'
  OBVIOUS
<1>. USE DEF Base, Goto, places, files
<1>0. \A w \in Workers : pc[w] # "free" => job[w] \in Jobs
  BY DEF TypeOK, Occupied
<1>1. ASSUME NEW w \in Workers, NEW j \in Jobs, Enter(w, j) PROVE Base'
  BY <1>1, ConstantsAssumption DEF Enter, TypeOK, Occupied
<1>2. ASSUME NEW w \in Workers, Clean(w) PROVE Base'
  BY <1>0, <1>2, RemoveType DEF Clean, TypeOK, Occupied
<1>3. ASSUME NEW w \in Workers, Configure(w) PROVE Base'
  BY <1>0, <1>3, RemoveType, WriteType DEF Configure, TypeOK, Occupied
<1>4. ASSUME NEW w \in Workers, Build(w) PROVE Base'
  <2>1. Occupied' /\ pc' \in [Workers -> Steps]
    BY <1>4, StayBusy DEF Build, Steps
  <2>2. binary' \in [Jobs -> Writers \cup {"precise"}]
    <3>1. Read(job[w], "config") \in Writers
      BY <1>0, <1>4, ReadType DEF Build, Files
    <3>. QED  BY <3>1, <1>4 DEF Build, TypeOK
  <2>3. /\ shared' \in [Files -> Writers] /\ link' \in [Jobs -> SUBSET Files]
        /\ own' \in [Jobs -> [Files -> Writers]]
    BY <1>0, <1>4, WriteType DEF Build, TypeOK
  <2>. QED  BY <1>4, <2>1, <2>2, <2>3 DEF Build, TypeOK, Steps
<1>5. ASSUME NEW w \in Workers, BuildFails(w) PROVE Base'
  BY <1>0, <1>5, RaiseBase, ConstantsAssumption DEF BuildFails
<1>6. ASSUME NEW w \in Workers, ExecuteEnds(w) PROVE Base'
  BY <1>0, <1>6, WriteType DEF ExecuteEnds, Writes, TypeOK, Occupied
<1>7. ASSUME NEW w \in Workers, ExecuteFails(w) PROVE Base'
  <2>1. Occupied' /\ pc' \in [Workers -> Steps]
    BY <1>7, StayBusy DEF ExecuteFails, AfterRun, Steps
  <2>2. result' \in [Jobs -> Executions]
    BY <1>0, <1>7, OnlyStatus DEF ExecuteFails, Statuses
  <2>3. /\ shared' \in [Files -> Writers] /\ link' \in [Jobs -> SUBSET Files]
        /\ own' \in [Jobs -> [Files -> Writers]]
    BY <1>0, <1>7, WriteType DEF ExecuteFails, Writes
  <2>. QED  BY <1>7, <2>1, <2>2, <2>3 DEF ExecuteFails, TypeOK, Steps, Executions
<1>8. ASSUME NEW w \in Workers, ExecuteTimesOut(w) PROVE Base'
  <2>1. Occupied' /\ pc' \in [Workers -> Steps]
    BY <1>8, StayBusy DEF ExecuteTimesOut, AfterRun, Steps
  <2>2. result' \in [Jobs -> Executions]
    BY <1>0, <1>8, OnlyStatus DEF ExecuteTimesOut, Statuses
  <2>3. /\ shared' \in [Files -> Writers] /\ link' \in [Jobs -> SUBSET Files]
        /\ own' \in [Jobs -> [Files -> Writers]]
    BY <1>0, <1>8, WriteType DEF ExecuteTimesOut, Writes
  <2>. QED  BY <1>8, <2>1, <2>2, <2>3 DEF ExecuteTimesOut, TypeOK, Steps, Executions
<1>9. ASSUME NEW w \in Workers, LoadFuncsMissing(w) PROVE Base'
  BY <1>0, <1>9, RaiseBase, ConstantsAssumption DEF LoadFuncsMissing
<1>10. ASSUME NEW w \in Workers, Load(w) PROVE Base'
  <2>1. Occupied' /\ pc' \in [Workers -> Steps]
    BY <1>10, StayBusy DEF Load, Steps
  <2>2. Read(job[w], "output") \in Writers
    BY <1>0, <1>10, ReadType DEF Load, Files
  <2>3. result' \in [Jobs -> Executions]
    <3>. DEFINE r == Read(job[w], "output")
    <3>1. CASE result' = [result EXCEPT ![job[w]].output = r, ![job[w]].status = "ok"]
      BY <1>0, <1>10, <2>2, <3>1, OutputAndStatus DEF Load, Statuses
    <3>2. CASE result' = [result EXCEPT ![job[w]].status = "load"]
      BY <1>0, <1>10, <3>2, OnlyStatus DEF Load, Statuses
    <3>. QED  BY <1>10, <3>1, <3>2 DEF Load
  <2>. QED  BY <1>10, <2>1, <2>3 DEF Load, TypeOK, Steps, Executions
<1>11. ASSUME NEW w \in Workers, LoadTime(w) PROVE Base'
  <2>1. Occupied' /\ pc' \in [Workers -> Steps]
    BY <1>11, StayBusy DEF LoadTime, Steps
  <2>2. Read(job[w], "time") \in Writers
    BY <1>0, <1>11, ReadType DEF LoadTime, Files
  <2>3. result' \in [Jobs -> Executions]
    BY <1>0, <1>11, <2>2, TimeIsLoaded DEF LoadTime
  <2>. QED  BY <1>11, <2>1, <2>3 DEF LoadTime, TypeOK, Steps, Executions
<1>12. ASSUME NEW w \in Workers, Copy(w) PROVE Base'
  <2>1. Occupied' /\ pc' \in [Workers -> Steps]
    BY <1>12, StayBusy DEF Copy, AfterRun, Steps
  <2>2. result' \in [Jobs -> Executions]
    <3>1. CASE UNCHANGED result
      BY <3>1 DEF TypeOK, Executions
    <3>2. CASE result' = [result EXCEPT ![job[w]].roitime = Absent, ![job[w]].status = "copy"]
      <4>1. TimeIsSet(job[w], Absent, "copy")
        BY <3>2 DEF TimeIsSet
      <4>2. job[w] \in Jobs /\ Absent \in Writers /\ "copy" \in Statuses
        BY <1>0, <1>12 DEF Copy, Statuses, Writers
      <4>. QED  BY <4>1, <4>2, TimeAndStatus
    <3>. QED  BY <1>12, <3>1, <3>2 DEF Copy
  <2>. QED  BY <1>12, <2>1, <2>2 DEF Copy, TypeOK, Steps, Executions
<1>13. ASSUME NEW w \in Workers, Parse(w) PROVE Base'
  <2>1. Occupied' /\ pc' \in [Workers -> Steps]
    BY <1>13, StayBusy DEF Parse, Steps
  <2>2. result[job[w]] \in Executions /\ Read(job[w], "config") \in Writers
    BY <1>0, <1>13, ReadType DEF Parse, TypeOK, Files
  <2>3. [result[job[w]] EXCEPT !.config = Read(job[w], "config")] \in Executions
    BY <2>2 DEF Executions
  <2>4. result' \in [Jobs -> Executions]
    BY <1>13, <2>3 DEF Parse, TypeOK
  <2>. QED  BY <1>13, <2>1, <2>4 DEF Parse, TypeOK, Steps
<1>14. ASSUME NEW w \in Workers, ParseFails(w) PROVE Base'
  BY <1>0, <1>14, RaiseBase, ConstantsAssumption DEF ParseFails
<1>15. ASSUME NEW w \in Workers, Leave(w) PROVE Base'
  BY <1>15, ConstantsAssumption DEF Leave, TypeOK, Occupied
<1>16. ASSUME NEW w \in Workers, LeaveFails(w) PROVE Base'
  <2>1. TypeOK'
    <3>1. result' \in [Jobs -> Executions]
      BY <1>0, <1>16, OnlyStatus DEF LeaveFails, Statuses
    <3>. QED  BY <1>16, <3>1 DEF LeaveFails, TypeOK
  <2>2. Occupied'
    BY <1>16, ConstantsAssumption DEF LeaveFails, TypeOK, Occupied
  <2>. QED  BY <2>1, <2>2
<1>17. CASE UNCHANGED vars
  BY <1>17 DEF vars, TypeOK, Occupied
<1>. QED
  BY <1>1, <1>2, <1>3, <1>4, <1>5, <1>6, <1>7, <1>8, <1>9, <1>10, <1>11, <1>12, <1>13,
     <1>14, <1>15, <1>16, <1>17 DEF Next

\* The variables keep their types, and no two workers run one job.
THEOREM TypeCorrect == Spec => []TypeOK
<1>1. Base => TypeOK
  BY DEF Base
<1>. QED  BY InitBase, StepBase, <1>1, PTL DEF Spec

-----------------------------------------------------------------------------
\* The steps of a worker that has a job: it goes on with it, or the job ends.
GoesOn(w) ==
  \/ Clean(w) \/ Configure(w) \/ Build(w)
  \/ ExecuteEnds(w) \/ ExecuteFails(w) \/ ExecuteTimesOut(w)
  \/ Load(w) \/ LoadTime(w) \/ Copy(w) \/ Parse(w)

Raises(w) == BuildFails(w) \/ LoadFuncsMissing(w) \/ ParseFails(w)

LEMMA NextSteps ==
  Next <=> \E w \in Workers :
             \/ \E j \in Jobs : Enter(w, j)
             \/ GoesOn(w) \/ Raises(w) \/ Leave(w) \/ LeaveFails(w)
BY DEF Next, GoesOn, Raises

LEMMA BusyWorker ==
  ASSUME Base, NEW w \in Workers,
         GoesOn(w) \/ Raises(w) \/ Leave(w) \/ LeaveFails(w)
  PROVE  pc[w] # "free" /\ job[w] \in Jobs
<1>1. pc[w] # "free"
  BY DEF GoesOn, Raises, Clean, Configure, Build, ExecuteEnds, ExecuteFails,
         ExecuteTimesOut, Load, LoadTime, Copy, Parse, BuildFails, LoadFuncsMissing,
         ParseFails, Leave, LeaveFails, Goto
<1>. QED  BY <1>1 DEF Base, Occupied, TypeOK

LEMMA GoesOnKeeps ==
  ASSUME Base, NEW w \in Workers, GoesOn(w)
  PROVE  /\ UNCHANGED <<job, todo, cwd, olddir, sandboxes>>
         /\ \A v \in Workers \ {w} : pc'[v] = pc[v]
         /\ pc'[w] # "free"
BY DEF GoesOn, Clean, Configure, Build, ExecuteEnds, ExecuteFails,
       ExecuteTimesOut, Load, LoadTime, Copy, Parse, Goto, places, Base, TypeOK, AfterRun

\* No step of a job changes the files, the program or the result of another.
LEMMA OthersKeep ==
  ASSUME Base, NEW w \in Workers,
         GoesOn(w) \/ Raises(w) \/ Leave(w) \/ LeaveFails(w)
  PROVE  \A k \in Jobs \ {job[w]} :
           /\ own'[k] = own[k] /\ link'[k] = link[k]
           /\ binary'[k] = binary[k] /\ result'[k] = result[k]
<1>1. job[w] \in Jobs
  BY BusyWorker
<1>. SUFFICES ASSUME NEW k \in Jobs \ {job[w]}
              PROVE  /\ own'[k] = own[k] /\ link'[k] = link[k]
                     /\ binary'[k] = binary[k] /\ result'[k] = result[k]
  OBVIOUS
<1>2. own'[k] = own[k] /\ link'[k] = link[k]
  BY <1>1 DEF GoesOn, Raises, Clean, Configure, Build, ExecuteEnds, ExecuteFails, Writes,
         ExecuteTimesOut, Load, LoadTime, Copy, Parse, BuildFails, LoadFuncsMissing,
         ParseFails, Leave, LeaveFails, files, WriteAll, RemoveAll, Base, TypeOK
<1>3. binary'[k] = binary[k]
  BY <1>1 DEF GoesOn, Raises, Clean, Configure, Build, ExecuteEnds, ExecuteFails, Writes,
         ExecuteTimesOut, Load, LoadTime, Copy, Parse, BuildFails, LoadFuncsMissing,
         ParseFails, Leave, LeaveFails, Base, TypeOK
<1>4. result'[k] = result[k]
  BY <1>1 DEF GoesOn, Raises, Clean, Configure, Build, ExecuteEnds, ExecuteFails, Writes,
         ExecuteTimesOut, Load, LoadTime, Copy, Parse, BuildFails, LoadFuncsMissing,
         ParseFails, Leave, LeaveFails, Raise, Base, TypeOK
<1>. QED  BY <1>2, <1>3, <1>4

-----------------------------------------------------------------------------
\* A job that nobody has taken has no sandbox yet.
SandboxInv ==
  /\ todo \cap sandboxes = {}
  /\ StandsInItsSandbox
  /\ LeaksOnlyByException

LEMMA StepSandbox == Base /\ Base' /\ SandboxInv /\ [Next]_vars => SandboxInv'
<1>. SUFFICES ASSUME Base, Base', SandboxInv, [Next]_vars PROVE SandboxInv'
  OBVIOUS
<1>. USE DEF SandboxInv, StandsInItsSandbox, LeaksOnlyByException, Finished
<1>1. ASSUME NEW w \in Workers, NEW j \in Jobs, Enter(w, j) PROVE SandboxInv'
  <2>1. /\ todo' = todo \ {j} /\ sandboxes' = sandboxes \cup {j} /\ UNCHANGED result
        /\ job'[w] = j /\ cwd'[w] = j /\ job[w] = NoJob
        /\ \A v \in Workers \ {w} : job'[v] = job[v] /\ cwd'[v] = cwd[v]
    BY <1>1 DEF Enter, Goto, Base, TypeOK, Occupied
  <2>2. todo' \cap sandboxes' = {}
    BY <2>1
  <2>3. StandsInItsSandbox'
    BY <2>1, ConstantsAssumption
  <2>4. ASSUME NEW k \in sandboxes', Finished(k)' PROVE result'[k].status = "raised"
    <3>1. k \in sandboxes /\ k # j /\ Finished(k)
      <4>1. k # j /\ k \in Jobs
        BY <2>1, <2>4 DEF Base, TypeOK
      <4>. QED  BY <2>1, <2>4, <4>1, ConstantsAssumption
    <3>. QED  BY <2>1, <3>1
  <2>. QED  BY <2>2, <2>3, <2>4
<1>2. ASSUME NEW w \in Workers, GoesOn(w) PROVE SandboxInv'
  BY <1>2, BusyWorker, GoesOnKeeps, OthersKeep DEF Base, TypeOK
<1>3. ASSUME NEW w \in Workers, Raises(w) PROVE SandboxInv'
  <2>1. Raise(w)
    BY <1>3 DEF Raises, BuildFails, LoadFuncsMissing, ParseFails
  <2>2. job' = [job EXCEPT ![w] = NoJob] /\ UNCHANGED <<cwd, sandboxes, todo>>
    BY <2>1 DEF Raise, places
  <2>3. result'[job[w]].status = "raised"
    BY <1>3, <2>1, BusyWorker, OnlyStatus DEF Raise, Base, Statuses
  <2>4. job'[w] = NoJob /\ \A v \in Workers \ {w} : job'[v] = job[v] /\ cwd'[v] = cwd[v]
    BY <2>2 DEF Base, TypeOK
  <2>5. \A k \in Jobs \ {job[w]} : result'[k] = result[k]
    BY <1>3, OthersKeep
  <2>6. StandsInItsSandbox'
    BY <2>2, <2>4
  <2>7. ASSUME NEW k \in sandboxes, Finished(k)' PROVE result'[k].status = "raised"
    <3>1. CASE k = job[w]
      BY <2>3, <3>1
    <3>2. CASE k # job[w]
      BY <2>2, <2>4, <2>5, <2>7, <3>2 DEF Base, TypeOK
    <3>. QED  BY <3>1, <3>2
  <2>. QED  BY <2>2, <2>6, <2>7
<1>4. ASSUME NEW w \in Workers, Leave(w) PROVE SandboxInv'
  BY <1>4, BusyWorker DEF Leave, Base, TypeOK, Occupied
<1>5. ASSUME NEW w \in Workers, LeaveFails(w) PROVE SandboxInv'
  <2>1. /\ job'[w] = NoJob /\ UNCHANGED <<sandboxes, todo>>
        /\ \A v \in Workers \ {w} : job'[v] = job[v] /\ cwd'[v] = cwd[v]
    BY <1>5 DEF LeaveFails, Base, TypeOK
  <2>2. result'[job[w]].status = "raised"
    BY <1>5, BusyWorker DEF LeaveFails, Base, TypeOK
  <2>3. \A k \in Jobs \ {job[w]} : result'[k] = result[k]
    BY <1>5, OthersKeep
  <2>4. StandsInItsSandbox'
    BY <2>1
  <2>5. ASSUME NEW k \in sandboxes, Finished(k)' PROVE result'[k].status = "raised"
    <3>1. CASE k = job[w]
      BY <2>2, <3>1
    <3>2. CASE k # job[w]
      BY <2>1, <2>3, <2>5, <3>2 DEF Base, TypeOK
    <3>. QED  BY <3>1, <3>2
  <2>. QED  BY <2>1, <2>4, <2>5
<1>6. CASE UNCHANGED vars
  BY <1>6 DEF vars, places
<1>. QED  BY <1>1, <1>2, <1>3, <1>4, <1>5, <1>6, NextSteps

\* The invariant of the directories, from which both theorems below follow.
THEOREM SandboxesAreKept == Spec => []SandboxInv
<1>1. Init => SandboxInv
  BY DEF Init, SandboxInv, StandsInItsSandbox, LeaksOnlyByException
<1>. QED  BY InitBase, StepBase, <1>1, StepSandbox, PTL DEF Spec

\* A worker that runs a job stands in the sandbox of that job, whatever
\* exceptions its earlier jobs raised between the two chdir.
THEOREM WorkersStandInTheirSandbox == Spec => []StandsInItsSandbox
<1>1. SandboxInv => StandsInItsSandbox
  BY DEF SandboxInv
<1>. QED  BY SandboxesAreKept, <1>1, PTL

\* A sandbox that is left on disk when its job is done is that of a job that
\* raised an exception.
THEOREM OnlyExceptionsLeak == Spec => []LeaksOnlyByException
<1>1. SandboxInv => LeaksOnlyByException
  BY DEF SandboxInv
<1>. QED  BY SandboxesAreKept, <1>1, PTL

-----------------------------------------------------------------------------
\* What a job has written and reported is its own.
Owns(j) ==
  /\ \A f \in Files : own[j][f] \in {j, Absent}
  /\ result[j].output \in {j, Absent} /\ result[j].roitime \in {j, Absent}
  /\ result[j].config \in {j, Absent}
  /\ binary[j] \in {j, Absent, "precise"}

\* The application directory holds nothing but what earlier runs left, and from
\* make clean on a job has no link into it.
FilesInv ==
  /\ \A f \in Files : shared[f] # Absent => f \in LeftOver
  /\ \A w \in Workers : job[w] # NoJob =>
       /\ link[job[w]] \subseteq LeftOver
       /\ pc[w] # "clean" => link[job[w]] = {}
  /\ \A j \in Jobs : Owns(j)

LEMMA ReadOwn ==
  ASSUME NEW j \in Jobs, NEW f \in Files, Owns(j), link[j] = {}
  PROVE  Read(j, f) \in {j, Absent}
BY DEF Owns, Read

LEMMA WriteOwn ==
  ASSUME TypeOK, NEW j \in Jobs, NEW fs, Owns(j), link[j] = {}, WriteAll(j, fs)
  PROVE  /\ shared' = shared /\ link'[j] = {}
         /\ \A f \in Files : own'[j][f] \in {j, Absent}
BY DEF Owns, WriteAll, TypeOK

LEMMA RemoveOwn ==
  ASSUME TypeOK, NEW j \in Jobs, NEW fs, Owns(j), RemoveAll(j, fs)
  PROVE  /\ shared' = shared /\ link'[j] = link[j] \ fs
         /\ \A f \in Files : own'[j][f] \in {j, Absent}
BY DEF Owns, RemoveAll, TypeOK

\* A job that goes on leaves the application directory alone, keeps no link and
\* still owns what it has.
LEMMA GoesOnOwn ==
  ASSUME CleansOutputs, Base, FilesInv, NEW w \in Workers, GoesOn(w),
         NEW j \in Jobs, job[w] = j
  PROVE  shared' = shared /\ link'[j] = {} /\ Owns(j)'
<1>. USE DEF Base, Goto, files
<1>0. /\ Owns(j) /\ pc[w] # "free" /\ link[j] \subseteq LeftOver
      /\ pc[w] # "clean" => link[j] = {}
  BY BusyWorker, ConstantsAssumption DEF FilesInv
<1>1. CASE Clean(w)
  <2>1. RemoveAll(j, {"config", "time"} \cup CleanMeToo) /\ UNCHANGED <<binary, result>>
    BY <1>1 DEF Clean
  <2>2. LeftOver \ ({"config", "time"} \cup CleanMeToo) = {}
    BY DEF CleansOutputs
  <2>. QED  BY <1>0, <2>1, <2>2, RemoveOwn DEF Owns
<1>2. CASE Configure(w)
  <2>1. /\ WriteAll(j, {"config"}) \/ RemoveAll(j, {"config"})
        /\ UNCHANGED <<binary, result>> /\ pc[w] # "clean"
    BY <1>2 DEF Configure
  <2>. QED  BY <1>0, <2>1, RemoveOwn, WriteOwn DEF Owns
<1>3. CASE Build(w)
  <2>1. pc[w] # "clean" /\ UNCHANGED result
    BY <1>3 DEF Build
  <2>2. Read(j, "config") \in {j, Absent}
    BY <1>0, <2>1, ReadOwn DEF Files
  <2>3. /\ shared' = shared /\ link'[j] = {}
        /\ \A f \in Files : own'[j][f] \in {j, Absent}
    BY <1>0, <1>3, <2>1, WriteOwn DEF Build, Owns
  <2>4. binary'[j] \in {j, Absent, "precise"}
    BY <1>3, <2>2 DEF Build, TypeOK
  <2>. QED  BY <1>0, <2>1, <2>3, <2>4 DEF Owns
<1>4. CASE ExecuteEnds(w) \/ ExecuteFails(w) \/ ExecuteTimesOut(w)
  <2>1. pc[w] # "clean" /\ UNCHANGED binary
    BY <1>4 DEF ExecuteEnds, ExecuteFails, ExecuteTimesOut
  <2>2. PICK fs : WriteAll(j, fs)
    BY <1>4 DEF ExecuteEnds, ExecuteFails, ExecuteTimesOut, Writes
  <2>3. /\ result'[j].output = result[j].output /\ result'[j].roitime = result[j].roitime
        /\ result'[j].config = result[j].config
    BY <1>4, OnlyStatus DEF ExecuteEnds, ExecuteFails, ExecuteTimesOut, Statuses
  <2>. QED  BY <1>0, <2>1, <2>2, <2>3, WriteOwn DEF Owns
<1>5. CASE Load(w)
  <2>1. pc[w] # "clean" /\ UNCHANGED <<binary, files>>
    BY <1>5 DEF Load
  <2>2. Read(j, "output") \in {j, Absent} /\ Read(j, "output") \in Writers
    BY <1>0, <2>1, ReadOwn, ReadType DEF Files
  <2>3. CASE result' = [result EXCEPT ![j].output = Read(j, "output"), ![j].status = "ok"]
    <3>1. /\ result'[j].output \in {j, Absent} /\ result'[j].roitime = result[j].roitime
          /\ result'[j].config = result[j].config
      <4>1. PICK r \in Writers : r = Read(j, "output")
        BY <2>2
      <4>2. result' = [result EXCEPT ![j].output = r, ![j].status = "ok"]
        BY <2>3, <4>1
      <4>3. r \in {j, Absent} /\ "ok" \in Statuses
        BY <2>2, <4>1 DEF Statuses
      <4>. QED  BY <4>2, <4>3, OutputAndStatus
    <3>. QED  BY <1>0, <2>1, <3>1 DEF Owns
  <2>4. CASE result' = [result EXCEPT ![j].status = "load"]
    BY <1>0, <2>1, <2>4 DEF Owns, TypeOK
  <2>. QED  BY <1>5, <2>3, <2>4 DEF Load
<1>6. CASE LoadTime(w)
  <2>1. pc[w] # "clean" /\ UNCHANGED <<binary, files>>
    BY <1>6 DEF LoadTime
  <2>2. Read(j, "time") \in {j, Absent} /\ Read(j, "time") \in Writers
    BY <1>0, <2>1, ReadOwn, ReadType DEF Files
  <2>3. /\ result'[j].roitime \in {j, Absent} /\ result'[j].output = result[j].output
        /\ result'[j].config = result[j].config
    BY <1>6, <2>2, TimeIsLoaded
  <2>. QED  BY <1>0, <2>1, <2>3 DEF Owns
<1>7. CASE Copy(w)
  <2>1. pc[w] # "clean" /\ UNCHANGED <<binary, files>>
    BY <1>7 DEF Copy
  <2>2. CASE UNCHANGED result
    BY <1>0, <2>1, <2>2 DEF Owns
  <2>3. CASE result' = [result EXCEPT ![j].roitime = Absent, ![j].status = "copy"]
    <3>1. /\ result'[j].roitime = Absent /\ result'[j].output = result[j].output
          /\ result'[j].config = result[j].config
      <4>1. Absent \in Writers /\ "copy" \in Statuses
        BY DEF Writers, Statuses
      <4>2. TimeIsSet(j, Absent, "copy")
        BY <2>3 DEF TimeIsSet
      <4>. QED  BY <4>1, <4>2, TimeAndStatus
    <3>. QED  BY <1>0, <2>1, <3>1 DEF Owns
  <2>. QED  BY <1>7, <2>2, <2>3 DEF Copy
<1>8. CASE Parse(w)
  <2>1. pc[w] # "clean" /\ UNCHANGED <<binary, files>>
    BY <1>8 DEF Parse
  <2>2. Read(j, "config") \in {j, Absent}
    BY <1>0, <2>1, ReadOwn DEF Files
  <2>3. /\ result'[j].output = result[j].output /\ result'[j].roitime = result[j].roitime
        /\ result'[j].config \in {j, Absent}
    BY <1>8, <2>2 DEF Parse, TypeOK
  <2>. QED  BY <1>0, <2>1, <2>3 DEF Owns
<1>. QED  BY <1>1, <1>2, <1>3, <1>4, <1>5, <1>6, <1>7, <1>8 DEF GoesOn

\* An exception and the two ways to leave change no file, and no result but its status.
LEMMA EndsOwn ==
  ASSUME Base, NEW w \in Workers, Raises(w) \/ Leave(w) \/ LeaveFails(w)
  PROVE  /\ UNCHANGED <<shared, link, own, binary>>
         /\ job' = [job EXCEPT ![w] = NoJob] /\ pc' = [pc EXCEPT ![w] = "free"]
         /\ \A k \in Jobs : /\ result'[k].output = result[k].output
                            /\ result'[k].roitime = result[k].roitime
                            /\ result'[k].config = result[k].config
<1>1. /\ UNCHANGED <<shared, link, own, binary>>
      /\ job' = [job EXCEPT ![w] = NoJob] /\ pc' = [pc EXCEPT ![w] = "free"]
      /\ \/ UNCHANGED result
         \/ result' = [result EXCEPT ![job[w]].status = "raised"]
  BY DEF files, Goto, Raises, BuildFails, LoadFuncsMissing, ParseFails, Raise, Leave,
         LeaveFails
<1>2. CASE UNCHANGED result
  BY <1>1, <1>2
<1>3. CASE result' = [result EXCEPT ![job[w]].status = "raised"]
  BY <1>1, <1>3 DEF Base, TypeOK
<1>. QED  BY <1>1, <1>2, <1>3

LEMMA StepFiles ==
  ASSUME CleansOutputs, Base, Base', FilesInv, [Next]_vars
  PROVE  FilesInv' /\ UNCHANGED shared
<1>1. ASSUME NEW w \in Workers, NEW j \in Jobs, Enter(w, j)
      PROVE  FilesInv' /\ UNCHANGED shared
  <2>1. /\ UNCHANGED <<shared, own, binary, result>>
        /\ job'[w] = j /\ pc'[w] = "clean"
        /\ \A v \in Workers \ {w} : job'[v] = job[v] /\ pc'[v] = pc[v]
        /\ link' = [link EXCEPT ![j] = {f \in Files : shared[f] # Absent}]
        /\ \A v \in Workers \ {w} : job[v] # j
    BY <1>1 DEF Enter, Goto, Base, TypeOK, Occupied
  <2>2. \A k \in Jobs : Owns(k)'
    BY <2>1 DEF FilesInv, Owns
  <2>3. link'[j] \subseteq LeftOver /\ \A k \in Jobs \ {j} : link'[k] = link[k]
    BY <2>1 DEF FilesInv, Base, TypeOK
  <2>4. ASSUME NEW v \in Workers, job'[v] # NoJob
        PROVE  /\ link'[job'[v]] \subseteq LeftOver
               /\ pc'[v] # "clean" => link'[job'[v]] = {}
    BY <2>1, <2>3, <2>4 DEF FilesInv, Base, TypeOK
  <2>. QED  BY <2>1, <2>2, <2>4 DEF FilesInv
<1>2. ASSUME NEW w \in Workers, GoesOn(w)
      PROVE  FilesInv' /\ UNCHANGED shared
  <2>1. PICK j \in Jobs : job[w] = j
    BY <1>2, BusyWorker
  <2>2. shared' = shared /\ link'[j] = {} /\ Owns(j)'
    BY <1>2, <2>1, GoesOnOwn
  <2>3. \A k \in Jobs \ {j} : Owns(k)' /\ link'[k] = link[k]
    BY <1>2, <2>1, OthersKeep DEF Owns, FilesInv
  <2>4. ASSUME NEW v \in Workers, job'[v] # NoJob
        PROVE  /\ link'[job'[v]] \subseteq LeftOver
               /\ pc'[v] # "clean" => link'[job'[v]] = {}
    <3>1. CASE v = w
      BY <1>2, <2>1, <2>2, <3>1, GoesOnKeeps
    <3>2. CASE v # w
      BY <1>2, <2>1, <2>3, <2>4, <3>2, GoesOnKeeps, ConstantsAssumption
      DEF FilesInv, Base, TypeOK, Occupied
    <3>. QED  BY <3>1, <3>2
  <2>. QED  BY <2>2, <2>3, <2>4 DEF FilesInv
<1>3. ASSUME NEW w \in Workers, Raises(w) \/ Leave(w) \/ LeaveFails(w)
      PROVE  FilesInv' /\ UNCHANGED shared
  <2>1. \A k \in Jobs : Owns(k)'
    BY <1>3, EndsOwn DEF FilesInv, Owns
  <2>2. ASSUME NEW v \in Workers, job'[v] # NoJob
        PROVE  /\ link'[job'[v]] \subseteq LeftOver
               /\ pc'[v] # "clean" => link'[job'[v]] = {}
    <3>1. v # w /\ job'[v] = job[v] /\ pc'[v] = pc[v] /\ link' = link
      BY <1>3, <2>2, EndsOwn DEF Base, TypeOK
    <3>. QED  BY <2>2, <3>1 DEF FilesInv
  <2>. QED  BY <1>3, <2>1, <2>2, EndsOwn DEF FilesInv
<1>4. CASE UNCHANGED vars
  BY <1>4 DEF vars, files, places, FilesInv, Owns
<1>. QED  BY <1>1, <1>2, <1>3, <1>4, NextSteps

LEMMA InitFiles == Init => FilesInv
BY ConstantsAssumption DEF Init, FilesInv, Owns, NoResult

\* What an Execution reports comes from the program of that very job, built with
\* that job's configuration, if make clean removes what earlier runs left.
THEOREM ResultsAreTheirOwn == Spec => []ResultsAreOwn
<1>. DEFINE I == Base /\ (CleansOutputs => FilesInv)
<1>1. Init => I
  BY InitBase, InitFiles
<1>2. I /\ [Next]_vars => I'
  BY StepBase, StepFiles DEF CleansOutputs
<1>3. I => ResultsAreOwn
  BY DEF FilesInv, Owns, ResultsAreOwn
<1>. QED  BY <1>1, <1>2, <1>3, PTL DEF Spec

\* No step of a job writes through a link into the application directory.
THEOREM ApplicationIsLeftAlone == Spec => ApplicationUntouched
<1>. DEFINE I == Base /\ (CleansOutputs => FilesInv)
<1>1. Init => I
  BY InitBase, InitFiles
<1>2. I /\ [Next]_vars => I'
  BY StepBase, StepFiles DEF CleansOutputs
<1>3. I /\ I' /\ [Next]_vars => [CleansOutputs => UNCHANGED shared]_vars
  BY StepFiles
<1>. QED  BY <1>1, <1>2, <1>3, PTL DEF Spec, ApplicationUntouched

-----------------------------------------------------------------------------
Truthful(e) ==
  /\ e.status = "ok" => e.output # Absent /\ e.roitime # Absent
  /\ e.status \in {"timeout", "error"} => e.output = Absent /\ e.roitime = Absent

\* What the Execution of a job holds when the job has come to step p.
Progress(p, e) ==
  /\ p \in {"clean", "configure", "build", "execute", "load"} => e = NoResult
  /\ p = "time" => e.status \in {"ok", "load"} /\ (e.status = "ok" => e.output # Absent)
  /\ p = "copy" => e.status \in {"ok", "load", "notime"} /\ Truthful(e)
  /\ p \in {"parse", "leave"} => Truthful(e)

StatusInv ==
  /\ \A j \in todo : result[j] = NoResult
  /\ \A w \in Workers : job[w] # NoJob => Progress(pc[w], result[job[w]])
  /\ \A j \in Jobs : Finished(j) => Truthful(result[j])

LEMMA GoesOnProgress ==
  ASSUME Base, NEW w \in Workers, GoesOn(w), NEW j \in Jobs, job[w] = j,
         Progress(pc[w], result[j])
  PROVE  Progress(pc'[w], result'[j])
<1>. USE DEF Base, Goto
<1>0. \A p : pc' = [pc EXCEPT ![w] = p] => pc'[w] = p
  BY DEF TypeOK
<1>1. CASE Clean(w) \/ Configure(w) \/ Build(w) \/ ExecuteEnds(w)
  BY <1>0, <1>1 DEF Clean, Configure, Build, ExecuteEnds, Progress
<1>2. CASE ExecuteFails(w) \/ ExecuteTimesOut(w)
  <2>1. pc'[w] \in {"parse", "leave"} /\ pc[w] = "execute"
    BY <1>0, <1>2 DEF ExecuteFails, ExecuteTimesOut, AfterRun
  <2>2. result[j] = NoResult
    BY <2>1 DEF Progress
  <2>3. result'[j].output = result[j].output /\ result'[j].roitime = result[j].roitime
        /\ result'[j].status \in {"timeout", "error"}
    BY <1>2, OnlyStatus DEF ExecuteFails, ExecuteTimesOut, Statuses, Base
  <2>. QED  BY <2>1, <2>2, <2>3 DEF Progress, Truthful, NoResult
<1>3. CASE Load(w)
  <2>1. pc'[w] = "time"
    BY <1>0, <1>3 DEF Load
  <2>2. PICK r \in Writers : r = Read(j, "output")
    BY ReadType DEF Files
  <2>3. CASE /\ r # Absent
             /\ result' = [result EXCEPT ![j].output = r, ![j].status = "ok"]
    <3>1. "ok" \in Statuses
      BY DEF Statuses
    <3>2. result'[j].output = r /\ result'[j].status = "ok"
      BY <2>3 DEF TypeOK
    <3>. QED  BY <2>1, <2>3, <3>2 DEF Progress
  <2>4. CASE result' = [result EXCEPT ![j].status = "load"]
    <3>1. result'[j].status = "load"
      BY <2>4 DEF TypeOK
    <3>. QED  BY <2>1, <3>1 DEF Progress
  <2>. QED  BY <1>3, <2>2, <2>3, <2>4 DEF Load
<1>4. CASE LoadTime(w)
  <2>1. pc'[w] = "copy" /\ pc[w] = "time"
    BY <1>0, <1>4 DEF LoadTime
  <2>2. Read(j, "time") \in Writers
    BY ReadType DEF Files
  <2>3. /\ result'[j].output = result[j].output
        /\ \/ result'[j].roitime # Absent /\ result'[j].status = result[j].status
           \/ result'[j].roitime = Absent /\ result'[j].status = "notime"
    BY <1>4, <2>2, TimeIsLoaded
  <2>. QED  BY <2>1, <2>3 DEF Progress, Truthful
<1>5. CASE Copy(w)
  <2>1. pc'[w] \in {"parse", "leave"} /\ pc[w] = "copy"
    BY <1>0, <1>5 DEF Copy, AfterRun
  <2>2. CASE UNCHANGED result
    BY <2>1, <2>2 DEF Progress
  <2>3. CASE result' = [result EXCEPT ![j].roitime = Absent, ![j].status = "copy"]
    <3>1. "copy" \in Statuses /\ Absent \in Writers
      BY DEF Statuses, Writers
    <3>2. TimeIsSet(j, Absent, "copy")
      BY <2>3 DEF TimeIsSet
    <3>3. result'[j].status = "copy"
      BY <3>1, <3>2, TimeAndStatus DEF Base
    <3>. QED  BY <2>1, <3>3 DEF Progress, Truthful
  <2>. QED  BY <1>5, <2>2, <2>3 DEF Copy
<1>6. CASE Parse(w)
  <2>1. pc'[w] = "leave" /\ pc[w] = "parse"
    BY <1>0, <1>6 DEF Parse
  <2>2. /\ result'[j].output = result[j].output /\ result'[j].roitime = result[j].roitime
        /\ result'[j].status = result[j].status
    BY <1>6 DEF Parse, TypeOK
  <2>. QED  BY <2>1, <2>2 DEF Progress, Truthful
<1>. QED  BY <1>1, <1>2, <1>3, <1>4, <1>5, <1>6 DEF GoesOn

LEMMA StepStatus == Base /\ Base' /\ StatusInv /\ [Next]_vars => StatusInv'
<1>. SUFFICES ASSUME Base, Base', StatusInv, [Next]_vars PROVE StatusInv'
  OBVIOUS
<1>1. ASSUME NEW w \in Workers, NEW j \in Jobs, Enter(w, j) PROVE StatusInv'
  <2>1. /\ UNCHANGED result /\ todo' = todo \ {j}
        /\ job[w] = NoJob /\ job'[w] = j /\ pc'[w] = "clean" /\ j \in todo
        /\ \A v \in Workers \ {w} : job'[v] = job[v] /\ pc'[v] = pc[v]
    BY <1>1 DEF Enter, Goto, Base, TypeOK, Occupied
  <2>2. \A v \in Workers : job'[v] # NoJob => Progress(pc'[v], result'[job'[v]])
    BY <2>1 DEF StatusInv, Progress
  <2>3. \A k \in Jobs : Finished(k)' => Finished(k)
    BY <2>1, ConstantsAssumption DEF Finished
  <2>. QED  BY <2>1, <2>2, <2>3 DEF StatusInv
<1>2. ASSUME NEW w \in Workers, GoesOn(w) PROVE StatusInv'
  <2>1. PICK j \in Jobs : job[w] = j
    BY <1>2, BusyWorker
  <2>2. UNCHANGED <<job, todo>> /\ \A k \in Jobs \ {j} : result'[k] = result[k]
    BY <1>2, <2>1, GoesOnKeeps, OthersKeep
  <2>3. Progress(pc'[w], result'[j])
    BY <1>2, <2>1, GoesOnProgress, ConstantsAssumption DEF StatusInv
  <2>4. ASSUME NEW v \in Workers, job'[v] # NoJob PROVE Progress(pc'[v], result'[job'[v]])
    <3>1. CASE v = w
      BY <2>1, <2>2, <2>3, <3>1
    <3>2. CASE v # w
      <4>1. job[v] \in Jobs \ {j} /\ pc'[v] = pc[v]
        BY <1>2, <2>1, <2>2, <2>4, <3>2, GoesOnKeeps DEF Base, TypeOK, Occupied
      <4>. QED  BY <2>2, <2>4, <4>1 DEF StatusInv
    <3>. QED  BY <3>1, <3>2
  <2>5. \A k \in Jobs : Finished(k)' => Finished(k) /\ k # j
    BY <2>1, <2>2 DEF Finished
  <2>6. \A k \in todo : k \in Jobs \ {j}
    BY <2>1 DEF Base, TypeOK, Occupied
  <2>. QED  BY <2>2, <2>4, <2>5, <2>6 DEF StatusInv
<1>3. ASSUME NEW w \in Workers, Raises(w) \/ Leave(w) \/ LeaveFails(w) PROVE StatusInv'
  <2>1. PICK j \in Jobs : job[w] = j
    BY <1>3, BusyWorker
  <2>2. \A k \in Jobs \ {j} : result'[k] = result[k]
    BY <1>3, <2>1, OthersKeep
  <2>3. UNCHANGED todo /\ job' = [job EXCEPT ![w] = NoJob] /\ pc' = [pc EXCEPT ![w] = "free"]
    BY <1>3, EndsOwn DEF Raises, BuildFails, LoadFuncsMissing, ParseFails, Raise,
                         Leave, LeaveFails
  <2>4. Truthful(result'[j])
    <3>1. CASE Leave(w)
      BY <2>1, <3>1, ConstantsAssumption DEF Leave, Goto, StatusInv, Progress
    <3>2. CASE Raises(w) \/ LeaveFails(w)
      <4>1. result' = [result EXCEPT ![j].status = "raised"]
        BY <2>1, <3>2 DEF Raises, BuildFails, LoadFuncsMissing, ParseFails, Raise, LeaveFails
      <4>2. result'[j].status = "raised"
        BY <4>1 DEF Base, TypeOK
      <4>. QED  BY <4>2 DEF Truthful
    <3>. QED  BY <1>3, <3>1, <3>2
  <2>5. ASSUME NEW v \in Workers, job'[v] # NoJob PROVE Progress(pc'[v], result'[job'[v]])
    <3>1. v # w /\ job'[v] = job[v] /\ pc'[v] = pc[v]
      BY <2>3, <2>5 DEF Base, TypeOK
    <3>2. job[v] \in Jobs \ {j}
      BY <2>1, <2>5, <3>1 DEF Base, TypeOK, Occupied
    <3>. QED  BY <2>2, <2>5, <3>1, <3>2 DEF StatusInv
  <2>6. \A k \in Jobs : Finished(k)' => Finished(k) \/ k = j
    BY <2>1, <2>3 DEF Finished, Base, TypeOK
  <2>7. \A k \in todo : k \in Jobs \ {j}
    BY <2>1 DEF Base, TypeOK, Occupied
  <2>. QED  BY <2>2, <2>3, <2>4, <2>5, <2>6, <2>7 DEF StatusInv
<1>4. CASE UNCHANGED vars
  BY <1>4 DEF vars, StatusInv, Finished
<1>. QED  BY <1>1, <1>2, <1>3, <1>4, NextSteps

\* A zero status means a usable execution, one with output and ROI time, and after
\* a timeout or an error both are missing.
THEOREM StatusesAreTrue == Spec => []StatusTellsTheTruth
<1>1. Init => StatusInv
  BY DEF Init, StatusInv, Finished
<1>2. StatusInv => StatusTellsTheTruth
  BY DEF StatusInv, StatusTellsTheTruth, Truthful
<1>. QED  BY InitBase, StepBase, <1>1, StepStatus, <1>2, PTL DEF Spec

-----------------------------------------------------------------------------
(* Judging and triage: domination is an order, and the report is a front   *)
(* that accounts for all the rest.                                         *)

Error == [sum : Nat, var : Nat]
Failures == {"timeout", "status", "score"}

-----------------------------------------------------------------------------
(* Uncertain numbers.                                                      *)

\* A step of the inequality below: one more number x, after n with the sum s and
\* the sum of squares q.
LEMMA SquareStep ==
  ASSUME NEW n \in Nat, NEW s \in Nat, NEW q \in Nat, NEW x \in Nat,
         n * q >= s * s, n = 0 => q = 0 /\ s = 0
  PROVE  (n + 1) * (q + x * x) >= (s + x) * (s + x)
<1>. DEFINE rest == q + n * (x * x) - 2 * (s * x)
<1>1. rest >= 0
  <2>1. CASE n = 0
    BY <2>1
  <2>2. CASE n > 0
    <3>. DEFINE d == s - n * x
    <3>1. d \in Int /\ d * d >= 0
      OBVIOUS
    <3>2. d * d = s * s - 2 * (n * (s * x)) + n * (n * (x * x))
      OBVIOUS
    <3>3. n * rest = n * q - 2 * (n * (s * x)) + n * (n * (x * x))
      OBVIOUS
    <3>4. n * rest >= d * d
      BY <3>2, <3>3
    <3>5. rest \in Int
      OBVIOUS
    <3>. HIDE DEF rest, d
    <3>6. n * rest >= 0
      BY <3>1, <3>4, <3>5
    <3>. QED  BY <2>2, <3>5, <3>6
  <2>. QED  BY <2>1, <2>2
<1>2. (n + 1) * (q + x * x) - (s + x) * (s + x) = (n * q - s * s) + rest
  OBVIOUS
<1>3. rest \in Int /\ n * q \in Int /\ s * s \in Int
  OBVIOUS
<1>. HIDE DEF rest
<1>4. (n * q - s * s) + rest >= 0
  BY <1>1, <1>3
<1>5. (n + 1) * (q + x * x) \in Int /\ (s + x) * (s + x) \in Int
  OBVIOUS
<1>. QED  BY <1>2, <1>4, <1>5

\* The square of a sum is at most the sum of the squares, as often as there are
\* numbers: the squared standard error of a mean is never negative.
LEMMA SquareOfSum ==
  ASSUME NEW S, IsFiniteSet(S), NEW f \in [S -> Nat], NEW g,
         \A x \in S : g[x] = f[x] * f[x]
  PROVE  Cardinality(S) * SumFunctionOnSet(g, S)
           >= SumFunctionOnSet(f, S) * SumFunctionOnSet(f, S)
<1>. DEFINE Holds(T) ==
              /\ Cardinality(T) * SumFunctionOnSet(g, T)
                   >= SumFunctionOnSet(f, T) * SumFunctionOnSet(f, T)
              /\ Cardinality(T) = 0 =>
                   SumFunctionOnSet(g, T) = 0 /\ SumFunctionOnSet(f, T) = 0
            P == {T \in SUBSET S : Holds(T)}
<1>0. \A x \in S : f[x] \in Nat /\ g[x] \in Nat
  OBVIOUS
<1>1. {} \in P
  BY SumOfNothing, FS_EmptySet
<1>2. ASSUME NEW T \in SUBSET S, NEW x \in T, T \ {x} \in P PROVE T \in P
  <2>1. IsFiniteSet(T) /\ IsFiniteSet(T \ {x})
    BY FS_Subset
  <2>2. PICK n \in Nat : n = Cardinality(T \ {x})
    BY <2>1, FS_CardinalityType
  <2>3. Cardinality(T) = n + 1
    BY <2>1, <2>2, FS_CardinalityType, FS_RemoveElement
  <2>4. PICK s \in Nat : s = SumFunctionOnSet(f, T \ {x})
    BY <1>0, <2>1, SumOfNaturals
  <2>5. PICK q \in Nat : q = SumFunctionOnSet(g, T \ {x})
    BY <1>0, <2>1, SumOfNaturals
  <2>6. SumFunctionOnSet(f, T) = s + f[x]
    <3>1. \A y \in T : f[y] \in Int
      BY <1>0
    <3>2. SumFunctionOnSet(f, T) = f[x] + SumFunctionOnSet(f, T \ {x})
      BY <2>1, <3>1, SumTakesOut
    <3>. QED  BY <1>0, <2>4, <3>2
  <2>7. SumFunctionOnSet(g, T) = q + f[x] * f[x]
    <3>1. \A y \in T : g[y] \in Int
      BY <1>0
    <3>2. SumFunctionOnSet(g, T) = g[x] + SumFunctionOnSet(g, T \ {x})
      BY <2>1, <3>1, SumTakesOut
    <3>. QED  BY <1>0, <2>5, <3>2
  <2>8. n * q >= s * s /\ (n = 0 => q = 0 /\ s = 0)
    BY <1>2, <2>2, <2>4, <2>5
  <2>9. (n + 1) * (q + f[x] * f[x]) >= (s + f[x]) * (s + f[x])
    BY <1>0, <2>8, SquareStep
  <2>. QED  BY <2>3, <2>6, <2>7, <2>9
<1>3. P \in SUBSET (SUBSET S)
  OBVIOUS
<1>. HIDE DEF P
<1>4. P = SUBSET S
  <2>1. \A T \in SUBSET S : (\E x \in T : T \ {x} \in P) => T \in P
    BY <1>2
  <2>. QED  BY <1>1, <1>3, <2>1, SetInduction
<1>. QED  BY <1>4 DEF P

LEMMA SumIsOnDomain ==
  ASSUME NEW f PROVE SumFunction(f) = SumFunctionOnSet(f, DOMAIN f)
BY Zenon DEF SumFunction

\* The mean of natural numbers and its squared error are natural numbers.
LEMMA UmeanType ==
  ASSUME NEW xs \in [1..Reps -> Nat]
  PROVE  Umean(xs) \in Error
<1>. DEFINE squares == [i \in DOMAIN xs |-> xs[i] * xs[i]]
            s == SumFunctionOnSet(xs, 1..Reps)
            q == SumFunctionOnSet(squares, 1..Reps)
<1>1. IsFiniteSet(1..Reps) /\ Cardinality(1..Reps) = Reps
  BY TriageAssumption, FS_Interval
<1>2. \A i \in 1..Reps : xs[i] \in Nat /\ squares[i] \in Nat
  OBVIOUS
<1>3. \A i \in 1..Reps : squares[i] = xs[i] * xs[i]
  OBVIOUS
<1>4. DOMAIN squares = 1..Reps /\ DOMAIN xs = 1..Reps
  OBVIOUS
<1>5. Umean(xs) = [sum |-> SumFunction(xs),
                   var |-> Reps * SumFunction(squares) - SumFunction(xs) * SumFunction(xs)]
  BY Zenon DEF Umean
<1>. HIDE DEF squares
<1>6. SumFunction(xs) = s /\ SumFunction(squares) = q
  BY <1>4, SumIsOnDomain
<1>7. s \in Nat /\ q \in Nat
  BY <1>1, <1>2, SumOfNaturals
<1>8. Reps * q >= s * s
  BY <1>1, <1>3, SquareOfSum
<1>. HIDE DEF s, q
<1>9. Reps * q \in Nat /\ s * s \in Nat
  BY <1>7, TriageAssumption
<1>10. Reps * q - s * s \in Nat
  BY <1>8, <1>9
<1>. QED  BY <1>5, <1>6, <1>7, <1>10 DEF Error

\* What an evaluation yields is a Result.
LEMMA EvaluateType ==
  ASSUME NEW rs \in [1..Reps -> Replica], NEW speedup \in Speedups
  PROVE  Evaluate(rs, speedup) \in Result
<1>1. speedup \in [v : Nat, e : Nat]
  BY TriageAssumption
<1>. DEFINE failing == {i \in DOMAIN rs : rs[i].status # "ok"}
            numbers == [i \in DOMAIN rs |-> IF rs[i].scored = "nan" THEN FullError ELSE rs[i].score]
            error == Umean(numbers)
            slow == ~Simulate /\ ~(speedup.v - speedup.e > NoSpeedup)
            judged == [good |-> ~ErrorExceeds(error, MaxError) /\ ~slow,
                       safe |-> ~ErrorExceeds(error, MaxError),
                       desc |-> IF ErrorExceeds(error, MaxError) THEN "error"
                                ELSE IF slow THEN "slow" ELSE "good",
                       error |-> error, speedup |-> speedup]
<1>2. \A i \in 1..Reps : rs[i].status \in Failures \cup {"ok"} /\ rs[i].score \in Nat
  <2>1. ASSUME NEW r \in Replica PROVE r.status \in Failures \cup {"ok"} /\ r.score \in Nat
    <3>1. \/ r \in [status : {"timeout", "status"}, scored : {"no"}, score : {0}]
          \/ r \in [status : {"ok"}, scored : {"raise", "nan"}, score : {0}]
          \/ r \in [status : {"ok"}, scored : {"number"}, score : Scores]
      BY DEF Replica
    <3>2. CASE r \in [status : {"timeout", "status"}, scored : {"no"}, score : {0}]
      BY <3>2 DEF Failures
    <3>3. CASE r \in [status : {"ok"}, scored : {"raise", "nan"}, score : {0}]
      BY <3>3
    <3>4. CASE r \in [status : {"ok"}, scored : {"number"}, score : Scores]
      <4>1. r.score \in Scores /\ r.status = "ok"
        BY <3>4
      <4>2. Scores \subseteq Nat
        BY TriageAssumption
      <4>. QED  BY <4>1, <4>2
    <3>. QED  BY <3>1, <3>2, <3>3, <3>4
  <2>. QED  BY <2>1
<1>3. failing # {} => FirstFailure(rs) \in Failures
  <2>. SUFFICES ASSUME failing # {} PROVE FirstFailure(rs) \in Failures
    OBVIOUS
  <2>1. failing \in SUBSET Nat
    OBVIOUS
  <2>2. \E i \in failing : \A j \in failing : i <= j
    <3>. HIDE DEF failing
    <3>. QED  BY <2>1, LeastNatural
  <2>. QED  BY <1>2, <2>2 DEF FirstFailure
<1>4. \A desc \in Failures : Rejected(desc) \in Result
  BY DEF Rejected, NoError, Result, Failures
<1>5. judged \in Result
  <2>1. numbers \in [1..Reps -> Nat]
    BY <1>2, TriageAssumption
  <2>. HIDE DEF numbers
  <2>2. error \in Error
    BY <2>1, UmeanType
  <2>. HIDE DEF error
  <2>3. ErrorExceeds(error, MaxError) \in BOOLEAN
    BY DEF ErrorExceeds
  <2>. QED  BY <1>1, <2>2, <2>3 DEF Result, Error
<1>6. \/ failing # {} /\ Evaluate(rs, speedup) = Rejected(FirstFailure(rs))
      \/ Evaluate(rs, speedup) = Rejected("score")
      \/ Evaluate(rs, speedup) = judged
  BY DEF Evaluate
<1>. HIDE DEF failing, judged
<1>7. "score" \in Failures
  BY DEF Failures
<1>. QED  BY <1>3, <1>4, <1>5, <1>6, <1>7

-----------------------------------------------------------------------------
\* The interval order of the errors is transitive.  In terms of the squares: with
\* d1, d2 the distances of the means, r1 + 2 R d1 d2 + r2 is what remains of the
\* square of their sum, and its square exceeds 4 (R d1 d1) (R d2 d2).
LEMMA ErrorLessIsTransitive ==
  ASSUME NEW a \in Error, NEW b \in Error, NEW c \in Error,
         ErrorLess(a, b), ErrorLess(b, c)
  PROVE  ErrorLess(a, c)
<1>. DEFINE d1 == b.sum - a.sum
            d2 == c.sum - b.sum
            x == Reps * d1 * d1
            y == Reps * d2 * d2
            z == Reps * d1 * d2
            d == c.sum - a.sum
            r == Reps * d * d - a.var - c.var
<1>0. Reps \in Nat /\ a.var \in Nat /\ b.var \in Nat /\ c.var \in Nat
  BY TriageAssumption DEF Error
<1>1. d1 \in Int /\ d2 \in Int /\ d1 > 0 /\ d2 > 0 /\ d = d1 + d2
  BY DEF ErrorLess, Error
<1>2. x \in Int /\ y \in Int /\ z \in Int
  BY <1>0, <1>1
<1>3. x - a.var - b.var > 0 /\ y - b.var - c.var > 0
  BY DEF ErrorLess
<1>4. z >= 0
  <2>. HIDE DEF d1, d2
  <2>1. Reps * d1 >= 0 /\ Reps * d1 \in Int
    BY <1>0, <1>1
  <2>. QED  BY <1>1, <2>1
<1>5. Reps * d * d = x + 2 * z + y
  <2>1. Reps * (d1 + d2) * (d1 + d2)
          = Reps * d1 * d1 + 2 * (Reps * d1 * d2) + Reps * d2 * d2
    <3>. HIDE DEF d1, d2
    <3>. QED  BY <1>0, <1>1
  <2>. HIDE DEF d, d1, d2
  <2>. QED  BY <1>1, <2>1
<1>6. x * y = z * z
  <2>. HIDE DEF d1, d2
  <2>. QED  BY <1>0, <1>1
<1>. HIDE DEF x, y, z, d1, d2, d
<1>7. r = (x - a.var) + 2 * z + (y - c.var) /\ r \in Int
  BY <1>0, <1>2, <1>5
<1>8. r > 2 * z /\ x > a.var /\ y > c.var
  BY <1>0, <1>2, <1>3, <1>4, <1>7
<1>. HIDE DEF r
<1>9. r * r > 4 * (z * z)
  <2>1. r * r > (2 * z) * (2 * z)
    BY <1>2, <1>4, <1>7, <1>8
  <2>. QED  BY <1>2, <2>1
<1>10. x * y >= a.var * c.var
  BY <1>0, <1>2, <1>8
<1>11. r * r > 4 * a.var * c.var
  <2>1. z * z \in Int /\ r * r \in Int /\ a.var * c.var \in Int
    BY <1>0, <1>2, <1>7
  <2>2. r * r > 4 * (a.var * c.var)
    BY <1>6, <1>9, <1>10, <2>1
  <2>. QED  BY <1>0, <2>2
<1>12. d > 0 /\ r > 0
  BY <1>1, <1>2, <1>4, <1>7, <1>8 DEF d, d1, d2
<1>. QED  BY <1>11, <1>12 DEF ErrorLess, d, r

\* So is domination, and a dominator has the smaller mean error.
LEMMA DominationIsOrder ==
  ASSUME TriageTypeOK, NEW i \in Good, NEW j \in Good, NEW k \in Good,
         Dominates(i, j), Dominates(j, k)
  PROVE  Dominates(i, k)
<1>1. \A n \in Good : results[n] \in Result
  BY DEF TriageTypeOK, Good
<1>2. ErrorLess(results[i].error, results[k].error)
  BY <1>1, ErrorLessIsTransitive DEF Dominates, Result, Error
<1>3. Faster(results[i].speedup, results[k].speedup)
  BY <1>1 DEF Dominates, Faster, Result
<1>. QED  BY <1>2, <1>3 DEF Dominates

LEMMA DominatorErrs ==
  ASSUME TriageTypeOK, NEW i \in Good, NEW j \in Good, Dominates(i, j)
  PROVE  /\ results[i].error.sum \in Nat /\ results[j].error.sum \in Nat
         /\ results[i].error.sum < results[j].error.sum
<1>1. results[i] \in Result /\ results[j] \in Result
  BY DEF TriageTypeOK, Good
<1>2. results[i].error.sum \in Nat /\ results[j].error.sum \in Nat
  BY <1>1 DEF Result
<1>. QED  BY <1>2 DEF Dominates, ErrorLess

\* What is dominated is dominated by a result that nothing dominates.
LEMMA BestDominator ==
  ASSUME TriageTypeOK, NEW i \in Good, NEW h \in Good, Dominates(h, i)
  PROVE  \E j \in Good : Dominates(j, i) /\ \A k \in Good : ~Dominates(k, j)
<1>. DEFINE above == {j \in Good : Dominates(j, i)}
            sums == {results[j].error.sum : j \in above}
<1>1. sums \in SUBSET Nat /\ sums # {}
  BY DominatorErrs
<1>. HIDE DEF sums
<1>2. PICK s \in sums : \A t \in sums : s <= t
  BY <1>1, LeastNatural
<1>3. PICK j \in above : results[j].error.sum = s
  BY <1>2 DEF sums
<1>4. ASSUME NEW k \in Good, Dominates(k, j) PROVE FALSE
  <2>1. k \in above
    BY <1>3, <1>4, DominationIsOrder
  <2>2. s <= results[k].error.sum
    BY <1>2, <2>1 DEF sums
  <2>3. /\ results[k].error.sum \in Nat /\ results[j].error.sum \in Nat
        /\ results[k].error.sum < results[j].error.sum
    BY <1>4, DominatorErrs
  <2>. QED  BY <1>3, <2>2, <2>3
<1>. QED  BY <1>3, <1>4

-----------------------------------------------------------------------------
LEMMA AppendAdds ==
  ASSUME NEW S, NEW s \in Seq(S), NEW x \in S
  PROVE  /\ Append(s, x) \in Seq(S) /\ Len(Append(s, x)) = Len(s) + 1
         /\ ToSet(Append(s, x)) = ToSet(s) \cup {x}
<1>1. /\ DOMAIN Append(s, x) = 1..(Len(s) + 1) /\ DOMAIN s = 1..Len(s)
      /\ Append(s, x)[Len(s) + 1] = x /\ \A i \in DOMAIN s : Append(s, x)[i] = s[i]
      /\ Len(s) \in Nat
  OBVIOUS
<1>2. ToSet(Append(s, x)) \subseteq ToSet(s) \cup {x}
  BY <1>1 DEF ToSet
<1>3. x \in ToSet(Append(s, x))
  BY <1>1 DEF ToSet
<1>4. ToSet(s) \subseteq ToSet(Append(s, x))
  BY <1>1 DEF ToSet
<1>. QED  BY <1>2, <1>3, <1>4

\* Nothing is triaged before all results are there.
Begun == Len(results) <= N /\ (Len(results) < N => pos = 1 /\ optimal = << >> /\ suboptimal = << >>)

\* The loop has put each good result that it has met into one of the lists.
Placed ==
  /\ ToSet(optimal) \cup ToSet(suboptimal) = {i \in Good : i < pos}
  /\ ToSet(optimal) \cap ToSet(suboptimal) = {}

\* The optimal results so far are a front.
FrontSoFar ==
  \A i \in ToSet(optimal) :
    /\ \A j \in Good : ~Dominates(j, i)
    /\ \A j \in ToSet(optimal) \ {i} : ~Similar(i, j)

\* A result was set aside for one that dominates it, which may be set aside itself,
\* or for one that is optimal, and stays so.
Explained ==
  \A i \in ToSet(suboptimal) :
    \/ \E j \in Good : Dominates(j, i)
    \/ \E k \in ToSet(optimal) : Similar(k, i)

\* Each result that the loop has met counts once.
BadSoFar == {i \in Bad : i < pos}
Counted ==
  Len(optimal) + Len(suboptimal) + Cardinality(BadSoFar) = IF pos <= N THEN pos - 1 ELSE N

TriageInv == TriageTypeOK /\ Begun /\ Placed /\ FrontSoFar /\ Explained /\ Counted

LEMMA InitTriageInv == TriageInit => TriageInv
<1>. SUFFICES ASSUME TriageInit PROVE TriageInv
  OBVIOUS
<1>. USE TriageAssumption DEF TriageInit
<1>1. TriageTypeOK /\ Begun
  BY DEF TriageTypeOK, Begun
<1>2. Placed /\ FrontSoFar /\ Explained
  BY DEF Placed, FrontSoFar, Explained, ToSet, Good
<1>3. Counted
  <2>1. BadSoFar = {}
    BY DEF Bad, BadSoFar
  <2>. QED  BY <2>1, FS_EmptySet DEF Counted
<1>. QED  BY <1>1, <1>2, <1>3 DEF TriageInv

LEMMA EvaluateKeeps ==
  ASSUME TriageInv, EvaluateNext PROVE TriageInv'
<1>. USE TriageAssumption DEF EvaluateNext
<1>1. PICK r \in Result : results' = Append(results, r)
  BY EvaluateType
<1>2. /\ pos = 1 /\ optimal = << >> /\ suboptimal = << >>
      /\ UNCHANGED <<pos, optimal, suboptimal, tested>>
  BY DEF TriageInv, Begun
<1>3. TriageTypeOK' /\ Begun'
  BY <1>1, <1>2 DEF TriageInv, TriageTypeOK, Begun
<1>4. Placed' /\ FrontSoFar' /\ Explained'
  BY <1>2, <1>3 DEF Placed, FrontSoFar, Explained, ToSet, Good, TriageTypeOK
<1>5. Counted'
  <2>1. BadSoFar' = {}
    BY <1>2, <1>3 DEF Bad, BadSoFar, TriageTypeOK
  <2>. QED  BY <1>2, <2>1, FS_EmptySet DEF Counted
<1>. QED  BY <1>3, <1>4, <1>5 DEF TriageInv

LEMMA SimilarIsSymmetric ==
  ASSUME TriageTypeOK, NEW i \in Good, NEW j \in Good
  PROVE  Similar(i, j) <=> Similar(j, i)
<1>1. results[i] \in Result /\ results[j] \in Result
  BY DEF TriageTypeOK, Good
<1>. QED  BY <1>1 DEF Similar, Distance, Result

LEMMA TriageKeeps ==
  ASSUME TriageInv, PlaceNext PROVE TriageInv'
<1>. USE TriageAssumption
<1>0. /\ pos \in 1..N /\ pos' = pos + 1 /\ UNCHANGED <<results, tested>>
      /\ Len(results) = N /\ Good' = Good /\ Bad' = Bad /\ tested \in Seq(1..N)
      /\ optimal \in Seq(1..N) /\ suboptimal \in Seq(1..N) /\ results \in Seq(Result)
  BY DEF TriageInv, TriageTypeOK, Good, Bad, PlaceNext
<1>1. \A j, k : (Dominates(j, k)' <=> Dominates(j, k)) /\ (Similar(j, k)' <=> Similar(j, k))
  BY <1>0 DEF Dominates, Similar
<1>2. /\ Len(optimal) \in Nat /\ Len(suboptimal) \in Nat
      /\ IsFiniteSet(BadSoFar) /\ Cardinality(BadSoFar) \in Nat /\ pos \in Nat
  <2>1. BadSoFar \in SUBSET (1..N)
    BY <1>0 DEF BadSoFar, Bad
  <2>1a. IsFiniteSet(1..N)
    <3>1. 1 \in Int /\ N \in Int
      OBVIOUS
    <3>. QED  BY <3>1, FS_Interval, Zenon
  <2>2. IsFiniteSet(BadSoFar)
    BY <2>1, <2>1a, FS_Subset
  <2>. QED  BY <1>0, <2>2, FS_CardinalityType
<1>2a. PICK o \in Nat, u \in Nat, b \in Nat, p \in Nat :
         o = Len(optimal) /\ u = Len(suboptimal) /\ b = Cardinality(BadSoFar) /\ p = pos
  BY <1>2
<1>3. pos \notin ToSet(optimal) /\ pos \notin ToSet(suboptimal)
  BY <1>0 DEF TriageInv, Placed
<1>4. o + u + b = p - 1
  BY <1>0, <1>2a DEF TriageInv, Counted
<1>4a. o + 1 + u + b = p /\ o + (u + 1) + b = p /\ o + u + (b + 1) = p
  BY <1>4
<1>5. (IF pos' <= N THEN pos' - 1 ELSE N) = pos
  <2>1. pos' = pos + 1 /\ pos \in 1..N
    BY <1>0
  <2>. QED  BY <2>1
<1>6. CASE pos \notin Good /\ UNCHANGED <<optimal, suboptimal>>
  <2>1. TriageTypeOK' /\ Begun'
    BY <1>0, <1>6 DEF TriageInv, TriageTypeOK, Begun
  <2>2. {i \in Good' : i < pos'} = {i \in Good : i < pos}
    BY <1>0, <1>6 DEF Good
  <2>3. Placed' /\ FrontSoFar' /\ Explained'
    <3>1. optimal' = optimal /\ suboptimal' = suboptimal
      BY <1>6
    <3>2. Placed'
      BY <2>2, <3>1 DEF TriageInv, Placed
    <3>3. FrontSoFar'
      BY <1>0, <1>1, <3>1 DEF TriageInv, FrontSoFar
    <3>4. Explained'
      BY <1>0, <1>1, <3>1 DEF TriageInv, Explained
    <3>. QED  BY <3>2, <3>3, <3>4
  <2>4. BadSoFar' = BadSoFar \cup {pos} /\ pos \notin BadSoFar
    BY <1>0, <1>6 DEF BadSoFar, Bad, Good
  <2>5. Cardinality(BadSoFar \cup {pos}) = Cardinality(BadSoFar) + 1
    BY <1>2, <2>4, FS_AddElement
  <2>6. Counted'
    <3>1. optimal' = optimal /\ suboptimal' = suboptimal
      BY <1>6
    <3>2. Cardinality(BadSoFar') = Cardinality(BadSoFar) + 1
      BY <2>4, <2>5
    <3>3. Len(optimal') = Len(optimal) /\ Len(suboptimal') = Len(suboptimal)
      BY <3>1
    <3>4. Len(optimal') + Len(suboptimal') + Cardinality(BadSoFar') = pos
      BY <1>2a, <1>4a, <3>2, <3>3
    <3>. QED  BY <1>5, <3>4 DEF Counted
  <2>. QED  BY <2>1, <2>3, <2>6 DEF TriageInv
<1>7. CASE pos \in Good /\ SetAside(pos)
  <2>1. suboptimal' = Append(suboptimal, pos) /\ optimal' = optimal
    BY <1>7 DEF PlaceNext
  <2>2. /\ suboptimal' \in Seq(1..N) /\ Len(suboptimal') = Len(suboptimal) + 1
        /\ ToSet(suboptimal') = ToSet(suboptimal) \cup {pos}
    BY <1>0, <2>1, AppendAdds
  <2>3. TriageTypeOK' /\ Begun'
    BY <1>0, <2>1, <2>2 DEF TriageInv, TriageTypeOK, Begun
  <2>4. {i \in Good' : i < pos'} = {i \in Good : i < pos} \cup {pos}
    BY <1>0, <1>7 DEF Good
  <2>5. Placed'
    BY <1>3, <2>1, <2>2, <2>4 DEF TriageInv, Placed
  <2>6. FrontSoFar'
    BY <1>0, <1>1, <2>1 DEF TriageInv, FrontSoFar
  <2>7. \/ \E j \in Good : Dominates(j, pos)
        \/ \E k \in ToSet(optimal) : Similar(k, pos)
    BY <1>7 DEF SetAside
  <2>8. Explained'
    <3>1. Good' = Good /\ ToSet(suboptimal') = ToSet(suboptimal) \cup {pos}
      BY <1>0, <2>2
    <3>2. Explained
      BY DEF TriageInv
    <3>. QED  BY <1>1, <2>1, <2>7, <3>1, <3>2 DEF Explained
  <2>9. BadSoFar' = BadSoFar
    BY <1>0, <1>7 DEF BadSoFar, Bad, Good
  <2>10. Counted'
    <3>1. Len(optimal') = Len(optimal) /\ Len(suboptimal') = Len(suboptimal) + 1
      BY <2>1, <2>2
    <3>2. Cardinality(BadSoFar') = Cardinality(BadSoFar)
      BY <2>9
    <3>3. Len(optimal') + Len(suboptimal') + Cardinality(BadSoFar') = pos
      BY <1>2a, <1>4a, <3>1, <3>2
    <3>. QED  BY <1>5, <3>3 DEF Counted
  <2>. QED  BY <2>3, <2>5, <2>6, <2>8, <2>10 DEF TriageInv
<1>8. CASE pos \in Good /\ ~SetAside(pos)
  <2>1. optimal' = Append(optimal, pos) /\ suboptimal' = suboptimal
    BY <1>8 DEF PlaceNext
  <2>2. /\ optimal' \in Seq(1..N) /\ Len(optimal') = Len(optimal) + 1
        /\ ToSet(optimal') = ToSet(optimal) \cup {pos}
    BY <1>0, <2>1, AppendAdds
  <2>3. TriageTypeOK' /\ Begun'
    BY <1>0, <2>1, <2>2 DEF TriageInv, TriageTypeOK, Begun
  <2>4. {i \in Good' : i < pos'} = {i \in Good : i < pos} \cup {pos}
    BY <1>0, <1>8 DEF Good
  <2>5. Placed'
    BY <1>3, <2>1, <2>2, <2>4 DEF TriageInv, Placed
  <2>6. FrontSoFar'
    <3>1. ToSet(optimal) \subseteq Good
      BY DEF TriageInv, Placed
    <3>2. /\ \A j \in Good : ~Dominates(j, pos)
          /\ \A j \in ToSet(optimal) : ~Similar(j, pos)
      BY <1>8, <3>1 DEF SetAside
    <3>3. \A j \in ToSet(optimal) : ~Similar(pos, j)
      BY <1>8, <3>1, <3>2, SimilarIsSymmetric DEF TriageInv
    <3>. QED  BY <1>0, <1>1, <2>2, <3>1, <3>2, <3>3 DEF TriageInv, FrontSoFar
  <2>7. Explained'
    BY <1>0, <1>1, <2>1, <2>2 DEF TriageInv, Explained
  <2>8. BadSoFar' = BadSoFar
    BY <1>0, <1>8 DEF BadSoFar, Bad, Good
  <2>9. Counted'
    <3>1. Len(suboptimal') = Len(suboptimal) /\ Len(optimal') = Len(optimal) + 1
      BY <2>1, <2>2
    <3>2. Cardinality(BadSoFar') = Cardinality(BadSoFar)
      BY <2>8
    <3>3. Len(optimal') + Len(suboptimal') + Cardinality(BadSoFar') = pos
      BY <1>2a, <1>4a, <3>1, <3>2
    <3>. QED  BY <1>5, <3>3 DEF Counted
  <2>. QED  BY <2>3, <2>5, <2>6, <2>7, <2>9 DEF TriageInv
<1>. QED  BY <1>6, <1>7, <1>8 DEF PlaceNext

LEMMA SortKeeps ==
  ASSUME TriageInv, SortOptimal PROVE TriageInv'
<1>. USE TriageAssumption
<1>0. /\ pos = N + 1 /\ pos' = N + 2 /\ UNCHANGED <<results, suboptimal, tested>>
      /\ Len(results) = N /\ Good' = Good /\ Bad' = Bad
      /\ tested \in Seq(1..N) /\ suboptimal \in Seq(1..N) /\ results \in Seq(Result)
  BY DEF TriageInv, TriageTypeOK, Good, Bad, SortOptimal
<1>1. \A j, k : (Dominates(j, k)' <=> Dominates(j, k)) /\ (Similar(j, k)' <=> Similar(j, k))
  BY <1>0 DEF Dominates, Similar
<1>2. optimal' \in Seq(1..N) /\ Len(optimal') = Len(optimal) /\ ToSet(optimal') = ToSet(optimal)
  <2>1. optimal \in Seq(1..N)
    BY DEF TriageInv, TriageTypeOK
  <2>2. ToSet(optimal) \subseteq 1..N /\ DOMAIN optimal = 1..Len(optimal) /\ Len(optimal) \in Nat
    BY <2>1 DEF ToSet
  <2>3. optimal' \in [1..Len(optimal) -> 1..N]
    BY <2>2 DEF SortOptimal
  <2>. QED  BY <2>2, <2>3 DEF SortOptimal
<1>3. TriageTypeOK' /\ Begun'
  BY <1>0, <1>2 DEF TriageInv, TriageTypeOK, Begun
<1>4. {i \in Good' : i < pos'} = {i \in Good : i < pos} /\ BadSoFar' = BadSoFar
  BY <1>0 DEF Good, Bad, BadSoFar
<1>5. Placed'
  BY <1>0, <1>2, <1>4 DEF TriageInv, Placed
<1>6. FrontSoFar'
  BY <1>0, <1>1, <1>2 DEF TriageInv, FrontSoFar
<1>7. Explained'
  BY <1>0, <1>1, <1>2 DEF TriageInv, Explained
<1>8. Counted'
  BY <1>0, <1>2, <1>4 DEF TriageInv, Counted
<1>. QED  BY <1>3, <1>5, <1>6, <1>7, <1>8 DEF TriageInv

LEMMA StepTriageInv == TriageInv /\ [TriageNext]_triageVars => TriageInv'
<1>. SUFFICES ASSUME TriageInv, [TriageNext]_triageVars PROVE TriageInv'
  OBVIOUS
<1>1. CASE TestResults \/ UNCHANGED triageVars
  <2>1. UNCHANGED <<results, pos, optimal, suboptimal>>
    BY <1>1 DEF TestResults, triageVars
  <2>2. TriageTypeOK'
    <3>1. tested' \in Seq(1..N)
      <4>1. {optimal, suboptimal, tested} \subseteq Seq(1..N)
        BY DEF TriageInv, TriageTypeOK
      <4>2. tested' = optimal \o suboptimal \/ tested' = tested
        BY <1>1 DEF TestResults, triageVars
      <4>3. optimal \in Seq(1..N) /\ suboptimal \in Seq(1..N) /\ tested \in Seq(1..N)
        BY <4>1
      <4>4. optimal \o suboptimal \in Seq(1..N)
        BY <4>3
      <4>. QED  BY <4>2, <4>3, <4>4
    <3>. QED  BY <2>1, <3>1 DEF TriageInv, TriageTypeOK
  <2>3. Good' = Good /\ BadSoFar' = BadSoFar
    BY <2>1 DEF Good, Bad, BadSoFar
  <2>4. \A j, k : (Dominates(j, k)' <=> Dominates(j, k)) /\ (Similar(j, k)' <=> Similar(j, k))
    BY <2>1 DEF Dominates, Similar
  <2>5. Begun' /\ Placed' /\ Counted'
    BY <2>1, <2>3 DEF TriageInv, Begun, Placed, Counted
  <2>6. FrontSoFar' /\ Explained'
    BY <2>1, <2>3, <2>4 DEF TriageInv, FrontSoFar, Explained
  <2>. QED  BY <2>2, <2>5, <2>6 DEF TriageInv
<1>. QED  BY <1>1, EvaluateKeeps, TriageKeeps, SortKeeps DEF TriageNext

\* The inductive invariant of the loop, which the theorems below rest on.
THEOREM TriageInvariance == TriageSpec => []TriageInv
BY InitTriageInv, StepTriageInv, PTL DEF TriageSpec

\* The variables keep their types; the variance of a mean is a natural number.
THEOREM TriageTypeCorrect == TriageSpec => []TriageTypeOK
<1>1. TriageInv => TriageTypeOK
  BY DEF TriageInv
<1>. QED  BY TriageInvariance, <1>1, PTL

\* The assertion at the end of triage_results never fails, and the three lists
\* hold every result.
THEOREM AssertionHolds == TriageSpec => []IsPartition
<1>1. TriageInv => IsPartition
  <2>. SUFFICES ASSUME TriageInv, Triaged PROVE /\ Len(optimal) + Len(suboptimal) + Cardinality(Bad) = N
                                           /\ ToSet(optimal) \cup ToSet(suboptimal) \cup Bad = 1..N
    BY DEF IsPartition
  <2>1. pos = N + 2 /\ Len(results) = N /\ results \in Seq(Result) /\ N \in Nat
    BY TriageAssumption DEF Triaged, TriageInv, TriageTypeOK
  <2>2. BadSoFar = Bad /\ {i \in Good : i < pos} = Good /\ Good \cup Bad = 1..N
    BY <2>1 DEF BadSoFar, Bad, Good
  <2>3. Len(optimal) + Len(suboptimal) + Cardinality(Bad) = N
    BY <2>1, <2>2 DEF TriageInv, Counted
  <2>. QED  BY <2>2, <2>3 DEF TriageInv, Placed
<1>. QED  BY TriageInvariance, <1>1, PTL

\* What is reported as optimal is a front.
THEOREM OptimalFront == TriageSpec => []OptimalIsFront
<1>1. TriageInv => OptimalIsFront
  BY DEF TriageInv, FrontSoFar, OptimalIsFront
<1>. QED  BY TriageInvariance, <1>1, PTL

\* Everything good is accounted for by what is shown: if something dominates a
\* result, then something that nothing dominates does, and that is optimal or was
\* set aside for an optimal one.
THEOREM GoodCovered == TriageSpec => []GoodIsCovered
<1>1. TriageInv => GoodIsCovered
  <2>. SUFFICES ASSUME TriageInv, Triaged, NEW i \in Good
                PROVE  \E j \in Good : /\ j = i \/ Dominates(j, i)
                                       /\ \E k \in ToSet(optimal) : k = j \/ Similar(k, j)
    BY DEF GoodIsCovered
  <2>1. TriageTypeOK /\ ToSet(optimal) \cup ToSet(suboptimal) = Good
    BY TriageAssumption DEF TriageInv, Triaged, TriageTypeOK, Placed, Good
  <2>2. ASSUME NEW j \in Good, \A k \in Good : ~Dominates(k, j)
        PROVE  \E k \in ToSet(optimal) : k = j \/ Similar(k, j)
    BY <2>1, <2>2 DEF TriageInv, Explained
  <2>3. CASE \A h \in Good : ~Dominates(h, i)
    BY <2>2, <2>3
  <2>4. CASE \E h \in Good : Dominates(h, i)
    <3>1. PICK j \in Good : Dominates(j, i) /\ \A k \in Good : ~Dominates(k, j)
      BY <2>1, <2>4, BestDominator
    <3>. QED  BY <2>2, <3>1
  <2>. QED  BY <2>3, <2>4
<1>. QED  BY TriageInvariance, <1>1, PTL
=============================================================================
