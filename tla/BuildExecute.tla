---------------------------- MODULE BuildExecute ----------------------------
(***************************************************************************)
(* build_and_execute of accept/core.py, the job that every measurement     *)
(* runs: enter a sandbox of symbolic links to the application directory,   *)
(* make clean, write the configuration, build, run, collect, leave.        *)
(*                                                                         *)
(* Several workers (processes of the cluster, or the one main thread) run  *)
(* jobs at the same time, and share the application directory: what is     *)
(* written through a link that make clean has not removed lands there.  A  *)
(* worker survives the exception of a job and takes the next one.          *)
(***************************************************************************)
EXTENDS Naturals, FiniteSets

CONSTANTS
  Workers,     \* the processes that execute jobs
  Jobs,        \* the calls of build_and_execute
  Approx,      \* the jobs that have a relaxation configuration
  LeftOver,    \* the files that earlier runs by hand left in the directory
  CleanMeToo,  \* the files of the Makefile's own that make clean removes
  NoJob

Files == {"config", "time", "output"}

ASSUME ConstantsAssumption ==
  /\ Approx \subseteq Jobs
  /\ LeftOver \subseteq Files /\ CleanMeToo \subseteq {"output"}
  /\ NoJob \notin Jobs

VARIABLES
  pc, job,   \* per worker: its step, and the job it executes
  cwd,       \* per worker: "home", "app", or the job in whose sandbox it stands
  olddir,    \* per worker: the working directory chdir means to restore
  orphan,    \* per worker: the program of a timed-out run may still be running
  todo,      \* the jobs nobody has taken
  shared,    \* who wrote each file of the application directory
  sandboxes, \* the jobs whose sandbox directory exists
  link,      \* per job: the files of its sandbox that are links
  own,       \* per job: who wrote each file that is no link
  binary,    \* per job: the configuration its program was built with
  result     \* per job: the Execution, or the exception

places == <<cwd, olddir, sandboxes>>
files == <<shared, link, own>>
vars == <<pc, job, orphan, todo, places, files, binary, result>>

Absent == "absent"
Stale == "stale"                     \* written by an earlier run
NoResult == [output |-> Absent, roitime |-> Absent, status |-> "none",
             config |-> Absent]
Statuses == {"none", "ok", "timeout", "error", "load", "notime", "copy", "raised"}
Writers == Jobs \cup {Absent, Stale}
Executions == [output : Writers, roitime : Writers, status : Statuses, config : Writers]

TypeOK ==
  /\ pc \in [Workers -> {"free", "clean", "configure", "build", "execute", "load",
                         "time", "copy", "parse", "leave"}]
  /\ job \in [Workers -> Jobs \cup {NoJob}]
  /\ cwd \in [Workers -> Jobs \cup {"home", "app"}]
  /\ olddir \in [Workers -> Jobs \cup {"home", "app"}]
  /\ orphan \in [Workers -> BOOLEAN]
  /\ todo \in SUBSET Jobs /\ sandboxes \in SUBSET Jobs
  /\ shared \in [Files -> Writers]
  /\ link \in [Jobs -> SUBSET Files]
  /\ own \in [Jobs -> [Files -> Writers]]
  /\ binary \in [Jobs -> Writers \cup {"precise"}]
  /\ result \in [Jobs -> Executions]

Init ==
  /\ pc = [w \in Workers |-> "free"]
  /\ job = [w \in Workers |-> NoJob]
  /\ cwd = [w \in Workers |-> "home"]
  /\ olddir = [w \in Workers |-> "home"]
  /\ orphan = [w \in Workers |-> FALSE]
  /\ todo = Jobs
  /\ shared = [f \in Files |-> IF f \in LeftOver THEN Stale ELSE Absent]
  /\ sandboxes = {}
  /\ link = [j \in Jobs |-> {}]
  /\ own = [j \in Jobs |-> [f \in Files |-> Absent]]
  /\ binary = [j \in Jobs |-> Absent]
  /\ result = [j \in Jobs |-> NoResult]

-----------------------------------------------------------------------------
(* The file system, as a job in its sandbox sees it.                       *)

Read(j, f) == IF f \in link[j] THEN shared[f] ELSE own[j][f]

\* open(f, 'w') follows a link: the file of the application is overwritten.
WriteAll(j, fs) ==
  /\ shared' = [f \in Files |-> IF f \in fs \cap link[j] THEN j ELSE shared[f]]
  /\ own' = [own EXCEPT ![j] = [f \in Files |-> IF f \in fs \ link[j] THEN j ELSE @[f]]]
  /\ UNCHANGED link

\* Removing a link leaves the file it leads to alone.
RemoveAll(j, fs) ==
  /\ link' = [link EXCEPT ![j] = @ \ fs]
  /\ own' = [own EXCEPT ![j] = [f \in Files |-> IF f \in fs THEN Absent ELSE @[f]]]
  /\ UNCHANGED shared

Goto(w, from, to) == pc[w] = from /\ pc' = [pc EXCEPT ![w] = to]

\* An exception: neither chdir nor sandbox has a finally, so the generators
\* stop at their yield; the directory stays current, and stays.
Raise(w) ==
  /\ pc' = [pc EXCEPT ![w] = "free"]
  /\ result' = [result EXCEPT ![job[w]].status = "raised"]
  /\ job' = [job EXCEPT ![w] = NoJob]
  /\ orphan' = [orphan EXCEPT ![w] = FALSE]
  /\ UNCHANGED <<places, todo>>

-----------------------------------------------------------------------------
\* Changed: the sandbox is only entered from the directory the worker began in.
EnterFromHome(w, j) ==
  /\ Goto(w, "free", "clean") /\ j \in todo
  /\ todo' = todo \ {j}
  /\ job' = [job EXCEPT ![w] = j]
  /\ olddir' = [olddir EXCEPT ![w] = cwd[w]]
  /\ cwd' = [cwd EXCEPT ![w] = IF @ = "home" THEN j ELSE @]
  /\ sandboxes' = sandboxes \cup {j}
  /\ link' = [link EXCEPT ![j] = {f \in Files : shared[f] # Absent}]
  /\ UNCHANGED <<orphan, shared, own, binary, result>>

\* chdir(directory) and sandbox(True): a new directory, everything symlinked.
Enter(w, j) ==
  /\ Goto(w, "free", "clean") /\ j \in todo
  /\ todo' = todo \ {j}
  /\ job' = [job EXCEPT ![w] = j]
  /\ olddir' = [olddir EXCEPT ![w] = cwd[w]]
  /\ cwd' = [cwd EXCEPT ![w] = j]
  /\ sandboxes' = sandboxes \cup {j}
  /\ link' = [link EXCEPT ![j] = {f \in Files : shared[f] # Absent}]
  /\ UNCHANGED <<orphan, shared, own, binary, result>>

\* Changed: the link to the ROI time file is not cleaned.
CleanKeepsTime(w) ==
  /\ Goto(w, "clean", "configure")
  /\ RemoveAll(job[w], {"config"} \cup CleanMeToo)
  /\ UNCHANGED <<job, orphan, todo, places, binary, result>>

\* run_cmd(make clean), whatever its exit status.
Clean(w) ==
  /\ Goto(w, "clean", "configure")
  /\ RemoveAll(job[w], {"config", "time"} \cup CleanMeToo)
  /\ UNCHANGED <<job, orphan, todo, places, binary, result>>

\* The configuration is written, or one that is there is removed.
Configure(w) ==
  /\ Goto(w, "configure", "build")
  /\ IF job[w] \in Approx THEN WriteAll(job[w], {"config"})
                          ELSE RemoveAll(job[w], {"config"})
  /\ UNCHANGED <<job, orphan, todo, places, binary, result>>

\* A precise build also makes the pass write the empty configuration.
Build(w) ==
  /\ Goto(w, "build", "execute")
  /\ IF job[w] \in Approx
     THEN /\ binary' = [binary EXCEPT ![job[w]] = Read(job[w], "config")]
          /\ UNCHANGED files
     ELSE /\ binary' = [binary EXCEPT ![job[w]] = "precise"]
          /\ \/ WriteAll(job[w], {"config"})
             \/ UNCHANGED files
  /\ UNCHANGED <<job, orphan, todo, places, result>>

BuildFails(w) ==
  /\ pc[w] = "build"
  /\ Raise(w)
  /\ UNCHANGED <<files, binary>>

\* The program has written its output, its ROI time, both or neither.
Writes(w) == \E fs \in SUBSET {"time", "output"} : WriteAll(job[w], fs)

ExecuteEnds(w) ==
  /\ Goto(w, "execute", "load")
  /\ Writes(w)
  /\ UNCHANGED <<job, orphan, todo, places, binary, result>>

AfterRun(w) == IF job[w] \in Approx THEN "leave" ELSE "parse"

\* A nonzero exit status: output and roitime are None.
ExecuteFails(w) ==
  /\ Goto(w, "execute", AfterRun(w))
  /\ Writes(w)
  /\ result' = [result EXCEPT ![job[w]].status = "error"]
  /\ UNCHANGED <<job, orphan, todo, places, binary>>

\* The thread that waits for make is still alive: make is terminated, and the
\* program it started is not.
ExecuteTimesOut(w) ==
  /\ Goto(w, "execute", AfterRun(w))
  /\ Writes(w)
  /\ result' = [result EXCEPT ![job[w]].status = "timeout"]
  /\ orphan' = [orphan EXCEPT ![w] = TRUE]
  /\ UNCHANGED <<job, todo, places, binary>>

\* load_eval_funcs: without eval.py a UserError, before load is called.
LoadFuncsMissing(w) ==
  /\ pc[w] = "load"
  /\ Raise(w)
  /\ UNCHANGED <<files, binary>>

\* Changed: the output is loaded from the application directory.
LoadFromApplication(w) ==
  /\ Goto(w, "load", "time")
  /\ shared["output"] # Absent
  /\ result' = [result EXCEPT ![job[w]].output = shared["output"],
                              ![job[w]].status = "ok"]
  /\ UNCHANGED <<job, orphan, todo, places, files, binary>>

Load(w) ==
  /\ Goto(w, "load", "time")
  /\ \/ /\ Read(job[w], "output") # Absent
        /\ result' = [result EXCEPT ![job[w]].output = Read(job[w], "output"),
                                    ![job[w]].status = "ok"]
     \/ result' = [result EXCEPT ![job[w]].status = "load"]
  /\ UNCHANGED <<job, orphan, todo, places, files, binary>>

\* Changed: a missing ROI time leaves the status as it was.
LoadTimeQuietly(w) ==
  /\ Goto(w, "time", "copy")
  /\ result' = [result EXCEPT ![job[w]].roitime = Read(job[w], "time")]
  /\ UNCHANGED <<job, orphan, todo, places, files, binary>>

\* The time is read, or it cannot be: there is no such file, or no number in it.
LoadTime(w) ==
  /\ Goto(w, "time", "copy")
  /\ \/ /\ Read(job[w], "time") # Absent
        /\ result' = [result EXCEPT ![job[w]].roitime = Read(job[w], "time")]
     \/ result' = [result EXCEPT ![job[w]].roitime = Absent, ![job[w]].status = "notime"]
  /\ UNCHANGED <<job, orphan, todo, places, files, binary>>

\* A 'file:' output is copied away; output names the copy even if that fails.
Copy(w) ==
  /\ Goto(w, "copy", AfterRun(w))
  /\ \/ UNCHANGED result
     \/ /\ result[job[w]].output # Absent
        /\ result' = [result EXCEPT ![job[w]].roitime = Absent,
                                    ![job[w]].status = "copy"]
  /\ UNCHANGED <<job, orphan, todo, places, files, binary>>

\* Only a precise run reads the configuration that its build wrote.
Parse(w) ==
  /\ Goto(w, "parse", "leave")
  /\ Read(job[w], "config") # Absent
  /\ result' = [result EXCEPT ![job[w]].config = Read(job[w], "config")]
  /\ UNCHANGED <<job, orphan, todo, places, files, binary>>

ParseFails(w) ==
  /\ pc[w] = "parse"
  /\ Read(job[w], "config") = Absent
  /\ Raise(w)
  /\ UNCHANGED <<files, binary>>

\* The two context managers end: chdir back, rmtree, chdir back.
Leave(w) ==
  /\ Goto(w, "leave", "free")
  /\ cwd' = [cwd EXCEPT ![w] = olddir[w]]
  /\ sandboxes' = sandboxes \ {job[w]}
  /\ job' = [job EXCEPT ![w] = NoJob]
  /\ orphan' = [orphan EXCEPT ![w] = FALSE]
  /\ UNCHANGED <<olddir, todo, files, binary, result>>

\* rmtree meets a file that the program left behind has just made, and raises
\* between the two chdir back.
LeaveFails(w) ==
  /\ pc[w] = "leave" /\ orphan[w]
  /\ pc' = [pc EXCEPT ![w] = "free"]
  /\ cwd' = [cwd EXCEPT ![w] = "app"]
  /\ result' = [result EXCEPT ![job[w]].status = "raised"]
  /\ job' = [job EXCEPT ![w] = NoJob]
  /\ orphan' = [orphan EXCEPT ![w] = FALSE]
  /\ UNCHANGED <<olddir, sandboxes, todo, files, binary>>

Next ==
  \E w \in Workers :
    \/ \E j \in Jobs : Enter(w, j)
    \/ Clean(w) \/ Configure(w)
    \/ Build(w) \/ BuildFails(w)
    \/ ExecuteEnds(w) \/ ExecuteFails(w) \/ ExecuteTimesOut(w)
    \/ LoadFuncsMissing(w) \/ Load(w) \/ LoadTime(w) \/ Copy(w)
    \/ Parse(w) \/ ParseFails(w)
    \/ Leave(w) \/ LeaveFails(w)

Spec == Init /\ [][Next]_vars

-----------------------------------------------------------------------------
(* Properties.                                                             *)

Finished(j) == j \notin todo /\ \A w \in Workers : job[w] # j
CleansOutputs == LeftOver \subseteq {"config", "time"} \cup CleanMeToo

\* What an Execution reports comes from the program of that very job, built
\* with that job's configuration: neither from a file an earlier run left in
\* the application directory nor from a job that runs at the same time.  This
\* needs a Makefile that cleans the outputs it leaves.
ResultsAreOwn ==
  CleansOutputs =>
    \A j \in Jobs :
      /\ {result[j].output, result[j].roitime, result[j].config} \subseteq {j, Absent}
      /\ binary[j] \in {j, Absent, "precise"}

\* The links are to be read through: a job never writes the application's files.
ApplicationUntouched == [][CleansOutputs => UNCHANGED shared]_vars

\* Result.evaluate takes a zero status for a usable execution: one with output
\* and ROI time, and both are missing after a timeout or an error.
StatusTellsTheTruth ==
  \A j \in Jobs : Finished(j) =>
    /\ result[j].status = "ok" =>
         result[j].output # Absent /\ result[j].roitime # Absent
    /\ result[j].status \in {"timeout", "error"} =>
         result[j].output = Absent /\ result[j].roitime = Absent

\* A worker that runs a job stands in the sandbox of that job, whatever
\* exceptions the worker's earlier jobs raised, and the sandbox exists.
StandsInItsSandbox ==
  \A w \in Workers : job[w] # NoJob => cwd[w] = job[w] /\ job[w] \in sandboxes

\* Every sandbox left on disk is that of a running job or of one that raised.
LeaksOnlyByException ==
  \A j \in sandboxes : Finished(j) => result[j].status = "raised"

\* The docstring of sandbox: afterwards, change back and clean up.
SandboxIsCleanedUp == \A j \in Jobs : Finished(j) => j \notin sandboxes

\* The docstring of chdir: it changes the working directory temporarily.
DirectoryIsRestored == \A w \in Workers : pc[w] = "free" => cwd[w] = "home"
=============================================================================
