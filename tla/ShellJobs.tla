------------------------------ MODULE ShellJobs ------------------------------
(***************************************************************************)
(* Background jobs of a sandbox: the executor of internal/exec/kubeexec.go *)
(* and the shell tools of internal/mcp/server.go that call it.             *)
(*                                                                         *)
(* A job is a wrapper shell in the pod that runs the command in a subshell *)
(* and then writes its exit code into a file, the sentinel.  The executor  *)
(* remembers jobs in a table under a mutex.  A poll clones the entry,      *)
(* looks into the pod three times (sentinel, process, log) and writes the  *)
(* clone back; the mutex is free in between, and other polls, a stop, the  *)
(* reaping of old jobs and the job itself go on.                           *)
(*                                                                         *)
(* The module has the state of the executor, of the pod and of the calls,  *)
(* and one action per step; SandboxTools makes a specification of them.    *)
(***************************************************************************)
EXTENDS Naturals, FiniteSets

CONSTANTS
    Calls,        \* goroutines that serve tool calls
    Jobs,         \* job ids (uuids)
    PodNames,     \* names the session's pod may have
    FirstPod,     \* the one it begins with
    Codes,        \* exit codes
    None,         \* the zero value of a name, a code or a time
    Retention,    \* jobRetention, in ticks
    HardTTL,      \* jobHardTTL, in ticks
    Budgets       \* bound: how often which of the events of Bounded may happen

\* Tool calls on jobs, calls of shell and of the editor, requests that time out
\* or deletions of the pod, and ticks.
Bounded == {"calls", "edits", "mishaps", "ticks"}

ASSUME ShellJobsAssumption ==
    /\ Codes \subseteq Nat
    /\ 0 \in Codes
    /\ None \notin Nat
    /\ None \notin Jobs
    /\ None \notin PodNames
    /\ FirstPod \in PodNames
    /\ Retention \in Nat
    /\ HardTTL \in Nat
    /\ Budgets \subseteq [Bounded -> Nat]

VARIABLES
    pod,        \* name of the session's pod, None while it is stopped
    process,    \* process[j]: wrapper, command and sentinel of job j
    foreign,    \* jobs whose PID is another process's in a new pod
    jobs,       \* KubeExecutor.jobs
    call,       \* call[c]: the tool call c is serving
    spent,      \* spent[e]: how often the bounded event e has happened
    \* History, which no step depends on:
    settled,    \* jobs a finished call reported as ended or stopped
    stops,      \* jobs somebody asked to stop
    over        \* over[j]: when the job was over, None before

jobVars == <<pod, process, foreign, jobs, call, spent, settled, stops, over>>

\* What the executor remembers of a job; pid and file names derive from the id.
Job == [podName : PodNames, running : BOOLEAN, exitCode : Codes,
        startedAt : Nat, finishedAt : Nat \cup {None}]
NoJob == [podName |-> None]

\* The wrapper shell, the command in its subshell and the two things it leaves:
\* the code it ends with and the sentinel file.
Process == [wrapper : BOOLEAN,
            command : {"none", "running", "ended", "lost"},
            code : Codes \cup {None},
            rc : Codes \cup {None}]
NoProcess == [wrapper |-> FALSE, command |-> "none", code |-> None, rc |-> None]

Labels == {"idle", "start", "lookup", "read_rc", "check_process", "read_log",
           "kill", "mark"}
Tools == {"shell_async", "shell_poll", "shell_wait", "shell_stop"}
Call == [pc : Labels, tool : Tools, job : Jobs \cup {None},
         target : PodNames \cup {None}, clone : Job \cup {NoJob}, late : BOOLEAN]
NoCall == [pc |-> "idle", tool |-> "shell_poll", job |-> None,
           target |-> None, clone |-> NoJob, late |-> FALSE]

JobsTypeOK ==
    /\ pod \in PodNames \cup {None}
    /\ process \in [Jobs -> Process]
    /\ foreign \in SUBSET Jobs
    /\ jobs \in [Jobs -> Job \cup {NoJob}]
    /\ call \in [Calls -> Call]
    /\ spent \in [Bounded -> Nat]
    /\ settled \in SUBSET Jobs
    /\ stops \in SUBSET Jobs
    /\ over \in [Jobs -> Nat \cup {None}]

JobsInit ==
    /\ pod = FirstPod
    /\ process = [j \in Jobs |-> NoProcess]
    /\ foreign = {}
    /\ jobs = [j \in Jobs |-> NoJob]
    /\ call = [c \in Calls |-> NoCall]
    /\ spent = [e \in Bounded |-> 0]
    /\ settled = {}
    /\ stops = {}
    /\ over = [j \in Jobs |-> None]

podVars == <<pod, process, foreign, over>>
callVars == <<jobs, call, settled, stops>>

\* A bounded event happens, within one of the budgets.
Spend(e) ==
    /\ spent' = [spent EXCEPT ![e] = @ + 1]
    /\ \E b \in Budgets : \A k \in Bounded : spent'[k] <= b[k]

now == spent.ticks

-----------------------------------------------------------------------------
(* The job inside its pod.                                                 *)

SetProcess(j, p) == process' = [process EXCEPT ![j] = p]

\* The moment from which nothing of the job is left to wait for.
IsOverNow(j) == over' = [over EXCEPT ![j] = IF @ = None THEN now ELSE @]

CommandEnds(j) ==
    /\ process[j].command = "running"
    /\ \E code \in Codes :
          SetProcess(j, [process[j] EXCEPT !.command = "ended", !.code = code])
    /\ UNCHANGED <<pod, foreign, over, callVars, spent>>

\* "echo $? > rc", and the wrapper exits.  Before its content is there the
\* sentinel reads as empty, like a missing one.  The wrapper becomes a zombie
\* that nobody reaps: this pod does not use its PID again.
WrapperFinishes(j) ==
    /\ process[j].wrapper
    /\ process[j].command = "ended"
    /\ SetProcess(j, [process[j] EXCEPT !.wrapper = FALSE, !.rc = process[j].code])
    /\ IsOverNow(j)
    /\ UNCHANGED <<pod, foreign, callVars, spent>>

Mishap == Spend("mishaps")

\* The pod is deleted: a stop over REST, the lifetime limit, a clear.  Its
\* processes and files in /tmp go with it.
PodIsDeleted ==
    /\ pod # None
    /\ Mishap
    /\ pod' = None
    /\ process' = [j \in Jobs |->
                     [process[j] EXCEPT !.wrapper = FALSE, !.rc = None,
                        !.command = IF @ = "running" THEN "lost" ELSE @]]
    /\ foreign' = {}
    /\ over' = [j \in Jobs |-> IF over[j] = None /\ process[j].command # "none"
                               THEN now ELSE over[j]]
    /\ UNCHANGED <<callVars>>

\* The session is resumed or created again.  A sandbox that came from the warm
\* pool gets another pod name; processes of the new pod may have old PIDs.
PodIsBack ==
    /\ pod = None
    /\ pod' \in PodNames
    /\ foreign' \in SUBSET {j \in Jobs : process[j].command # "none"}
    /\ UNCHANGED <<process, over, callVars, spent>>

ForeignProcessEnds(j) ==
    /\ j \in foreign
    /\ foreign' = foreign \ {j}
    /\ UNCHANGED <<pod, process, over, callVars, spent>>

Tick ==
    /\ Spend("ticks")
    /\ UNCHANGED <<podVars, callVars>>

-----------------------------------------------------------------------------
(* Tool calls.  requireSession resumes or creates the sandbox before, so a *)
(* call begins with a pod; the pod may go away under it all the same.      *)

Step(c, label) == call' = [call EXCEPT ![c].pc = label]

Return(c) == call' = [call EXCEPT ![c] = NoCall]

\* Requests go to the pod that the session had when the call began.
Reachable(c) == pod = call[c].target

BeginCall(c, tool, j, label) ==
    /\ pod # None
    /\ Spend("calls")
    /\ call' = [call EXCEPT ![c] = [pc |-> label, tool |-> tool, job |-> j,
                                    target |-> pod, clone |-> NoJob,
                                    late |-> j \in settled]]
    /\ UNCHANGED <<podVars, jobs, settled>>

\* NewString: an id of its own for every job.
UnusedJobs ==
    {j \in Jobs : process[j].command = "none" /\ \A c \in Calls : call[c].job # j}

ShellAsync(c) ==
    /\ UnusedJobs # {}
    /\ BeginCall(c, "shell_async", CHOOSE j \in UnusedJobs : TRUE, "start")
    /\ UNCHANGED stops

\* Clients know the ids that shell_async returned.
ShellPoll(c, j) ==
    /\ process[j].command # "none"
    /\ BeginCall(c, "shell_poll", j, "lookup")
    /\ UNCHANGED stops

ShellWait(c, j) ==
    /\ process[j].command # "none"
    /\ BeginCall(c, "shell_wait", j, "lookup")
    /\ UNCHANGED stops

ShellStop(c, j) ==
    /\ process[j].command # "none"
    /\ BeginCall(c, "shell_stop", j, "lookup")
    /\ stops' = stops \cup {j}

Requests == {"start", "read_rc", "check_process", "read_log", "kill"}

\* Any error of an exec request ends the call with that error.
PodUnreachable(c) ==
    /\ call[c].pc \in Requests
    /\ ~ Reachable(c)
    /\ Return(c)
    /\ UNCHANGED <<podVars, jobs, settled, stops, spent>>

\* The deadline of shell_wait passes or the client goes away before a request.
\* In the middle of a poll the log cannot be read any more, so nothing is
\* written back; a wait then says what the previous round said, that the job
\* runs, or nothing.
ContextEnds(c) ==
    /\ \/ call[c].pc \in Requests
       \/ call[c].tool = "shell_wait" /\ call[c].pc = "lookup"
    /\ Return(c)
    /\ UNCHANGED <<podVars, jobs, settled, stops, spent>>

-----------------------------------------------------------------------------
(* StartJob.                                                               *)

LaunchJob(j) ==
    SetProcess(j, [wrapper |-> TRUE, command |-> "running", code |-> None, rc |-> None])

\* Mutant: an entry goes when its time is reached, not when it has passed.
ExpiredEarly(entry) ==
    \/ entry.finishedAt # None /\ now - entry.finishedAt >= Retention
    \/ now - entry.startedAt > HardTTL

\* Evicted by reapJobsLocked.
Expired(entry) ==
    \/ entry.finishedAt # None /\ now - entry.finishedAt > Retention
    \/ now - entry.startedAt > HardTTL

ReapJobs == [j \in Jobs |-> IF jobs[j] # NoJob /\ Expired(jobs[j])
                            THEN NoJob ELSE jobs[j]]

\* Nobody knows the id before the call returns it.
StartJob(c) ==
    LET j == call[c].job IN
    /\ call[c].pc = "start"
    /\ Reachable(c)
    /\ LaunchJob(j)
    /\ jobs' = [ReapJobs EXCEPT ![j] =
                  [podName |-> call[c].target, running |-> TRUE, exitCode |-> 0,
                   startedAt |-> now, finishedAt |-> None]]
    /\ Return(c)
    /\ UNCHANGED <<pod, foreign, over, settled, stops, spent>>

\* The launcher ran but its PID never arrived: the call fails, the job runs.
StartJobTimesOut(c) ==
    /\ call[c].pc = "start"
    /\ Reachable(c)
    /\ Mishap
    /\ LaunchJob(call[c].job)
    /\ Return(c)
    /\ UNCHANGED <<pod, foreign, over, jobs, settled, stops>>

-----------------------------------------------------------------------------
(* PollJob, which shell_poll calls once and shell_wait in a loop.  A       *)
(* request that runs into its own timeout comes back without error and     *)
(* without output: Run reports exit code 0 and TimedOut.                   *)

Known(c) ==
    /\ jobs[call[c].job] # NoJob
    /\ jobs[call[c].job].podName = call[c].target

LookupJob(c) ==
    /\ call[c].pc = "lookup"
    /\ Known(c)
    /\ call' = [call EXCEPT ![c].clone = jobs[call[c].job],
                            ![c].pc = IF call[c].tool = "shell_stop"
                                      THEN "kill" ELSE "read_rc"]
    /\ UNCHANGED <<podVars, jobs, settled, stops, spent>>

\* "unknown job" or "job belongs to pod".
LookupFails(c) ==
    /\ call[c].pc = "lookup"
    /\ ~ Known(c)
    /\ Return(c)
    /\ UNCHANGED <<podVars, jobs, settled, stops, spent>>

FinishedNow(entry) ==
    [entry EXCEPT !.running = FALSE,
                  !.finishedAt = IF @ = None THEN now ELSE @]

\* Mutant: an empty sentinel counts as one.
ReadAnySentinel(c) ==
    /\ call[c].pc = "read_rc"
    /\ Reachable(c)
    /\ call' = [call EXCEPT ![c].pc = "read_log",
                            ![c].clone = [FinishedNow(@) EXCEPT
                                            !.exitCode = process[call[c].job].rc]]
    /\ UNCHANGED <<podVars, jobs, settled, stops, spent>>

\* The sentinel is authoritative: if it is there the job has finished.
ReadExitCode(c) ==
    LET sentinel == process[call[c].job].rc IN
    /\ call[c].pc = "read_rc"
    /\ Reachable(c)
    /\ call' = IF sentinel = None
               THEN [call EXCEPT ![c].pc = "check_process"]
               ELSE [call EXCEPT ![c].pc = "read_log",
                                 ![c].clone = [FinishedNow(@) EXCEPT
                                                 !.exitCode = sentinel]]
    /\ UNCHANGED <<podVars, jobs, settled, stops, spent>>

\* Empty output reads as a missing sentinel.
ReadExitCodeTimesOut(c) ==
    /\ call[c].pc = "read_rc"
    /\ Reachable(c)
    /\ Mishap
    /\ Step(c, "check_process")
    /\ UNCHANGED <<podVars, jobs, settled, stops>>

\* Mutant: a zombie counts as alive.
ProcessPresent(j) == process[j].command # "none" \/ j \in foreign

\* /proc/<pid>/status exists and is no zombie's.
ProcessAlive(j) == process[j].wrapper \/ j \in foreign

CheckProcess(c) ==
    /\ call[c].pc = "check_process"
    /\ Reachable(c)
    /\ call' = [call EXCEPT ![c].pc = "read_log",
                            ![c].clone = IF ProcessAlive(call[c].job)
                                         THEN [@ EXCEPT !.running = TRUE]
                                         ELSE FinishedNow(@)]
    /\ UNCHANGED <<podVars, jobs, settled, stops, spent>>

\* Mutant: no answer means dead.
CheckProcessGivesUp(c) ==
    /\ call[c].pc = "check_process"
    /\ Reachable(c)
    /\ Mishap
    /\ call' = [call EXCEPT ![c].pc = "read_log", ![c].clone = FinishedNow(@)]
    /\ UNCHANGED <<podVars, jobs, settled, stops>>

\* Exit code 0, which the timeout leaves, means alive.
CheckProcessTimesOut(c) ==
    /\ call[c].pc = "check_process"
    /\ Reachable(c)
    /\ Mishap
    /\ call' = [call EXCEPT ![c].pc = "read_log", ![c].clone.running = TRUE]
    /\ UNCHANGED <<podVars, jobs, settled, stops>>

\* The log is read - of it only that this may fail matters - and the clone is
\* written back whatever has become of the entry.  shell_poll returns it,
\* shell_wait only if the job has finished.
StoreClone(c) ==
    LET entry == call[c].clone
        j     == call[c].job
    IN
    /\ call[c].pc = "read_log"
    /\ Reachable(c)
    /\ jobs' = [jobs EXCEPT ![j] = entry]
    /\ IF call[c].tool = "shell_poll" \/ ~ entry.running
       THEN Return(c)
       ELSE call' = [call EXCEPT ![c].pc = "lookup", ![c].clone = NoJob]
    /\ settled' = IF entry.running THEN settled ELSE settled \cup {j}
    /\ UNCHANGED <<podVars, stops, spent>>

-----------------------------------------------------------------------------
(* StopJob.                                                                *)

\* kill -TERM <pid>: it ends the wrapper, whose subshell goes on with the
\* command, or whatever process has the PID in a new pod.
Terminate(j) ==
    /\ SetProcess(j, [process[j] EXCEPT !.wrapper = FALSE])
    /\ foreign' = foreign \ {j}
    /\ IsOverNow(j)

Kill(c) ==
    /\ call[c].pc = "kill"
    /\ Reachable(c)
    /\ Terminate(call[c].job)
    /\ Step(c, "mark")
    /\ UNCHANGED <<pod, jobs, settled, stops, spent>>

\* The client goes away when the signal is already sent.
KillIsCut(c) ==
    /\ call[c].pc = "kill"
    /\ Reachable(c)
    /\ Terminate(call[c].job)
    /\ Return(c)
    /\ UNCHANGED <<pod, jobs, settled, stops, spent>>

KillTimesOut(c) ==
    /\ call[c].pc = "kill"
    /\ Reachable(c)
    /\ Mishap
    /\ Step(c, "mark")
    /\ UNCHANGED <<podVars, jobs, settled, stops>>

MarkStopped(c) ==
    LET j == call[c].job IN
    /\ call[c].pc = "mark"
    /\ jobs' = IF jobs[j] = NoJob THEN jobs
               ELSE [jobs EXCEPT ![j] = [FinishedNow(@) EXCEPT !.exitCode = 0]]
    /\ settled' = settled \cup {j}
    /\ Return(c)
    /\ UNCHANGED <<podVars, stops, spent>>

-----------------------------------------------------------------------------

\* Commands and other processes do not run for ever.
ProcessStep(j) ==
    \/ CommandEnds(j)
    \/ WrapperFinishes(j)
    \/ ForeignProcessEnds(j)

PodStep ==
    \/ PodIsDeleted
    \/ PodIsBack
    \/ Tick
    \/ \E j \in Jobs : ProcessStep(j)

BeginJobCall(c) ==
    \/ ShellAsync(c)
    \/ \E j \in Jobs :
          \/ ShellPoll(c, j)
          \/ ShellWait(c, j)
          \/ ShellStop(c, j)

\* What the goroutine of a call does next if nothing interferes.
JobCallStep(c) ==
    \/ StartJob(c)
    \/ LookupJob(c)
    \/ LookupFails(c)
    \/ ReadExitCode(c)
    \/ CheckProcess(c)
    \/ StoreClone(c)
    \/ Kill(c)
    \/ MarkStopped(c)
    \/ PodUnreachable(c)

JobCallFault(c) ==
    \/ StartJobTimesOut(c)
    \/ ReadExitCodeTimesOut(c)
    \/ CheckProcessTimesOut(c)
    \/ KillTimesOut(c)
    \/ KillIsCut(c)
    \/ ContextEnds(c)
=============================================================================
