-------------------------- MODULE SandboxToolsProofs --------------------------
(***************************************************************************)
(* Proofs about the tools, for any number of calls, jobs, pods, texts and  *)
(* edits, and for every budget of events.                                  *)
(***************************************************************************)
EXTENDS SandboxTools, TextEditProofs

-----------------------------------------------------------------------------
(* The inductive invariant of the jobs.                                    *)

\* The wrapper of a job that was launched is gone.
IsDead(p) == p.command # "none" /\ ~ p.wrapper

\* What an entry of the job table, or a poll's clone of one, says is true of a
\* job with process p that was over at time o.
TrueEntry(e, p, o, stopped, disturbed) ==
    /\ ~ e.running => stopped \/ p.command \in {"ended", "lost"}
    /\ e.exitCode # 0 => e.exitCode = p.code
    /\ e.finishedAt # None => \/ o # None /\ o <= e.finishedAt
                              \/ stopped /\ disturbed
    /\ ~ e.running => IsDead(p) \/ disturbed

TrueOf(j, e) == TrueEntry(e, process[j], over[j], j \in stops, ~ Undisturbed)

ProcessOK(j) ==
    /\ process[j].command # "ended" => process[j].code = None
    /\ process[j].rc # None => /\ process[j].command = "ended"
                               /\ process[j].rc = process[j].code
                               /\ ~ process[j].wrapper
    /\ IsDead(process[j]) => over[j] # None
    /\ IsDead(process[j]) => j \in stops \/ process[j].command \in {"ended", "lost"}
    /\ over[j] # None => over[j] <= now

EntryOK(j) ==
    /\ process[j].command = "none" => jobs[j] = NoJob
    /\ jobs[j] # NoJob => TrueOf(j, jobs[j])
    /\ j \in settled => IsDead(process[j]) \/ ~ Undisturbed

Polling == {"read_rc", "check_process", "read_log"}

CallOK(c) ==
    /\ call[c].pc = "idle" => call[c] = NoCall
    /\ call[c].pc # "idle" => call[c].job \in Jobs /\ call[c].target \in PodNames
    /\ call[c].pc = "start" => process[call[c].job].command = "none"
    /\ call[c].pc \notin {"idle", "start"} => process[call[c].job].command # "none"
    /\ call[c].pc \in Polling => /\ call[c].clone \in Job
                                 /\ TrueOf(call[c].job, call[c].clone)
    /\ call[c].pc # "idle" /\ call[c].tool = "shell_stop" => call[c].job \in stops
    /\ call[c].pc \in {"kill", "mark"} => call[c].tool = "shell_stop"
    /\ call[c].pc = "mark" => \/ IsDead(process[call[c].job])
                              \/ call[c].job \in stops /\ ~ Undisturbed
    /\ call[c].late => \/ call[c].pc # "idle" /\ IsDead(process[call[c].job])
                       \/ ~ Undisturbed
    /\ call[c].pc = "read_log" /\ call[c].late => ~ call[c].clone.running \/ ~ Undisturbed

\* The id of a job that is being started is known to nobody else.
StartsAlone ==
    \A c, d \in Calls : c # d /\ call[c].pc = "start" => call[d].job # call[c].job

PodOK == Undisturbed => foreign = {} /\ pod # None

JobsInv ==
    /\ JobsTypeOK
    /\ \A j \in Jobs : ProcessOK(j) /\ EntryOK(j)
    /\ \A c \in Calls : CallOK(c)
    /\ StartsAlone
    /\ PodOK

-----------------------------------------------------------------------------
(* What every step keeps.                                                  *)

\* Jobs only go on: what was over stays so, and time passes.
SameOrLater(p, q) ==
    /\ p.command # "none" => q.command # "none"
    /\ IsDead(p) => IsDead(q)
    /\ p.command \in {"ended", "lost"} => q.command = p.command /\ q.code = p.code

GoesOn ==
    /\ \A j \in Jobs : SameOrLater(process[j], process'[j])
    /\ \A j \in Jobs : over[j] # None => over'[j] = over[j]
    /\ stops \subseteq stops'
    /\ now <= now'
    /\ ~ Undisturbed => ~ Undisturbed'

\* An entry that was true of a job remains true of it.
LEMMA EntryStaysTrue ==
    ASSUME ShellJobsAssumption, JobsTypeOK, JobsTypeOK', GoesOn,
           NEW j \in Jobs, NEW e \in Job,
           process[j].command # "none", ProcessOK(j), TrueOf(j, e)
    PROVE  TrueEntry(e, process'[j], over'[j], j \in stops', ~ Undisturbed')
<1> DEFINE p == process[j]
           q == process'[j]
<1>1. /\ p \in Process /\ q \in Process
      /\ over[j] \in Nat \cup {None} /\ e.exitCode \in Codes /\ e.running \in BOOLEAN
  BY DEF JobsTypeOK, Job
<1>2. /\ SameOrLater(p, q) /\ (over[j] # None => over'[j] = over[j])
      /\ (j \in stops => j \in stops') /\ (~ Undisturbed => ~ Undisturbed')
  BY DEF GoesOn
<1>3. TrueEntry(e, p, over[j], j \in stops, ~ Undisturbed)
  BY DEF TrueOf
<1>4. p.command # "none" /\ (p.command # "ended" => p.code = None)
  BY DEF ProcessOK
<1> HIDE DEF p, q
<1>5. ~ e.running => j \in stops' \/ q.command \in {"ended", "lost"}
  BY <1>2, <1>3 DEF TrueEntry, SameOrLater
<1>6. e.exitCode # 0 => e.exitCode = q.code
  <2> SUFFICES ASSUME e.exitCode # 0 PROVE e.exitCode = q.code
    OBVIOUS
  <2>1. e.exitCode = p.code /\ e.exitCode # None
    BY <1>1, <1>3 DEF TrueEntry, ShellJobsAssumption
  <2> QED  BY <1>2, <1>4, <2>1 DEF SameOrLater
<1>7. e.finishedAt # None => \/ over'[j] # None /\ over'[j] <= e.finishedAt
                             \/ j \in stops' /\ ~ Undisturbed'
  BY <1>2, <1>3 DEF TrueEntry
<1>8. ~ e.running => IsDead(q) \/ ~ Undisturbed'
  BY <1>2, <1>3 DEF TrueEntry, SameOrLater
<1>9. TrueEntry(e, q, over'[j], j \in stops', ~ Undisturbed')
  BY <1>5, <1>6, <1>7, <1>8 DEF TrueEntry
<1> QED  BY <1>9 DEF q

\* A call that does nothing: what is known of it remains true.
LEMMA CallStaysOK ==
    ASSUME ShellJobsAssumption, JobsInv, JobsTypeOK', GoesOn,
           NEW c \in Calls, call'[c] = call[c],
           call[c].pc = "start" => process'[call[c].job].command = "none"
    PROVE  CallOK(c)'
<1> DEFINE k == call[c]
<1>1. k \in Call /\ CallOK(c) /\ JobsTypeOK /\ \A j \in Jobs : ProcessOK(j)
  BY DEF JobsInv, JobsTypeOK
<1>2. /\ k.pc = "idle" => k = NoCall
      /\ k.pc # "idle" => k.job \in Jobs /\ k.target \in PodNames
      /\ k.pc \notin {"idle", "start"} => process[k.job].command # "none"
      /\ k.pc \in Polling => k.clone \in Job /\ TrueOf(k.job, k.clone)
      /\ k.pc # "idle" /\ k.tool = "shell_stop" => k.job \in stops
      /\ k.pc \in {"kill", "mark"} => k.tool = "shell_stop"
      /\ k.pc = "mark" => IsDead(process[k.job]) \/ (k.job \in stops /\ ~ Undisturbed)
      /\ k.late => (k.pc # "idle" /\ IsDead(process[k.job])) \/ ~ Undisturbed
      /\ k.pc = "read_log" /\ k.late => ~ k.clone.running \/ ~ Undisturbed
  BY <1>1 DEF CallOK
<1>3. k.pc # "idle" => SameOrLater(process[k.job], process'[k.job])
  BY <1>2 DEF GoesOn
<1>4. stops \subseteq stops' /\ (~ Undisturbed => ~ Undisturbed')
  BY DEF GoesOn
<1>5. ASSUME k.pc \in Polling
      PROVE  TrueEntry(k.clone, process'[k.job], over'[k.job], k.job \in stops', ~ Undisturbed')
  <2>1. k.job \in Jobs /\ k.clone \in Job /\ process[k.job].command # "none" /\ TrueOf(k.job, k.clone)
    BY <1>2, <1>5 DEF Polling
  <2> HIDE DEF k
  <2> QED  BY <1>1, <2>1, EntryStaysTrue
<1>6. /\ k.pc = "idle" => k = NoCall
      /\ k.pc # "idle" => k.job \in Jobs /\ k.target \in PodNames
      /\ k.pc = "start" => process'[k.job].command = "none"
      /\ k.pc \notin {"idle", "start"} => process'[k.job].command # "none"
      /\ k.pc \in Polling => k.clone \in Job
      /\ k.pc # "idle" /\ k.tool = "shell_stop" => k.job \in stops'
      /\ k.pc \in {"kill", "mark"} => k.tool = "shell_stop"
  <2> HIDE DEF k
  <2>1. k.pc = "start" => process'[k.job].command = "none"
    BY DEF k
  <2> QED  BY <1>2, <1>3, <1>4, <2>1 DEF SameOrLater
<1>7. /\ k.pc = "mark" => IsDead(process'[k.job]) \/ (k.job \in stops' /\ ~ Undisturbed')
      /\ k.late => (k.pc # "idle" /\ IsDead(process'[k.job])) \/ ~ Undisturbed'
      /\ k.pc = "read_log" /\ k.late => ~ k.clone.running \/ ~ Undisturbed'
  <2> HIDE DEF k
  <2> QED  BY <1>2, <1>3, <1>4 DEF SameOrLater
<1> HIDE DEF k
<1>8. call'[c] = k
  BY DEF k
<1> QED  BY <1>5, <1>6, <1>7, <1>8 DEF CallOK, TrueOf

\* A job whose entry does not change, or goes: what is known of it remains true.
LEMMA EntryStaysOK ==
    ASSUME ShellJobsAssumption, JobsInv, JobsTypeOK', GoesOn,
           NEW j \in Jobs, jobs'[j] \in {jobs[j], NoJob}, j \in settled' => j \in settled,
           process'[j].command = "none" => process[j].command = "none"
    PROVE  EntryOK(j)'
<1>1. ProcessOK(j) /\ EntryOK(j) /\ JobsTypeOK
  BY DEF JobsInv
<1>2. SameOrLater(process[j], process'[j]) /\ (~ Undisturbed => ~ Undisturbed')
  BY DEF GoesOn
<1>3. process'[j].command = "none" => jobs'[j] = NoJob
  BY <1>1 DEF EntryOK
<1>4. ASSUME jobs'[j] # NoJob
      PROVE  TrueEntry(jobs'[j], process'[j], over'[j], j \in stops', ~ Undisturbed')
  <2>1. /\ jobs[j] \in Job /\ process[j].command # "none" /\ TrueOf(j, jobs[j])
        /\ jobs'[j] = jobs[j]
    BY <1>1, <1>4 DEF EntryOK, JobsTypeOK
  <2> QED  BY <1>1, <2>1, EntryStaysTrue
<1>5. j \in settled' => IsDead(process'[j]) \/ ~ Undisturbed'
  BY <1>1, <1>2 DEF EntryOK, SameOrLater
<1> QED  BY <1>3, <1>4, <1>5 DEF EntryOK, TrueOf

-----------------------------------------------------------------------------
(* Steps of a call that leave the jobs alone.                              *)

SpentGrows ==
    /\ spent' \in [Bounded -> Nat]
    /\ now <= now'
    /\ ~ Undisturbed => ~ Undisturbed'

\* What a bounded event adds.
LEMMA SpendGrows ==
    ASSUME JobsTypeOK, NEW e \in Bounded, Spend(e)
    PROVE  /\ SpentGrows
           /\ e = "mishaps" => ~ Undisturbed'
           /\ e # "mishaps" => Undisturbed' = Undisturbed
           /\ e # "ticks" => now' = now
<1>1. /\ spent \in [Bounded -> Nat] /\ spent' = [spent EXCEPT ![e] = @ + 1]
      /\ "mishaps" \in Bounded /\ "ticks" \in Bounded
  BY DEF JobsTypeOK, Spend, Bounded
<1>2. spent' \in [Bounded -> Nat] /\ spent[e] \in Nat
  BY <1>1
<1>3. now \in Nat /\ spent.mishaps \in Nat
  BY <1>1 DEF now
<1>4. /\ e = "mishaps" => spent'.mishaps = spent.mishaps + 1
      /\ e # "mishaps" => spent'.mishaps = spent.mishaps
      /\ e = "ticks" => now' = now + 1
      /\ e # "ticks" => now' = now
  BY <1>1 DEF now
<1>5. (e = "mishaps" => ~ Undisturbed') /\ (e # "mishaps" => Undisturbed' = Undisturbed)
  BY <1>3, <1>4 DEF Undisturbed
<1> QED  BY <1>2, <1>3, <1>4, <1>5 DEF SpentGrows

\* No job that is being started gets another call, or the other way round.
ApartFrom(c, k) ==
    \A d \in Calls \ {c} :
       /\ k.pc = "start" => call[d].job # k.job
       /\ call[d].pc = "start" => call[d].job # k.job

\* One call moves on; if its own part of the invariant holds then, all of it does.
LEMMA CallMoves ==
    ASSUME ShellJobsAssumption, JobsInv, NEW c \in Calls, NEW k \in Call,
           call' = [call EXCEPT ![c] = k],
           UNCHANGED <<podVars, jobs, settled>>,
           stops \subseteq stops', stops' \in SUBSET Jobs, SpentGrows,
           CallOK(c)', ApartFrom(c, k)
    PROVE  JobsInv'
<1>1. JobsTypeOK /\ (\A j \in Jobs : ProcessOK(j) /\ EntryOK(j)) /\ StartsAlone /\ PodOK
  BY DEF JobsInv
<1>2. /\ pod' = pod /\ process' = process /\ foreign' = foreign /\ over' = over
      /\ jobs' = jobs /\ settled' = settled
  BY DEF podVars
<1>3. JobsTypeOK'
  BY <1>1, <1>2 DEF JobsTypeOK, SpentGrows
<1>4. GoesOn
  BY <1>2 DEF GoesOn, SpentGrows, SameOrLater
<1>5. \A d \in Calls \ {c} : CallOK(d)'
  <2> SUFFICES ASSUME NEW d \in Calls \ {c} PROVE CallOK(d)'
    OBVIOUS
  <2>1. call'[d] = call[d]
    BY <1>1 DEF JobsTypeOK
  <2>2. call[d].pc = "start" => process'[call[d].job].command = "none"
    BY <1>2 DEF JobsInv, CallOK
  <2> QED  BY <1>3, <1>4, <2>1, <2>2, CallStaysOK
<1>6. \A j \in Jobs : EntryOK(j)'
  BY <1>2, <1>3, <1>4, EntryStaysOK
<1>7. \A j \in Jobs : ProcessOK(j)'
  <2> SUFFICES ASSUME NEW j \in Jobs PROVE ProcessOK(j)'
    OBVIOUS
  <2>1. ProcessOK(j) /\ over[j] \in Nat \cup {None} /\ now \in Nat /\ now' \in Nat
    BY <1>1, <1>3 DEF JobsTypeOK, now, Bounded
  <2> QED  BY <1>2, <2>1 DEF ProcessOK, SpentGrows
<1>8. StartsAlone'
  <2> SUFFICES ASSUME NEW d \in Calls, NEW g \in Calls, d # g, call'[d].pc = "start"
               PROVE  call'[g].job # call'[d].job
    BY DEF StartsAlone
  <2>1. \A m \in Calls : call'[m] = IF m = c THEN k ELSE call[m]
    BY <1>1 DEF JobsTypeOK
  <2>2. CASE d = c
    BY <2>1, <2>2 DEF ApartFrom
  <2>3. CASE g = c
    BY <2>1, <2>3 DEF ApartFrom
  <2>4. CASE d # c /\ g # c
    BY <1>1, <2>1, <2>4 DEF StartsAlone
  <2> QED  BY <2>2, <2>3, <2>4
<1>9. PodOK'
  BY <1>1, <1>2 DEF PodOK, SpentGrows
<1> QED  BY <1>3, <1>5, <1>6, <1>7, <1>8, <1>9 DEF JobsInv

\* No step but the first makes a call start a job.
LEMMA MovesApart ==
    ASSUME ShellJobsAssumption, JobsInv, NEW c \in Calls, NEW k,
           k.pc # "start", k.job = call[c].job \/ k.job = None
    PROVE  ApartFrom(c, k)
<1> SUFFICES ASSUME NEW d \in Calls \ {c}, call[d].pc = "start" PROVE call[d].job # k.job
  BY DEF ApartFrom
<1>1. call[d].job \in Jobs /\ call[d].job # call[c].job
  BY DEF JobsInv, CallOK, StartsAlone
<1> QED  BY <1>1 DEF ShellJobsAssumption

\* A call that has returned.
LEMMA ReturnedIsOK ==
    ASSUME ShellJobsAssumption, JobsTypeOK, NEW c \in Calls, Return(c)
    PROVE  CallOK(c)' /\ NoCall \in Call /\ NoCall.pc # "start" /\ NoCall.job = None
<1>1. call'[c] = NoCall
  BY DEF JobsTypeOK, Return
<1>2. NoCall.pc = "idle" /\ NoCall.late = FALSE /\ NoCall.job = None
  BY DEF NoCall
<1>3. NoCall \in Call
  BY DEF NoCall, Call, Labels, Tools
<1>4. CallOK(c)'
  <2> HIDE DEF NoCall
  <2> QED  BY <1>1, <1>2 DEF CallOK, Polling
<1> QED  BY <1>2, <1>3, <1>4

\* A call ends; nothing else happens.
LEMMA EndsOnly ==
    ASSUME ShellJobsAssumption, JobsInv, NEW c \in Calls, Return(c),
           UNCHANGED <<podVars, jobs, settled, stops>>, SpentGrows
    PROVE  JobsInv'
<1>1. JobsTypeOK
  BY DEF JobsInv
<1>2. CallOK(c)' /\ NoCall \in Call /\ NoCall.pc # "start" /\ NoCall.job = None
  BY <1>1, ReturnedIsOK
<1>3. ApartFrom(c, NoCall)
  BY <1>2, MovesApart
<1>4. call' = [call EXCEPT ![c] = NoCall]
  BY DEF Return
<1>5. stops \subseteq stops' /\ stops' \in SUBSET Jobs /\ UNCHANGED <<podVars, jobs, settled>>
  BY <1>1 DEF JobsTypeOK
<1> QED  BY <1>2, <1>3, <1>4, <1>5, CallMoves

\* Time and mishaps stay what they were when nothing is spent.
LEMMA NothingSpent ==
    ASSUME JobsTypeOK, UNCHANGED spent
    PROVE  SpentGrows /\ Undisturbed' = Undisturbed /\ now' = now
  BY DEF JobsTypeOK, SpentGrows, Undisturbed, now, Bounded

\* A poll has found out that its job has finished.
LEMMA FinishedIsTrue ==
    ASSUME ShellJobsAssumption, JobsTypeOK, NEW j \in Jobs, NEW e \in Job,
           ProcessOK(j), TrueOf(j, e), IsDead(process[j])
    PROVE  /\ FinishedNow(e) \in Job /\ TrueOf(j, FinishedNow(e))
           /\ ~ FinishedNow(e).running /\ FinishedNow(e).exitCode = e.exitCode
<1> DEFINE f == FinishedNow(e)
           p == process[j]
<1>1. /\ e.running \in BOOLEAN /\ e.exitCode \in Codes /\ e.podName \in PodNames
      /\ e.startedAt \in Nat /\ e.finishedAt \in Nat \cup {None} /\ now \in Nat
      /\ over[j] \in Nat \cup {None}
  BY DEF Job, JobsTypeOK, now, Bounded
<1>2. f = [podName |-> e.podName, running |-> FALSE, exitCode |-> e.exitCode,
           startedAt |-> e.startedAt,
           finishedAt |-> IF e.finishedAt = None THEN now ELSE e.finishedAt]
  <2> DEFINE t == IF e.finishedAt = None THEN now ELSE e.finishedAt
  <2>1. e = [podName |-> e.podName, running |-> e.running, exitCode |-> e.exitCode,
             startedAt |-> e.startedAt, finishedAt |-> e.finishedAt]
    BY DEF Job
  <2>2. f = [e EXCEPT !.running = FALSE, !.finishedAt = t]
    BY DEF FinishedNow
  <2> HIDE DEF t, f
  <2>3. f = [podName |-> e.podName, running |-> FALSE, exitCode |-> e.exitCode,
             startedAt |-> e.startedAt, finishedAt |-> t]
    BY <2>1, <2>2
  <2> QED  BY <2>3 DEF t
<1>3. f \in Job
  BY <1>1, <1>2 DEF Job
<1>4. ~ f.running /\ f.exitCode = e.exitCode
      /\ f.finishedAt = (IF e.finishedAt = None THEN now ELSE e.finishedAt)
  BY <1>2
<1>5. TrueEntry(e, p, over[j], j \in stops, ~ Undisturbed)
  BY DEF TrueOf
<1>6. over[j] # None /\ over[j] <= now /\ (j \in stops \/ p.command \in {"ended", "lost"})
  BY DEF ProcessOK
<1> HIDE DEF f
<1>7. f.finishedAt # None => \/ over[j] # None /\ over[j] <= f.finishedAt
                             \/ j \in stops /\ ~ Undisturbed
  BY <1>4, <1>5, <1>6 DEF TrueEntry
<1>8. TrueEntry(f, p, over[j], j \in stops, ~ Undisturbed)
  BY <1>4, <1>5, <1>6, <1>7 DEF TrueEntry
<1> QED  BY <1>3, <1>4, <1>8 DEF f, TrueOf

Advance(c, label, clone) == call' = [call EXCEPT ![c].pc = label, ![c].clone = clone]

\* The step and the clone fit what is known of the job.
MayAdvance(c, label, clone) ==
    /\ label \in Labels \ {"idle", "start"}
    /\ clone \in Job \cup {NoJob}
    /\ call[c].pc \notin {"idle", "start"}
    /\ UNCHANGED <<podVars, jobs, settled, stops>>
    /\ SpentGrows
    /\ label \in Polling => clone \in Job /\ TrueOf(call[c].job, clone)
    /\ label \in {"kill", "mark"} => call[c].tool = "shell_stop"
    /\ label = "mark" => IsDead(process[call[c].job]) \/ ~ Undisturbed'
    /\ label = "read_log" /\ call[c].late => ~ clone.running \/ ~ Undisturbed'

\* A call moves on to another step for its job, with another clone or the same,
\* which is true of the job if it will be used.
LEMMA Advances ==
    ASSUME ShellJobsAssumption, JobsInv, NEW c \in Calls, NEW label, NEW clone,
           Advance(c, label, clone), MayAdvance(c, label, clone)
    PROVE  JobsInv'
<1>0. /\ call' = [call EXCEPT ![c].pc = label, ![c].clone = clone]
      /\ label \in Labels \ {"idle", "start"}
      /\ clone \in Job \cup {NoJob}
      /\ call[c].pc \notin {"idle", "start"}
      /\ UNCHANGED <<podVars, jobs, settled, stops>>
      /\ SpentGrows
      /\ label \in Polling => clone \in Job /\ TrueOf(call[c].job, clone)
      /\ label \in {"kill", "mark"} => call[c].tool = "shell_stop"
      /\ label = "mark" => IsDead(process[call[c].job]) \/ ~ Undisturbed'
      /\ label = "read_log" /\ call[c].late => ~ clone.running \/ ~ Undisturbed'
  BY DEF Advance, MayAdvance
<1> DEFINE k == [call[c] EXCEPT !.pc = label, !.clone = clone]
           j == call[c].job
<1>1. JobsTypeOK /\ CallOK(c) /\ call[c] \in Call
  BY <1>0 DEF JobsInv, JobsTypeOK
<1>2. /\ k.pc = label /\ k.clone = clone /\ k.job = j /\ k.tool = call[c].tool
      /\ k.late = call[c].late /\ k.target = call[c].target /\ k \in Call
  BY <1>0, <1>1 DEF Call
<1>3. call' = [call EXCEPT ![c] = k]
  BY <1>0, <1>1 DEF JobsTypeOK
<1> HIDE DEF k
<1>4. call'[c] = k
  BY <1>0, <1>1, <1>3 DEF JobsTypeOK
<1>5. /\ j \in Jobs /\ k.target \in PodNames /\ process[j].command # "none"
      /\ k.tool = "shell_stop" => j \in stops
      /\ k.late => IsDead(process[j]) \/ ~ Undisturbed
      /\ label # "idle" /\ label # "start"
  BY <1>0, <1>1, <1>2 DEF CallOK
<1>6. ProcessOK(j) /\ (~ Undisturbed => ~ Undisturbed')
  BY <1>0, <1>5 DEF JobsInv, SpentGrows
<1>7. /\ process' = process /\ over' = over /\ stops' = stops
  BY <1>0 DEF podVars
<1>8. label \in Polling
         => TrueEntry(clone, process'[j], over'[j], j \in stops', ~ Undisturbed')
  <2>1. ASSUME label \in Polling PROVE TrueEntry(clone, process[j], over[j], j \in stops, ~ Undisturbed')
    <3>1. TrueEntry(clone, process[j], over[j], j \in stops, ~ Undisturbed)
      BY <1>0, <2>1 DEF TrueOf
    <3> QED  BY <1>0, <1>6, <3>1 DEF TrueEntry
  <2> QED  BY <1>0, <1>7, <2>1
<1>9. CallOK(c)'
  <2>1. /\ call'[c].pc = "idle" => call'[c] = NoCall
        /\ call'[c].pc # "idle" => call'[c].job \in Jobs /\ call'[c].target \in PodNames
        /\ call'[c].pc = "start" => process'[call'[c].job].command = "none"
        /\ call'[c].pc \notin {"idle", "start"} => process'[call'[c].job].command # "none"
    BY <1>0, <1>2, <1>4, <1>5, <1>7
  <2>2. call'[c].pc \in Polling =>
           /\ call'[c].clone \in Job
           /\ TrueEntry(call'[c].clone, process'[call'[c].job], over'[call'[c].job],
                        call'[c].job \in stops', ~ Undisturbed')
    BY <1>0, <1>2, <1>4, <1>8
  <2>3. /\ call'[c].pc # "idle" /\ call'[c].tool = "shell_stop" => call'[c].job \in stops'
        /\ call'[c].pc \in {"kill", "mark"} => call'[c].tool = "shell_stop"
    BY <1>0, <1>2, <1>4, <1>5, <1>7
  <2>4. call'[c].pc = "mark" =>
           \/ IsDead(process'[call'[c].job])
           \/ call'[c].job \in stops' /\ ~ Undisturbed'
    BY <1>0, <1>2, <1>4, <1>5, <1>7
  <2>5. call'[c].late =>
           \/ call'[c].pc # "idle" /\ IsDead(process'[call'[c].job])
           \/ ~ Undisturbed'
    BY <1>0, <1>2, <1>4, <1>5, <1>6, <1>7
  <2>6. call'[c].pc = "read_log" /\ call'[c].late
           => ~ call'[c].clone.running \/ ~ Undisturbed'
    BY <1>0, <1>2, <1>4
  <2> QED  BY <1>0, <2>1, <2>2, <2>3, <2>4, <2>5, <2>6 DEF CallOK, TrueOf
<1>10. ApartFrom(c, k)
  BY <1>0, <1>2, <1>5, MovesApart
<1>11. stops \subseteq stops' /\ stops' \in SUBSET Jobs /\ UNCHANGED <<podVars, jobs, settled>>
  BY <1>0, <1>1 DEF JobsTypeOK
<1> QED  BY <1>0, <1>2, <1>3, <1>9, <1>10, <1>11, CallMoves

\* Changing the step alone keeps the clone.
LEMMA StepKeepsClone ==
    ASSUME JobsTypeOK, NEW c \in Calls, NEW label, Step(c, label)
    PROVE  Advance(c, label, call[c].clone)
<1>1. call[c] \in Call /\ call \in [Calls -> Call]
  BY DEF JobsTypeOK
<1>2. [call[c] EXCEPT !.pc = label] = [call[c] EXCEPT !.pc = label, !.clone = call[c].clone]
  BY <1>1 DEF Call
<1> QED  BY <1>1, <1>2 DEF Step, Advance

\* A request of a poll or a stop is answered, or times out.
LEMMA RequestSteps ==
    ASSUME ShellJobsAssumption, JobsInv, NEW c \in Calls,
           \/ LookupJob(c) \/ ReadExitCode(c) \/ ReadExitCodeTimesOut(c)
           \/ CheckProcess(c) \/ CheckProcessTimesOut(c) \/ KillTimesOut(c)
    PROVE  JobsInv'
<1> DEFINE j == call[c].job
<1>1. JobsTypeOK /\ CallOK(c) /\ call[c] \in Call /\ call \in [Calls -> Call]
  BY DEF JobsInv, JobsTypeOK
<1>2. call[c].pc \notin {"idle", "start"}
  BY DEF LookupJob, ReadExitCode, ReadExitCodeTimesOut, CheckProcess, CheckProcessTimesOut,
         KillTimesOut
<1>3. /\ j \in Jobs /\ process[j].command # "none" /\ ProcessOK(j) /\ EntryOK(j)
      /\ process[j] \in Process
  BY <1>1, <1>2 DEF CallOK, JobsInv, JobsTypeOK
<1>4. call[c].late => IsDead(process[j]) \/ ~ Undisturbed
  BY <1>1 DEF CallOK
<1>5. CASE LookupJob(c)
  <2> DEFINE label == IF call[c].tool = "shell_stop" THEN "kill" ELSE "read_rc"
             clone == jobs[j]
  <2>1. Advance(c, label, clone)
    BY <1>1, <1>5 DEF LookupJob, Advance
  <2>2. clone \in Job /\ TrueOf(j, clone)
    BY <1>1, <1>3, <1>5 DEF LookupJob, Known, EntryOK, JobsTypeOK
  <2>3. SpentGrows /\ UNCHANGED <<podVars, jobs, settled, stops>>
    BY <1>1, <1>5, NothingSpent DEF LookupJob
  <2>4. /\ label \in Labels \ {"idle", "start"}
        /\ label \in {"kill", "mark"} => call[c].tool = "shell_stop"
        /\ label # "mark" /\ label # "read_log"
    BY DEF Labels
  <2> HIDE DEF label, clone
  <2>5. MayAdvance(c, label, clone)
    BY <1>2, <2>2, <2>3, <2>4 DEF MayAdvance, Labels, Polling
  <2> QED  BY <2>1, <2>5, Advances
<1>6. CASE ReadExitCode(c)
  <2>1. SpentGrows /\ UNCHANGED <<podVars, jobs, settled, stops>>
    BY <1>1, <1>6, NothingSpent DEF ReadExitCode
  <2>2. call[c].clone \in Job /\ TrueOf(j, call[c].clone)
    BY <1>1, <1>6 DEF CallOK, ReadExitCode, Polling
  <2>3. CASE process[j].rc = None
    <3>1. Step(c, "check_process")
      BY <1>6, <2>3 DEF ReadExitCode, Step
    <3>2. Advance(c, "check_process", call[c].clone)
      BY <1>1, <3>1, StepKeepsClone
    <3>3. MayAdvance(c, "check_process", call[c].clone)
      BY <1>2, <2>1, <2>2 DEF MayAdvance, Labels, Polling
    <3> QED  BY <3>2, <3>3, Advances
  <2>4. CASE process[j].rc # None
    <3> DEFINE e == FinishedNow(call[c].clone)
               clone == [e EXCEPT !.exitCode = process[j].rc]
    <3>1. Advance(c, "read_log", clone)
      BY <1>1, <1>6, <2>4 DEF ReadExitCode, Advance
    <3>2. /\ process[j].command = "ended" /\ process[j].rc = process[j].code
          /\ IsDead(process[j]) /\ process[j].rc \in Codes
      BY <1>3, <2>4 DEF ProcessOK, IsDead, Process
    <3>3. e \in Job /\ TrueOf(j, e) /\ ~ e.running
      BY <1>1, <1>3, <2>2, <3>2, FinishedIsTrue
    <3> HIDE DEF e
    <3>4. /\ clone \in Job /\ clone.running = e.running /\ clone.finishedAt = e.finishedAt
          /\ clone.exitCode = process[j].code
      BY <3>2, <3>3 DEF Job
    <3> HIDE DEF clone
    <3>5. TrueOf(j, clone)
      BY <3>3, <3>4 DEF TrueOf, TrueEntry
    <3>6. MayAdvance(c, "read_log", clone)
      BY <1>2, <2>1, <3>3, <3>4, <3>5 DEF MayAdvance, Labels, Polling
    <3> QED  BY <3>1, <3>6, Advances
  <2> QED  BY <2>3, <2>4
<1>7. CASE ReadExitCodeTimesOut(c)
  <2>1. SpentGrows /\ UNCHANGED <<podVars, jobs, settled, stops>>
    BY <1>1, <1>7, SpendGrows DEF ReadExitCodeTimesOut, Mishap, Bounded
  <2>2. call[c].clone \in Job /\ TrueOf(j, call[c].clone)
    BY <1>1, <1>7 DEF CallOK, ReadExitCodeTimesOut, Polling
  <2>3. Advance(c, "check_process", call[c].clone)
    BY <1>1, <1>7, StepKeepsClone DEF ReadExitCodeTimesOut
  <2>4. MayAdvance(c, "check_process", call[c].clone)
    BY <1>2, <2>1, <2>2 DEF MayAdvance, Labels, Polling
  <2> QED  BY <2>3, <2>4, Advances
<1>8. CASE CheckProcess(c)
  <2>1. SpentGrows /\ UNCHANGED <<podVars, jobs, settled, stops>> /\ Undisturbed' = Undisturbed
    BY <1>1, <1>8, NothingSpent DEF CheckProcess
  <2>2. call[c].clone \in Job /\ TrueOf(j, call[c].clone)
    BY <1>1, <1>8 DEF CallOK, CheckProcess, Polling
  <2>3. CASE ProcessAlive(j)
    <3> DEFINE clone == [call[c].clone EXCEPT !.running = TRUE]
    <3>1. Advance(c, "read_log", clone)
      BY <1>1, <1>8, <2>3 DEF CheckProcess, Advance
    <3>2. /\ clone \in Job /\ clone.running = TRUE
          /\ clone.exitCode = call[c].clone.exitCode
          /\ clone.finishedAt = call[c].clone.finishedAt
      BY <2>2 DEF Job
    <3> HIDE DEF clone
    <3>3. TrueOf(j, clone)
      BY <2>2, <3>2 DEF TrueOf, TrueEntry
    <3>4. call[c].late => ~ Undisturbed
      BY <1>3, <1>4, <2>3 DEF ProcessAlive, IsDead, JobsInv, PodOK
    <3>5. MayAdvance(c, "read_log", clone)
      BY <1>2, <2>1, <3>2, <3>3, <3>4 DEF MayAdvance, Labels, Polling
    <3> QED  BY <3>1, <3>5, Advances
  <2>4. CASE ~ ProcessAlive(j)
    <3> DEFINE clone == FinishedNow(call[c].clone)
    <3>1. Advance(c, "read_log", clone)
      BY <1>1, <1>8, <2>4 DEF CheckProcess, Advance
    <3>2. IsDead(process[j])
      BY <1>3, <2>4 DEF IsDead, ProcessAlive
    <3>3. clone \in Job /\ TrueOf(j, clone) /\ ~ clone.running
      BY <1>1, <1>3, <2>2, <3>2, FinishedIsTrue
    <3> HIDE DEF clone
    <3>4. MayAdvance(c, "read_log", clone)
      BY <1>2, <2>1, <3>3 DEF MayAdvance, Labels, Polling
    <3> QED  BY <3>1, <3>4, Advances
  <2> QED  BY <2>3, <2>4
<1>9. CASE CheckProcessTimesOut(c)
  <2>1. SpentGrows /\ UNCHANGED <<podVars, jobs, settled, stops>> /\ ~ Undisturbed'
    BY <1>1, <1>9, SpendGrows DEF CheckProcessTimesOut, Mishap, Bounded
  <2>2. call[c].clone \in Job /\ TrueOf(j, call[c].clone)
    BY <1>1, <1>9 DEF CallOK, CheckProcessTimesOut, Polling
  <2> DEFINE clone == [call[c].clone EXCEPT !.running = TRUE]
  <2>3. Advance(c, "read_log", clone)
    BY <1>1, <1>9 DEF CheckProcessTimesOut, Advance
  <2>4. /\ clone \in Job /\ clone.running = TRUE
        /\ clone.exitCode = call[c].clone.exitCode
        /\ clone.finishedAt = call[c].clone.finishedAt
    BY <2>2 DEF Job
  <2> HIDE DEF clone
  <2>5. TrueOf(j, clone)
    BY <2>2, <2>4 DEF TrueOf, TrueEntry
  <2>6. MayAdvance(c, "read_log", clone)
    BY <1>2, <2>1, <2>4, <2>5 DEF MayAdvance, Labels, Polling
  <2> QED  BY <2>3, <2>6, Advances
<1>10. CASE KillTimesOut(c)
  <2>1. SpentGrows /\ UNCHANGED <<podVars, jobs, settled, stops>> /\ ~ Undisturbed'
    BY <1>1, <1>10, SpendGrows DEF KillTimesOut, Mishap, Bounded
  <2>2. Advance(c, "mark", call[c].clone)
    BY <1>1, <1>10, StepKeepsClone DEF KillTimesOut
  <2>3. call[c].tool = "shell_stop" /\ call[c].clone \in Job \cup {NoJob}
    BY <1>1, <1>10 DEF KillTimesOut, CallOK, Call
  <2>4. MayAdvance(c, "mark", call[c].clone)
    BY <1>2, <2>1, <2>3 DEF MayAdvance, Labels, Polling
  <2> QED  BY <2>2, <2>4, Advances
<1> QED  BY <1>5, <1>6, <1>7, <1>8, <1>9, <1>10

\* A call is refused, ends with an error or is given up.
LEMMA CallsEnd ==
    ASSUME ShellJobsAssumption, JobsInv, NEW c \in Calls,
           PodUnreachable(c) \/ ContextEnds(c) \/ LookupFails(c)
    PROVE  JobsInv'
<1>1. /\ Return(c) /\ UNCHANGED <<podVars, jobs, settled, stops>> /\ UNCHANGED spent
      /\ JobsTypeOK
  BY DEF PodUnreachable, ContextEnds, LookupFails, JobsInv
<1>2. SpentGrows
  BY <1>1, NothingSpent
<1> QED  BY <1>1, <1>2, EndsOnly

\* A call begins.
LEMMA CallBegins ==
    ASSUME ShellJobsAssumption, JobsInv, NEW c \in Calls, call[c].pc = "idle", BeginJobCall(c)
    PROVE  JobsInv'
<1>1. JobsTypeOK /\ (\A d \in Calls : CallOK(d)) /\ \A j \in Jobs : EntryOK(j)
  BY DEF JobsInv
<1>2. ASSUME NEW tool \in Tools, NEW j \in Jobs, NEW label \in {"start", "lookup"},
             BeginCall(c, tool, j, label),
             label = "start" => j \in UnusedJobs,
             label # "start" => process[j].command # "none",
             stops' = IF tool = "shell_stop" THEN stops \cup {j} ELSE stops,
             tool = "shell_stop" => label = "lookup"
      PROVE  JobsInv'
  <2> DEFINE k == [pc |-> label, tool |-> tool, job |-> j, target |-> pod, clone |-> NoJob,
                   late |-> j \in settled]
  <2>1. /\ call' = [call EXCEPT ![c] = k] /\ pod # None /\ Spend("calls")
        /\ UNCHANGED <<podVars, jobs, settled>>
    BY <1>2 DEF BeginCall
  <2>2. k \in Call
    BY <1>1, <1>2, <2>1 DEF Call, Labels, JobsTypeOK
  <2>3. /\ k.pc = label /\ k.tool = tool /\ k.job = j /\ k.target = pod /\ k.late = (j \in settled)
    OBVIOUS
  <2> HIDE DEF k
  <2>4. call'[c] = k
    BY <1>1, <2>1 DEF JobsTypeOK
  <2>5. SpentGrows /\ Undisturbed' = Undisturbed
    BY <1>1, <2>1, SpendGrows DEF Bounded
  <2>6. stops \subseteq stops' /\ stops' \in SUBSET Jobs
    BY <1>1, <1>2 DEF JobsTypeOK
  <2>7. process' = process /\ pod \in PodNames
    BY <1>1, <2>1 DEF podVars, JobsTypeOK
  <2>8. label = "start" => process[j].command = "none"
    BY <1>2 DEF UnusedJobs
  <2>9. j \in settled => IsDead(process[j]) \/ ~ Undisturbed
    BY <1>1 DEF EntryOK
  <2>10. CallOK(c)'
    BY <1>2, <2>3, <2>4, <2>5, <2>6, <2>7, <2>8, <2>9 DEF CallOK, Polling
  <2>11. ApartFrom(c, k)
    <3>1. \A d \in Calls : label = "start" => call[d].job # j
      BY <1>2 DEF UnusedJobs
    <3>2. \A d \in Calls : call[d].pc = "start" => process[call[d].job].command = "none"
      BY <1>1 DEF CallOK
    <3> QED  BY <1>2, <2>3, <3>1, <3>2 DEF ApartFrom
  <2> QED  BY <2>1, <2>2, <2>5, <2>6, <2>10, <2>11, CallMoves
<1>3. CASE ShellAsync(c)
  <2> DEFINE j == CHOOSE j \in UnusedJobs : TRUE
  <2>1. j \in UnusedJobs /\ BeginCall(c, "shell_async", j, "start") /\ stops' = stops
    BY <1>3 DEF ShellAsync
  <2> HIDE DEF j
  <2>2. j \in Jobs
    BY <2>1 DEF UnusedJobs
  <2> QED  BY <1>2, <2>1, <2>2 DEF Tools
<1>4. ASSUME NEW j \in Jobs, ShellPoll(c, j) \/ ShellWait(c, j) \/ ShellStop(c, j)
      PROVE  JobsInv'
  <2>1. PICK tool \in {"shell_poll", "shell_wait", "shell_stop"} :
           /\ BeginCall(c, tool, j, "lookup")
           /\ stops' = IF tool = "shell_stop" THEN stops \cup {j} ELSE stops
    BY <1>4 DEF ShellPoll, ShellWait, ShellStop
  <2>2. process[j].command # "none" /\ tool \in Tools
    BY <1>4 DEF ShellPoll, ShellWait, ShellStop, Tools
  <2> QED  BY <1>2, <2>1, <2>2
<1> QED  BY <1>3, <1>4 DEF BeginJobCall

-----------------------------------------------------------------------------
(* Steps of the jobs, and of the calls that change them.                   *)

\* Jobs and pod change while no call moves.
LEMMA JobsMove ==
    ASSUME ShellJobsAssumption, JobsInv, JobsTypeOK', GoesOn, UNCHANGED call,
           \A j \in Jobs : process[j].command = "none" => process'[j].command = "none",
           \A j \in Jobs : ProcessOK(j)' /\ EntryOK(j)', PodOK'
    PROVE  JobsInv'
<1>1. \A c \in Calls : CallOK(c)'
  <2> SUFFICES ASSUME NEW c \in Calls PROVE CallOK(c)'
    OBVIOUS
  <2>1. call[c].pc = "start" => process'[call[c].job].command = "none"
    BY DEF JobsInv, CallOK
  <2> QED  BY <2>1, CallStaysOK DEF JobsInv
<1>2. StartsAlone'
  BY DEF JobsInv, StartsAlone
<1> QED  BY <1>1, <1>2 DEF JobsInv

\* A call that is past its start moves on, or returns, and changes jobs.
LEMMA CallMovesJobs ==
    ASSUME ShellJobsAssumption, JobsInv, JobsTypeOK', GoesOn,
           NEW c \in Calls, NEW k \in Call, call' = [call EXCEPT ![c] = k],
           k.pc # "start", k.job = call[c].job \/ k.job = None, CallOK(c)',
           \A d \in Calls \ {c} : call[d].pc = "start" => process'[call[d].job].command = "none",
           \A j \in Jobs : ProcessOK(j)' /\ EntryOK(j)', PodOK'
    PROVE  JobsInv'
<1>1. JobsTypeOK
  BY DEF JobsInv
<1>2. \A m \in Calls : call'[m] = IF m = c THEN k ELSE call[m]
  BY <1>1 DEF JobsTypeOK
<1>3. \A d \in Calls : CallOK(d)'
  <2> SUFFICES ASSUME NEW d \in Calls, d # c PROVE CallOK(d)'
    OBVIOUS
  <2>1. call'[d] = call[d] /\ (call[d].pc = "start" => process'[call[d].job].command = "none")
    BY <1>2
  <2> QED  BY <2>1, CallStaysOK
<1>4. ApartFrom(c, k)
  BY MovesApart
<1>5. StartsAlone'
  <2> SUFFICES ASSUME NEW d \in Calls, NEW g \in Calls, d # g, call'[d].pc = "start"
               PROVE  call'[g].job # call'[d].job
    BY DEF StartsAlone
  <2>1. CASE g = c
    BY <1>2, <1>4, <2>1 DEF ApartFrom
  <2>2. CASE d # c /\ g # c
    BY <1>2, <2>2 DEF StartsAlone, JobsInv
  <2> QED  BY <1>2, <2>1, <2>2
<1> QED  BY <1>3, <1>5 DEF JobsInv

\* Nothing happens to a job: what is known of it remains true.
LEMMA ProcessStaysOK ==
    ASSUME JobsTypeOK, JobsTypeOK', GoesOn, NEW j \in Jobs, ProcessOK(j),
           process'[j] = process[j], over'[j] = over[j]
    PROVE  ProcessOK(j)'
<1>1. over[j] \in Nat \cup {None} /\ now \in Nat /\ now' \in Nat
  BY DEF JobsTypeOK, now, Bounded
<1> QED  BY <1>1 DEF ProcessOK, GoesOn

\* The end of a poll.
LEMMA StoreCloneStep ==
    ASSUME ShellJobsAssumption, JobsInv, NEW c \in Calls, StoreClone(c)
    PROVE  JobsInv'
<1> DEFINE j == call[c].job
           e == call[c].clone
           k == IF call[c].tool = "shell_poll" \/ ~ e.running THEN NoCall
                ELSE [call[c] EXCEPT !.pc = "lookup", !.clone = NoJob]
<1>1. JobsTypeOK /\ CallOK(c) /\ call[c] \in Call /\ call \in [Calls -> Call]
  BY DEF JobsInv, JobsTypeOK
<1>2. /\ call[c].pc = "read_log" /\ jobs' = [jobs EXCEPT ![j] = e]
      /\ settled' = IF e.running THEN settled ELSE settled \cup {j}
      /\ UNCHANGED <<podVars, stops, spent>>
  BY DEF StoreClone
<1>3. /\ j \in Jobs /\ e \in Job /\ TrueOf(j, e) /\ process[j].command # "none"
      /\ call[c].target \in PodNames
      /\ call[c].tool = "shell_stop" => j \in stops
      /\ call[c].late => IsDead(process[j]) \/ ~ Undisturbed
  BY <1>1, <1>2 DEF CallOK, Polling
<1>4. /\ pod' = pod /\ process' = process /\ foreign' = foreign /\ over' = over
      /\ stops' = stops /\ spent' = spent
  BY <1>2 DEF podVars
<1>5. call' = [call EXCEPT ![c] = k]
  BY <1>1 DEF StoreClone, Return
<1>6. k \in Call
  <2>1. NoCall \in Call
    BY DEF NoCall, Call, Labels, Tools
  <2>2. [call[c] EXCEPT !.pc = "lookup", !.clone = NoJob] \in Call
    BY <1>1 DEF Call, Labels
  <2> QED  BY <2>1, <2>2
<1>7. k.pc # "start" /\ (k.job = call[c].job \/ k.job = None)
  BY <1>1 DEF NoCall, Call
<1>8. JobsTypeOK'
  <2>1. jobs' \in [Jobs -> Job \cup {NoJob}]
    BY <1>1, <1>2, <1>3 DEF JobsTypeOK
  <2>2. call' \in [Calls -> Call]
    BY <1>1, <1>5, <1>6
  <2>3. settled' \in SUBSET Jobs
    BY <1>1, <1>2, <1>3 DEF JobsTypeOK
  <2> QED  BY <1>1, <1>4, <2>1, <2>2, <2>3 DEF JobsTypeOK
<1>9. Undisturbed' = Undisturbed /\ now' = now
  BY <1>4 DEF Undisturbed, now
<1>10. GoesOn
  BY <1>1, <1>4, <1>9 DEF GoesOn, SameOrLater, JobsTypeOK, now, Bounded
<1>11. CallOK(c)'
  <2>1. call'[c] = k
    BY <1>1, <1>5
  <2>2. CASE k = NoCall
    <3>1. call' = [call EXCEPT ![c] = NoCall]
      BY <1>5, <2>2
    <3> QED  BY <1>1, <3>1, ReturnedIsOK DEF Return
  <2>3. CASE k = [call[c] EXCEPT !.pc = "lookup", !.clone = NoJob]
    <3>1. /\ k.pc = "lookup" /\ k.job = j /\ k.target = call[c].target
          /\ k.tool = call[c].tool /\ k.late = call[c].late
      BY <1>1, <2>3 DEF Call
    <3> HIDE DEF k
    <3> QED  BY <1>3, <1>4, <1>9, <2>1, <3>1 DEF CallOK, Polling
  <2> QED  BY <2>2, <2>3
<1>12. \A i \in Jobs : ProcessOK(i)'
  BY <1>1, <1>4, <1>8, <1>10, ProcessStaysOK DEF JobsInv
<1>13. \A i \in Jobs : EntryOK(i)'
  <2> SUFFICES ASSUME NEW i \in Jobs PROVE EntryOK(i)'
    OBVIOUS
  <2>1. CASE i # j
    <3>1. jobs'[i] \in {jobs[i], NoJob} /\ (i \in settled' => i \in settled)
      BY <1>1, <1>2, <2>1 DEF JobsTypeOK
    <3> QED  BY <1>4, <1>8, <1>10, <3>1, EntryStaysOK
  <2>2. CASE i = j
    <3>1. jobs'[i] = e
      BY <1>1, <1>2, <2>2 DEF JobsTypeOK
    <3>2. TrueEntry(e, process[j], over[j], j \in stops, ~ Undisturbed)
      BY <1>3 DEF TrueOf
    <3>3. i \in settled' => IsDead(process[j]) \/ ~ Undisturbed
      <4>1. EntryOK(j)
        BY <1>3 DEF JobsInv
      <4>2. ~ e.running => IsDead(process[j]) \/ ~ Undisturbed
        BY <3>2 DEF TrueEntry
      <4> QED  BY <1>2, <2>2, <4>1, <4>2 DEF EntryOK
    <3> QED  BY <1>3, <1>4, <1>9, <2>2, <3>1, <3>2, <3>3 DEF EntryOK, TrueOf
  <2> QED  BY <2>1, <2>2
<1>14. PodOK'
  BY <1>4, <1>9 DEF JobsInv, PodOK
<1>15. \A d \in Calls : call[d].pc = "start" => process'[call[d].job].command = "none"
  BY <1>4 DEF JobsInv, CallOK
<1> HIDE DEF k
<1> QED  BY <1>5, <1>6, <1>7, <1>8, <1>10, <1>11, <1>12, <1>13, <1>14, <1>15, CallMovesJobs

\* The end of a stop.
LEMMA MarkStoppedStep ==
    ASSUME ShellJobsAssumption, JobsInv, NEW c \in Calls, MarkStopped(c)
    PROVE  JobsInv'
<1> DEFINE j == call[c].job
           e == jobs[j]
           f == [FinishedNow(e) EXCEPT !.exitCode = 0]
<1>1. JobsTypeOK /\ CallOK(c) /\ call[c] \in Call /\ call \in [Calls -> Call]
  BY DEF JobsInv, JobsTypeOK
<1>2. /\ call[c].pc = "mark" /\ jobs' = (IF jobs[j] = NoJob THEN jobs ELSE [jobs EXCEPT ![j] = f])
      /\ settled' = settled \cup {j}
      /\ UNCHANGED <<podVars, stops, spent>> /\ Return(c)
  <2>1. (IF jobs[j] = NoJob THEN jobs
         ELSE [jobs EXCEPT ![j] = [FinishedNow(@) EXCEPT !.exitCode = 0]])
          = (IF jobs[j] = NoJob THEN jobs ELSE [jobs EXCEPT ![j] = f])
    OBVIOUS
  <2> QED  BY <2>1 DEF MarkStopped
<1>3. /\ j \in Jobs /\ process[j].command # "none" /\ j \in stops
      /\ IsDead(process[j]) \/ ~ Undisturbed
  BY <1>1, <1>2 DEF CallOK
<1>4. /\ pod' = pod /\ process' = process /\ foreign' = foreign /\ over' = over
      /\ stops' = stops /\ spent' = spent
  BY <1>2 DEF podVars
<1>5. call' = [call EXCEPT ![c] = NoCall]
  BY <1>2 DEF Return
<1>6. NoCall \in Call /\ NoCall.pc # "start" /\ NoCall.job = None /\ CallOK(c)'
  BY <1>1, <1>2, ReturnedIsOK
<1>7. ASSUME jobs[j] # NoJob
      PROVE  f \in Job /\ ~ f.running /\ f.exitCode = 0
             /\ f.finishedAt = IF e.finishedAt = None THEN now ELSE e.finishedAt
  <2> DEFINE t == IF e.finishedAt = None THEN now ELSE e.finishedAt
  <2>1. /\ e \in Job /\ now \in Nat
        /\ e.startedAt \in Nat /\ e.podName \in PodNames
        /\ e.finishedAt \in Nat \cup {None} /\ 0 \in Codes
    BY <1>1, <1>3, <1>7 DEF JobsTypeOK, Job, ShellJobsAssumption, now, Bounded
  <2>2. e = [podName |-> e.podName, running |-> e.running, exitCode |-> e.exitCode,
             startedAt |-> e.startedAt, finishedAt |-> e.finishedAt]
    BY <2>1 DEF Job
  <2>3. FinishedNow(e) = [e EXCEPT !.running = FALSE, !.finishedAt = t]
    BY DEF FinishedNow
  <2>4. t \in Nat \cup {None}
    BY <2>1
  <2> DEFINE g == FinishedNow(e)
  <2>5. f = [g EXCEPT !.exitCode = 0]
    OBVIOUS
  <2> HIDE DEF e, t, f
  <2>6. g = [podName |-> e.podName, running |-> FALSE, exitCode |-> e.exitCode,
             startedAt |-> e.startedAt, finishedAt |-> t]
    BY <2>2, <2>3
  <2> HIDE DEF g
  <2>7. f = [podName |-> e.podName, running |-> FALSE, exitCode |-> 0,
             startedAt |-> e.startedAt, finishedAt |-> t]
    BY <2>5, <2>6
  <2>8. f \in Job /\ ~ f.running /\ f.exitCode = 0 /\ f.finishedAt = t
    BY <2>1, <2>4, <2>7 DEF Job
  <2> QED  BY <2>8 DEF t, e, f
<1> HIDE DEF f
<1>8. JobsTypeOK'
  <2>1. jobs' \in [Jobs -> Job \cup {NoJob}]
    BY <1>1, <1>2, <1>3, <1>7 DEF JobsTypeOK
  <2>2. call' \in [Calls -> Call]
    BY <1>1, <1>5, <1>6
  <2>3. settled' \in SUBSET Jobs
    BY <1>1, <1>2, <1>3 DEF JobsTypeOK
  <2> QED  BY <1>1, <1>4, <2>1, <2>2, <2>3 DEF JobsTypeOK
<1>9. Undisturbed' = Undisturbed /\ now' = now
  BY <1>4 DEF Undisturbed, now
<1>10. GoesOn
  BY <1>1, <1>4, <1>9 DEF GoesOn, SameOrLater, JobsTypeOK, now, Bounded
<1>12. \A i \in Jobs : ProcessOK(i)'
  BY <1>1, <1>4, <1>8, <1>10, ProcessStaysOK DEF JobsInv
<1>13. \A i \in Jobs : EntryOK(i)'
  <2> SUFFICES ASSUME NEW i \in Jobs PROVE EntryOK(i)'
    OBVIOUS
  <2>1. CASE i # j
    <3>1. jobs'[i] \in {jobs[i], NoJob} /\ (i \in settled' => i \in settled)
      BY <1>1, <1>2, <2>1 DEF JobsTypeOK
    <3> QED  BY <1>4, <1>8, <1>10, <3>1, EntryStaysOK
  <2>2. CASE i = j
    <3>1. ProcessOK(j) /\ EntryOK(j)
      BY <1>3 DEF JobsInv
    <3>2. ASSUME jobs'[i] # NoJob
          PROVE  TrueEntry(jobs'[i], process'[i], over'[i], i \in stops', ~ Undisturbed')
      <4>1. jobs[j] # NoJob /\ jobs'[i] = f
        BY <1>1, <1>2, <1>3, <2>2, <3>2 DEF JobsTypeOK
      <4>2. TrueEntry(e, process[j], over[j], j \in stops, ~ Undisturbed)
        BY <3>1, <4>1 DEF EntryOK, TrueOf
      <4>3. /\ ~ f.running /\ f.exitCode = 0
            /\ f.finishedAt = IF e.finishedAt = None THEN now ELSE e.finishedAt
        BY <1>7, <4>1
      <4>4. f.finishedAt # None => \/ over[j] # None /\ over[j] <= f.finishedAt
                                   \/ j \in stops /\ ~ Undisturbed
        <5>1. IsDead(process[j]) => over[j] # None /\ over[j] <= now
          BY <3>1 DEF ProcessOK
        <5> QED  BY <1>3, <4>2, <4>3, <5>1 DEF TrueEntry
      <4>5. TrueEntry(f, process[j], over[j], j \in stops, ~ Undisturbed)
        BY <1>3, <4>3, <4>4 DEF TrueEntry
      <4> QED  BY <1>4, <1>9, <2>2, <4>1, <4>5
    <3>3. jobs[j] = NoJob => jobs'[i] = NoJob
      BY <1>2, <2>2
    <3>4. i \in settled' => IsDead(process'[i]) \/ ~ Undisturbed'
      BY <1>3, <1>4, <1>9, <2>2
    <3> QED  BY <1>3, <1>4, <2>2, <3>2, <3>3, <3>4 DEF EntryOK, TrueOf
  <2> QED  BY <2>1, <2>2
<1>14. PodOK'
  BY <1>4, <1>9 DEF JobsInv, PodOK
<1>15. \A d \in Calls : call[d].pc = "start" => process'[call[d].job].command = "none"
  BY <1>4 DEF JobsInv, CallOK
<1> QED  BY <1>5, <1>6, <1>8, <1>10, <1>12, <1>13, <1>14, <1>15, CallMovesJobs

\* One process changes.
LEMMA OneProcess ==
    ASSUME JobsTypeOK, NEW j \in Jobs, NEW p \in Process, SetProcess(j, p)
    PROVE  /\ process' \in [Jobs -> Process] /\ process'[j] = p
           /\ \A i \in Jobs \ {j} : process'[i] = process[i]
  BY DEF JobsTypeOK, SetProcess

\* One job is over.
LEMMA OneOver ==
    ASSUME JobsTypeOK, NEW j \in Jobs, IsOverNow(j)
    PROVE  /\ over' \in [Jobs -> Nat \cup {None}]
           /\ over'[j] = IF over[j] = None THEN now ELSE over[j]
           /\ \A i \in Jobs \ {j} : over'[i] = over[i]
<1>1. now \in Nat /\ over \in [Jobs -> Nat \cup {None}]
  BY DEF JobsTypeOK, now, Bounded
<1>2. over' = [over EXCEPT ![j] = IF over[j] = None THEN now ELSE over[j]]
  BY DEF IsOverNow
<1> QED  BY <1>1, <1>2

\* A command ends, or its wrapper, or a process that has an old PID.
LEMMA ProcessSteps ==
    ASSUME ShellJobsAssumption, JobsInv, NEW j \in Jobs, ProcessStep(j)
    PROVE  JobsInv'
<1>1. /\ JobsTypeOK /\ ProcessOK(j) /\ EntryOK(j) /\ process[j] \in Process
      /\ over[j] \in Nat \cup {None} /\ now \in Nat
  BY DEF JobsInv, JobsTypeOK, now, Bounded
<1>2. UNCHANGED <<callVars, spent>> /\ pod' = pod
  BY DEF ProcessStep, CommandEnds, WrapperFinishes, ForeignProcessEnds
<1>3. /\ jobs' = jobs /\ call' = call /\ settled' = settled /\ stops' = stops /\ spent' = spent
      /\ now' = now /\ Undisturbed' = Undisturbed
  BY <1>2 DEF callVars, now, Undisturbed
<1>4. /\ process' \in [Jobs -> Process] /\ over' \in [Jobs -> Nat \cup {None}]
      /\ foreign' \subseteq foreign
      /\ \A i \in Jobs \ {j} : process'[i] = process[i] /\ over'[i] = over[i]
      /\ SameOrLater(process[j], process'[j])
      /\ process'[j].command = "none" <=> process[j].command = "none"
      /\ over[j] # None => over'[j] = over[j]
      /\ ProcessOK(j)'
  <2>1. CASE CommandEnds(j)
    <3>1. PICK code \in Codes :
             SetProcess(j, [process[j] EXCEPT !.command = "ended", !.code = code])
      BY <2>1 DEF CommandEnds
    <3> DEFINE p == [process[j] EXCEPT !.command = "ended", !.code = code]
    <3>2. /\ p \in Process /\ p.command = "ended" /\ p.wrapper = process[j].wrapper
          /\ p.rc = process[j].rc /\ process[j].command = "running"
      BY <1>1, <2>1 DEF Process, CommandEnds
    <3> HIDE DEF p
    <3>3. /\ process' \in [Jobs -> Process] /\ process'[j] = p
          /\ \A i \in Jobs \ {j} : process'[i] = process[i]
      BY <1>1, <3>1, <3>2, OneProcess DEF p
    <3>4. over' = over /\ foreign' = foreign
      BY <2>1 DEF CommandEnds
    <3>5. SameOrLater(process[j], process'[j])
      BY <3>2, <3>3 DEF SameOrLater, IsDead
    <3>6. ProcessOK(j)'
      BY <1>1, <1>3, <3>2, <3>3, <3>4 DEF ProcessOK, IsDead
    <3> QED  BY <1>1, <3>2, <3>3, <3>4, <3>5, <3>6 DEF JobsTypeOK
  <2>2. CASE WrapperFinishes(j)
    <3> DEFINE p == [process[j] EXCEPT !.wrapper = FALSE, !.rc = process[j].code]
    <3>1. /\ p \in Process /\ p.command = "ended" /\ ~ p.wrapper /\ p.code = process[j].code
          /\ p.rc = process[j].code /\ process[j].command = "ended" /\ SetProcess(j, p)
          /\ IsOverNow(j) /\ foreign' = foreign
      BY <1>1, <2>2 DEF Process, WrapperFinishes
    <3> HIDE DEF p
    <3>2. /\ process' \in [Jobs -> Process] /\ process'[j] = p
          /\ \A i \in Jobs \ {j} : process'[i] = process[i]
      BY <1>1, <3>1, OneProcess
    <3>3. /\ over' \in [Jobs -> Nat \cup {None}]
          /\ over'[j] = (IF over[j] = None THEN now ELSE over[j])
          /\ \A i \in Jobs \ {j} : over'[i] = over[i]
      BY <1>1, <3>1, OneOver
    <3>4. SameOrLater(process[j], process'[j])
      BY <3>1, <3>2 DEF SameOrLater, IsDead
    <3>5. over'[j] # None /\ over'[j] <= now
      BY <1>1, <3>3 DEF ProcessOK, ShellJobsAssumption
    <3>6. ProcessOK(j)'
      BY <1>3, <3>1, <3>2, <3>5 DEF ProcessOK, IsDead
    <3> QED  BY <3>1, <3>2, <3>3, <3>4, <3>6
  <2>3. CASE ForeignProcessEnds(j)
    <3>1. process' = process /\ over' = over /\ foreign' \subseteq foreign
      BY <2>3 DEF ForeignProcessEnds
    <3> QED  BY <1>1, <1>3, <3>1 DEF JobsTypeOK, SameOrLater, ProcessOK
  <2> QED  BY <2>1, <2>2, <2>3 DEF ProcessStep
<1>5. JobsTypeOK'
  BY <1>1, <1>2, <1>3, <1>4 DEF JobsTypeOK
<1>6. GoesOn
  <2>1. \A i \in Jobs : SameOrLater(process[i], process'[i])
    BY <1>4 DEF SameOrLater
  <2> QED  BY <1>1, <1>3, <1>4, <2>1 DEF GoesOn
<1>7. \A i \in Jobs : process'[i].command = "none" <=> process[i].command = "none"
  BY <1>4
<1>8. \A i \in Jobs : ProcessOK(i)'
  BY <1>1, <1>4, <1>5, <1>6, ProcessStaysOK DEF JobsInv
<1>9. \A i \in Jobs : EntryOK(i)'
  BY <1>3, <1>5, <1>6, <1>7, EntryStaysOK
<1>10. PodOK'
  BY <1>2, <1>3, <1>4 DEF JobsInv, PodOK
<1> QED  BY <1>3, <1>5, <1>6, <1>7, <1>8, <1>9, <1>10, JobsMove

\* The pod goes away or comes back, or time passes.
LEMMA PodSteps ==
    ASSUME ShellJobsAssumption, JobsInv, PodIsDeleted \/ PodIsBack \/ Tick
    PROVE  JobsInv'
<1>1. /\ JobsTypeOK /\ now \in Nat /\ process \in [Jobs -> Process]
      /\ over \in [Jobs -> Nat \cup {None}] /\ \A i \in Jobs : ProcessOK(i)
  BY DEF JobsInv, JobsTypeOK, now, Bounded
<1>2. /\ jobs' = jobs /\ call' = call /\ settled' = settled /\ stops' = stops
  BY DEF callVars, PodIsDeleted, PodIsBack, Tick
<1>3. SpentGrows
  <2>1. CASE PodIsDeleted \/ Tick
    BY <1>1, <2>1, SpendGrows DEF PodIsDeleted, Tick, Mishap, Bounded
  <2>2. CASE PodIsBack
    BY <1>1, <2>2, NothingSpent DEF PodIsBack
  <2> QED  BY <2>1, <2>2
<1>4. /\ process' \in [Jobs -> Process] /\ over' \in [Jobs -> Nat \cup {None}]
      /\ pod' \in PodNames \cup {None} /\ foreign' \in SUBSET Jobs
      /\ PodOK'
      /\ \A i \in Jobs : /\ SameOrLater(process[i], process'[i])
                         /\ process'[i].command = "none" <=> process[i].command = "none"
                         /\ over[i] # None => over'[i] = over[i]
                         /\ ProcessOK(i)'
  <2>1. CASE PodIsDeleted
    <3> DEFINE Gone(i) == [process[i] EXCEPT !.wrapper = FALSE, !.rc = None,
                             !.command = IF process[i].command = "running" THEN "lost"
                                         ELSE process[i].command]
    <3>1. /\ pod' = None /\ foreign' = {}
          /\ process' = [i \in Jobs |-> Gone(i)]
          /\ over' = [i \in Jobs |-> IF over[i] = None /\ process[i].command # "none"
                                     THEN now ELSE over[i]]
      BY <2>1 DEF PodIsDeleted
    <3>2. ~ Undisturbed' /\ now' = now
      BY <1>1, <2>1, SpendGrows DEF PodIsDeleted, Mishap, Bounded
    <3>3. PodOK'
      BY <3>2 DEF PodOK
    <3>4. ASSUME NEW i \in Jobs
          PROVE  /\ process'[i] \in Process
                 /\ SameOrLater(process[i], process'[i])
                 /\ process'[i].command = "none" <=> process[i].command = "none"
                 /\ over[i] # None => over'[i] = over[i]
                 /\ ProcessOK(i)'
      <4> DEFINE p == process[i]
                 q == process'[i]
      <4>1. p \in Process /\ ProcessOK(i) /\ over[i] \in Nat \cup {None}
        BY <1>1
      <4>2. q = Gone(i)
        BY <3>1
      <4>3. /\ q \in Process /\ ~ q.wrapper /\ q.rc = None /\ q.code = p.code
            /\ q.command = IF p.command = "running" THEN "lost" ELSE p.command
        BY <4>1, <4>2 DEF Process
      <4>4. over'[i] = IF over[i] = None /\ p.command # "none" THEN now ELSE over[i]
        BY <3>1
      <4> HIDE DEF p, q
      <4>5. SameOrLater(p, q)
        BY <4>3 DEF SameOrLater, IsDead
      <4>6. /\ q.command # "ended" => q.code = None
            /\ IsDead(q) => over'[i] # None
            /\ IsDead(q) => i \in stops' \/ q.command \in {"ended", "lost"}
            /\ over'[i] # None => over'[i] <= now
        <5>1. /\ p.command # "ended" => p.code = None
              /\ over[i] # None => over[i] <= now
          BY <4>1 DEF ProcessOK, p
        <5>2. p.command \in {"none", "running", "ended", "lost"} /\ None # now
          BY <1>1, <4>1 DEF Process, p, ShellJobsAssumption
        <5>3. IsDead(q) => p.command # "none"
          BY <4>3 DEF IsDead
        <5>4. IsDead(q) => q.command \in {"ended", "lost"}
          BY <4>3, <5>2, <5>3
        <5>5. IsDead(q) => over'[i] # None
          BY <4>4, <5>2, <5>3
        <5>6. over'[i] # None => over'[i] <= now
          BY <1>1, <4>4, <5>1
        <5> QED  BY <4>3, <5>1, <5>4, <5>5, <5>6
      <4>7. ProcessOK(i)'
        BY <3>2, <4>3, <4>6 DEF ProcessOK, q
      <4> QED  BY <4>3, <4>4, <4>5, <4>7 DEF p, q
    <3>5. process' \in [Jobs -> Process] /\ over' \in [Jobs -> Nat \cup {None}]
      <4>1. process' \in [Jobs -> Process]
        <5> HIDE DEF Gone
        <5> QED  BY <3>1, <3>4
      <4> QED  BY <1>1, <3>1, <4>1
    <3> QED  BY <3>1, <3>3, <3>4, <3>5
  <2>2. CASE PodIsBack \/ Tick
    <3>1. process' = process /\ over' = over
      BY <2>2 DEF PodIsBack, Tick, podVars
    <3>2. pod' \in PodNames \cup {None} /\ foreign' \in SUBSET Jobs
      BY <1>1, <2>2 DEF PodIsBack, Tick, podVars, JobsTypeOK
    <3>3. PodOK'
      <4>1. CASE PodIsBack
        <5>1. pod = None /\ UNCHANGED spent
          BY <4>1 DEF PodIsBack
        <5> QED  BY <1>1, <1>3, <5>1 DEF JobsInv, PodOK, SpentGrows
      <4>2. CASE Tick
        BY <1>3, <4>2 DEF JobsInv, PodOK, SpentGrows, Tick, podVars
      <4> QED  BY <2>2, <4>1, <4>2
    <3>4. \A i \in Jobs : ProcessOK(i)'
      <4> SUFFICES ASSUME NEW i \in Jobs PROVE ProcessOK(i)'
        OBVIOUS
      <4>1. ProcessOK(i) /\ over[i] \in Nat \cup {None} /\ now' \in Nat
        BY <1>1, <1>3 DEF SpentGrows, now, Bounded
      <4> QED  BY <1>1, <1>2, <1>3, <3>1, <4>1 DEF ProcessOK, SpentGrows
    <3> QED  BY <1>1, <3>1, <3>2, <3>3, <3>4 DEF SameOrLater
  <2> QED  BY <2>1, <2>2
<1>5. JobsTypeOK'
  BY <1>1, <1>2, <1>3, <1>4 DEF JobsTypeOK, SpentGrows
<1>6. GoesOn
  BY <1>2, <1>3, <1>4 DEF GoesOn, SpentGrows
<1>7. \A i \in Jobs : EntryOK(i)'
  BY <1>2, <1>4, <1>5, <1>6, EntryStaysOK
<1> QED  BY <1>2, <1>4, <1>5, <1>6, <1>7, JobsMove

\* A job is launched; the answer may get lost.
LEMMA LaunchSteps ==
    ASSUME ShellJobsAssumption, JobsInv, NEW c \in Calls, StartJob(c) \/ StartJobTimesOut(c)
    PROVE  JobsInv'
<1> DEFINE j == call[c].job
           p == [wrapper |-> TRUE, command |-> "running", code |-> None, rc |-> None]
           e == [podName |-> call[c].target, running |-> TRUE, exitCode |-> 0,
                 startedAt |-> now, finishedAt |-> None]
<1>1. /\ JobsTypeOK /\ CallOK(c) /\ call[c] \in Call /\ call \in [Calls -> Call]
      /\ now \in Nat /\ over \in [Jobs -> Nat \cup {None}]
      /\ \A i \in Jobs : ProcessOK(i) /\ EntryOK(i)
  BY DEF JobsInv, JobsTypeOK, now, Bounded
<1>2. /\ call[c].pc = "start" /\ LaunchJob(j) /\ Return(c)
      /\ UNCHANGED <<pod, foreign, over, settled, stops>>
  BY DEF StartJob, StartJobTimesOut
<1>3. /\ j \in Jobs /\ process[j].command = "none" /\ call[c].target \in PodNames
      /\ \A d \in Calls \ {c} : call[d].job # j
  BY <1>1, <1>2 DEF CallOK, JobsInv, StartsAlone
<1>4. /\ process' \in [Jobs -> Process] /\ process'[j] = p
      /\ \A i \in Jobs \ {j} : process'[i] = process[i]
  <2>1. p \in Process /\ SetProcess(j, p)
    BY <1>2 DEF Process, LaunchJob
  <2> HIDE DEF p, j
  <2> QED  BY <1>1, <1>3, <2>1, OneProcess
<1>5. p.command = "running" /\ p.wrapper /\ p.code = None /\ p.rc = None
  OBVIOUS
<1> HIDE DEF p
<1>6. SpentGrows
  <2>1. CASE StartJob(c)
    BY <1>1, <2>1, NothingSpent DEF StartJob
  <2>2. CASE StartJobTimesOut(c)
    BY <1>1, <2>2, SpendGrows DEF StartJobTimesOut, Mishap, Bounded
  <2> QED  BY <2>1, <2>2
<1>7. /\ jobs' \in [Jobs -> Job \cup {NoJob}]
      /\ \A i \in Jobs \ {j} : jobs'[i] \in {jobs[i], NoJob}
      /\ jobs'[j] \in {NoJob, e}
  <2>1. e \in Job
    BY <1>1, <1>3 DEF Job, ShellJobsAssumption
  <2>2. jobs \in [Jobs -> Job \cup {NoJob}] /\ jobs[j] = NoJob
    BY <1>1, <1>3 DEF JobsTypeOK, EntryOK
  <2>3. CASE StartJob(c)
    <3>1. jobs' = [ReapJobs EXCEPT ![j] = e]
      BY <2>3 DEF StartJob
    <3>2. ReapJobs \in [Jobs -> Job \cup {NoJob}] /\ \A i \in Jobs : ReapJobs[i] \in {jobs[i], NoJob}
      BY <2>2 DEF ReapJobs
    <3> HIDE DEF e
    <3> QED  BY <1>3, <2>1, <3>1, <3>2
  <2>4. CASE StartJobTimesOut(c)
    BY <2>2, <2>4 DEF StartJobTimesOut
  <2> QED  BY <2>3, <2>4
<1>8. e.running = TRUE /\ e.exitCode = 0 /\ e.finishedAt = None
  OBVIOUS
<1> HIDE DEF e
<1>9. call' = [call EXCEPT ![c] = NoCall] /\ NoCall \in Call /\ NoCall.pc # "start"
      /\ NoCall.job = None /\ CallOK(c)'
  BY <1>1, <1>2, ReturnedIsOK DEF Return
<1>10. JobsTypeOK'
  <2>1. call' \in [Calls -> Call]
    BY <1>1, <1>9
  <2> QED  BY <1>1, <1>2, <1>4, <1>6, <1>7, <2>1 DEF JobsTypeOK, SpentGrows
<1>11. GoesOn
  <2>1. \A i \in Jobs : SameOrLater(process[i], process'[i])
    BY <1>3, <1>4, <1>5 DEF SameOrLater, IsDead
  <2> QED  BY <1>2, <1>6, <2>1 DEF GoesOn, SpentGrows
<1>12. ASSUME NEW i \in Jobs PROVE ProcessOK(i)' /\ EntryOK(i)'
  <2>1. CASE i # j
    <3>1. process'[i] = process[i] /\ over'[i] = over[i] /\ settled' = settled
      BY <1>2, <1>4, <2>1
    <3>2. jobs'[i] \in {jobs[i], NoJob}
      BY <1>7, <2>1
    <3> HIDE DEF j
    <3> QED  BY <1>1, <1>10, <1>11, <3>1, <3>2, ProcessStaysOK, EntryStaysOK
  <2>2. CASE i = j
    <3>1. /\ over[i] \in Nat \cup {None} /\ (over[i] # None => over[i] <= now) /\ now' \in Nat
          /\ process[i].command = "none" /\ process'[i] = p /\ over'[i] = over[i]
          /\ EntryOK(i) /\ jobs'[i] \in {NoJob, e}
      BY <1>1, <1>2, <1>3, <1>4, <1>6, <1>7, <2>2 DEF ProcessOK, SpentGrows, now, Bounded
    <3>2. ProcessOK(i)'
      BY <1>1, <1>5, <1>6, <3>1 DEF ProcessOK, IsDead, SpentGrows
    <3>3. jobs'[i] # NoJob
             => TrueEntry(jobs'[i], process'[i], over'[i], i \in stops', ~ Undisturbed')
      BY <1>8, <3>1 DEF TrueEntry
    <3>4. i \in settled' => ~ Undisturbed'
      BY <1>2, <1>6, <3>1 DEF EntryOK, IsDead, SpentGrows
    <3>5. process'[i].command # "none"
      BY <1>5, <3>1
    <3>6. EntryOK(i)'
      BY <3>3, <3>4, <3>5 DEF EntryOK, TrueOf
    <3> QED  BY <3>2, <3>6
  <2> QED  BY <2>1, <2>2
<1>13. PodOK'
  BY <1>2, <1>6 DEF JobsInv, PodOK, SpentGrows
<1>14. \A d \in Calls \ {c} : call[d].pc = "start" => process'[call[d].job].command = "none"
  <2> SUFFICES ASSUME NEW d \in Calls \ {c}, call[d].pc = "start"
               PROVE  process'[call[d].job].command = "none"
    OBVIOUS
  <2>1. call[d].job \in Jobs \ {j} /\ process[call[d].job].command = "none"
    BY <1>3 DEF JobsInv, CallOK
  <2> QED  BY <1>4, <2>1
<1> QED  BY <1>9, <1>10, <1>11, <1>12, <1>13, <1>14, CallMovesJobs

\* The signal of a stop arrives.
LEMMA KillSteps ==
    ASSUME ShellJobsAssumption, JobsInv, NEW c \in Calls, Kill(c) \/ KillIsCut(c)
    PROVE  JobsInv'
<1> DEFINE j == call[c].job
           p == [process[j] EXCEPT !.wrapper = FALSE]
<1>1. /\ JobsTypeOK /\ CallOK(c) /\ call[c] \in Call /\ call \in [Calls -> Call]
      /\ now \in Nat /\ over \in [Jobs -> Nat \cup {None}]
      /\ \A i \in Jobs : ProcessOK(i) /\ EntryOK(i)
  BY DEF JobsInv, JobsTypeOK, now, Bounded
<1>2. /\ call[c].pc = "kill" /\ Terminate(j)
      /\ UNCHANGED <<pod, jobs, settled, stops, spent>>
  BY DEF Kill, KillIsCut
<1>3. /\ j \in Jobs /\ process[j] \in Process /\ process[j].command # "none"
      /\ call[c].target \in PodNames /\ j \in stops
      /\ call[c].tool = "shell_stop"
      /\ over[j] \in Nat \cup {None}
  BY <1>1, <1>2 DEF CallOK, JobsTypeOK
<1>4. /\ p \in Process /\ p.command = process[j].command /\ ~ p.wrapper
      /\ p.code = process[j].code /\ p.rc = process[j].rc
  BY <1>3 DEF Process
<1>5. SetProcess(j, p) /\ IsOverNow(j) /\ foreign' = foreign \ {j}
  BY <1>2 DEF Terminate
<1> HIDE DEF p, j
<1>6. /\ process' \in [Jobs -> Process] /\ process'[j] = p
      /\ \A i \in Jobs \ {j} : process'[i] = process[i]
  BY <1>1, <1>3, <1>4, <1>5, OneProcess
<1>7. /\ over' \in [Jobs -> Nat \cup {None}]
      /\ over'[j] = (IF over[j] = None THEN now ELSE over[j])
      /\ \A i \in Jobs \ {j} : over'[i] = over[i]
  BY <1>1, <1>3, <1>5, OneOver
<1>8. now' = now /\ Undisturbed' = Undisturbed
  BY <1>2 DEF now, Undisturbed
<1>9. PICK k \in {NoCall, [call[c] EXCEPT !.pc = "mark"]} : call' = [call EXCEPT ![c] = k]
  <2>1. CASE Kill(c)
    <3>1. call' = [call EXCEPT ![c] = [call[c] EXCEPT !.pc = "mark"]]
      BY <1>1, <2>1 DEF Kill, Step
    <3> QED  BY <3>1
  <2>2. CASE KillIsCut(c)
    BY <2>2 DEF KillIsCut, Return
  <2> QED  BY <2>1, <2>2
<1>10. k \in Call /\ k.pc # "start" /\ (k.job = call[c].job \/ k.job = None)
  <2>1. NoCall \in Call /\ NoCall.pc # "start" /\ NoCall.job = None
    BY DEF NoCall, Call, Labels, Tools
  <2>2. CASE k = [call[c] EXCEPT !.pc = "mark"]
    <3>1. k \in Call /\ k.pc = "mark" /\ k.job = call[c].job
      BY <1>1, <2>2 DEF Call, Labels
    <3> QED  BY <3>1
  <2> QED  BY <1>9, <2>1, <2>2
<1>11. JobsTypeOK'
  <2>1. call' \in [Calls -> Call]
    BY <1>1, <1>9, <1>10
  <2> QED  BY <1>1, <1>2, <1>5, <1>6, <1>7, <2>1 DEF JobsTypeOK
<1>12. GoesOn
  <2>1. \A i \in Jobs : SameOrLater(process[i], process'[i])
    BY <1>4, <1>6 DEF SameOrLater, IsDead
  <2>2. \A i \in Jobs : over[i] # None => over'[i] = over[i]
    BY <1>7
  <2> QED  BY <1>1, <1>2, <1>8, <2>1, <2>2 DEF GoesOn
<1>13. IsDead(process'[j])
  BY <1>3, <1>4, <1>6 DEF IsDead
<1>14. CallOK(c)'
  <2>1. CASE k = NoCall
    BY <1>1, <1>9, <2>1, ReturnedIsOK DEF Return
  <2>2. CASE k = [call[c] EXCEPT !.pc = "mark"]
    <3>1. /\ k.pc = "mark" /\ k.job = j /\ k.tool = call[c].tool /\ k.target = call[c].target
          /\ k.late = call[c].late
      BY <1>1, <2>2 DEF Call, j
    <3>2. call'[c] = k
      BY <1>1, <1>9
    <3>3. process'[j].command # "none" /\ stops' = stops
      BY <1>2, <1>13 DEF IsDead
    <3> QED  BY <1>3, <1>13, <3>1, <3>2, <3>3 DEF CallOK, Polling
  <2> QED  BY <1>9, <2>1, <2>2
<1>15. ASSUME NEW i \in Jobs PROVE ProcessOK(i)' /\ EntryOK(i)'
  <2>1. EntryOK(i)'
    <3>1. process'[i].command = "none" => process[i].command = "none"
      BY <1>4, <1>6
    <3> QED  BY <1>2, <1>11, <1>12, <3>1, EntryStaysOK
  <2>2. ProcessOK(i)'
    <3>1. CASE i # j
      BY <1>1, <1>6, <1>7, <1>11, <1>12, <3>1, ProcessStaysOK
    <3>2. CASE i = j
      <4>1. ProcessOK(j)
        BY <1>1, <1>3
      <4>2. over'[j] # None /\ over'[j] <= now
        BY <1>1, <1>3, <1>7, <4>1 DEF ProcessOK, ShellJobsAssumption
      <4> QED  BY <1>2, <1>3, <1>4, <1>6, <1>8, <3>2, <4>1, <4>2 DEF ProcessOK
    <3> QED  BY <3>1, <3>2
  <2> QED  BY <2>1, <2>2
<1>16. PodOK'
  BY <1>2, <1>5, <1>8 DEF JobsInv, PodOK
<1>17. \A d \in Calls : call[d].pc = "start" => process'[call[d].job].command = "none"
  <2> SUFFICES ASSUME NEW d \in Calls, call[d].pc = "start"
               PROVE  process'[call[d].job].command = "none"
    OBVIOUS
  <2>1. call[d].job \in Jobs /\ process[call[d].job].command = "none"
    BY DEF JobsInv, CallOK
  <2> QED  BY <1>4, <1>6, <2>1
<1> QED  BY <1>9, <1>10, <1>11, <1>12, <1>14, <1>15, <1>16, <1>17, CallMovesJobs

\* The jobs stay what they are while the editor is at work.
LEMMA JobsRest ==
    ASSUME ShellJobsAssumption, JobsInv, UNCHANGED otherJobVars, SpentGrows
    PROVE  JobsInv'
<1>1. /\ JobsTypeOK /\ pod' = pod /\ process' = process /\ foreign' = foreign /\ over' = over
      /\ jobs' = jobs /\ call' = call /\ settled' = settled /\ stops' = stops
  BY DEF JobsInv, otherJobVars, podVars, callVars
<1>2. JobsTypeOK'
  BY <1>1 DEF JobsTypeOK, SpentGrows
<1>3. GoesOn
  BY <1>1 DEF GoesOn, SpentGrows, SameOrLater
<1>4. \A j \in Jobs : ProcessOK(j)' /\ EntryOK(j)'
  BY <1>1, <1>2, <1>3, ProcessStaysOK, EntryStaysOK DEF JobsInv
<1>5. PodOK'
  BY <1>1 DEF JobsInv, PodOK, SpentGrows
<1> QED  BY <1>1, <1>2, <1>3, <1>4, <1>5, JobsMove

\* A step of one call changes no other.
LEMMA OneCall ==
    ASSUME JobsTypeOK, NEW c \in Calls, BeginJobCall(c) \/ JobCallStep(c) \/ JobCallFault(c)
    PROVE  /\ \A d \in Calls \ {c} : call'[d] = call[d]
           /\ JobCallStep(c) \/ JobCallFault(c) => call[c].pc # "idle"
<1>1. call \in [Calls -> Call]
  BY DEF JobsTypeOK
<1>2. CASE BeginJobCall(c)
  <2>1. \E k : call' = [call EXCEPT ![c] = k]
    BY <1>2 DEF BeginJobCall, ShellAsync, ShellPoll, ShellWait, ShellStop, BeginCall
  <2>2. ~ (call[c].pc = "idle" /\ (JobCallStep(c) \/ JobCallFault(c)))
    BY DEF JobCallStep, StartJob, LookupJob, LookupFails, ReadExitCode, CheckProcess,
           StoreClone, Kill, MarkStopped, PodUnreachable, JobCallFault, StartJobTimesOut,
           ReadExitCodeTimesOut, CheckProcessTimesOut, KillTimesOut, KillIsCut, ContextEnds,
           Requests
  <2> QED  BY <1>1, <2>1, <2>2
<1>3. CASE JobCallStep(c)
  <2>1. call[c].pc # "idle"
    BY <1>3
       DEF JobCallStep, StartJob, LookupJob, LookupFails, ReadExitCode, CheckProcess,
           StoreClone, Kill, MarkStopped, PodUnreachable, Requests
  <2>2. \A d \in Calls \ {c} : call'[d] = call[d]
    BY <1>1, <1>3
       DEF JobCallStep, StartJob, LookupJob, LookupFails, ReadExitCode, CheckProcess,
           StoreClone, Kill, MarkStopped, PodUnreachable, Return, Step
  <2> QED  BY <2>1, <2>2
<1>4. CASE JobCallFault(c)
  <2>1. call[c].pc # "idle"
    BY <1>4
       DEF JobCallFault, StartJobTimesOut, ReadExitCodeTimesOut, CheckProcessTimesOut,
           KillTimesOut, KillIsCut, ContextEnds, Requests
  <2>2. \A d \in Calls \ {c} : call'[d] = call[d]
    BY <1>1, <1>4
       DEF JobCallFault, StartJobTimesOut, ReadExitCodeTimesOut, CheckProcessTimesOut,
           KillTimesOut, KillIsCut, ContextEnds, Return, Step
  <2> QED  BY <2>1, <2>2
<1> QED  BY <1>2, <1>3, <1>4

-----------------------------------------------------------------------------
(* The editor.                                                             *)

\* What a call that is going to write the file has to write.
Asked(e) == IF e.edit.op = "create" THEN e.edit.text ELSE EditedText(e.edit, e.seen).text

EditOK(c) ==
    /\ editing[c].pc \in {"read", "truncate", "write"} => editing[c].edit \in Edits
    /\ editing[c].pc \in {"truncate", "write"} => editing[c].text = Asked(editing[c])
    /\ editing[c].pc = "write" => file # NoFile
    /\ editing[c].pc = "write" /\ editing[c].alone => file = <<>>

Editing == [pc : EditLabels, edit : Edits \cup {None}, target : PodNames \cup {None},
            text : Text, seen : Text \cup {NoFile}, alone : BOOLEAN]

EditsInv ==
    /\ file \in Text \cup {NoFile}
    /\ editing \in [Calls -> Editing]
    /\ \A c \in Calls : call[c].pc = "idle" \/ editing[c].pc = "none"
    /\ \A c \in Calls : EditOK(c)

Inv == JobsInv /\ EditsInv

\* Nothing that the invariant says of an idle call can be wrong.
LEMMA NoEditingOK ==
    /\ NoEditing.pc = "none" /\ NoEditing.alone = TRUE /\ NoEditing \in Editing
<1>1. <<>> \in Text
  BY EmptySeq DEF Text
<1> QED  BY <1>1 DEF NoEditing, Editing, EditLabels

\* An edit that is not refused gives a text.
LEMMA EditedIsText ==
    ASSUME SandboxToolsAssumption, NEW edit \in Edits, NEW text \in Text
    PROVE  EditedText(edit, text).text \in Text
<1>1. edit \in EditArguments
  BY DEF SandboxToolsAssumption
<1>2. Refused.text \in Text
  BY EmptySeq DEF Refused, Text
<1>3. CASE edit.op = "str_replace"
  <2>1. edit.old \in Text /\ edit.new \in Text
    BY <1>1, <1>3 DEF EditArguments
  <2>2. EditedText(edit, text) = ReplaceUnique(text, edit.old, edit.new)
    BY <1>3 DEF EditedText
  <2>3. ReplaceUnique(text, edit.old, edit.new).ok
           \/ ReplaceUnique(text, edit.old, edit.new) = Refused
    BY DEF ReplaceUnique, Edited
  <2> QED  BY <1>2, <2>1, <2>2, <2>3, ReplacedAtMatch
<1>4. CASE edit.op = "insert"
  <2>1. edit.line \in Int /\ edit.new \in Text
    BY <1>1, <1>4 DEF EditArguments
  <2>2. EditedText(edit, text) = InsertAfterLine(text, edit.line, edit.new)
    BY <1>4 DEF EditedText
  <2> QED  BY <2>1, <2>2, InsertedIsText
<1>5. CASE edit.op # "str_replace" /\ edit.op # "insert"
  BY <1>2, <1>5 DEF EditedText
<1> QED  BY <1>3, <1>4, <1>5

\* The created text is a text.
LEMMA CreatedIsText ==
    ASSUME SandboxToolsAssumption, NEW edit \in Edits, edit.op = "create"
    PROVE  edit.text \in Text
<1>1. edit \in EditArguments
  BY DEF SandboxToolsAssumption
<1> QED  BY <1>1 DEF EditArguments

\* What cat leaves of two texts.
LEMMA OverlayIsText ==
    ASSUME NEW new \in Text, NEW old \in Text
    PROVE  Overlay(new, old) \in Text /\ Overlay(new, <<>>) = new
<1>1. Len(new) \in Nat /\ Len(old) \in Nat /\ <<>> \in Text
  BY EmptySeq, LenProperties DEF Text
<1>2. SubSeq(old, Len(new) + 1, Len(old)) \in Text
  BY <1>1, PartOfText
<1> DEFINE rest == SubSeq(<<>>, Len(new) + 1, Len(<<>>))
<1>3. rest = <<>>
  <2>1. Len(<<>>) = 0 /\ Len(new) + 1 > 0
    BY <1>1, EmptySeq
  <2>2. rest \in Text /\ Len(rest) = 0
    <3>1. /\ SubSeq(<<>>, Len(new) + 1, 0) \in Text
          /\ Len(SubSeq(<<>>, Len(new) + 1, 0)) = IF Len(new) + 1 <= 0 THEN 0 - (Len(new) + 1) + 1 ELSE 0
      BY <1>1, <2>1, PartOfText
    <3> QED  BY <1>1, <2>1, <3>1
  <2> HIDE DEF rest
  <2> QED  BY <2>2, EmptySeq DEF Text
<1>4. Overlay(new, old) \in Text
  <2> DEFINE y == SubSeq(old, Len(new) + 1, Len(old))
  <2> HIDE DEF y
  <2>1. y \in Text
    BY <1>2 DEF y
  <2>2. new \o y \in Text
    BY <2>1, ConcatProperties DEF Text
  <2> QED  BY <2>2 DEF Overlay, y
<1>5. Overlay(new, <<>>) = new
  <2>1. Overlay(new, <<>>) = new \o rest
    BY DEF Overlay
  <2> HIDE DEF rest
  <2> QED  BY <1>3, <2>1, ConcatEmptySeq DEF Text
<1> QED  BY <1>4, <1>5

\* A text is not the absence of a file.
LEMMA TextIsFile ==
    ASSUME SandboxToolsAssumption, NEW text \in Text
    PROVE  text # NoFile
<1> SUFFICES ASSUME text = NoFile PROVE FALSE
  OBVIOUS
<1>1. Len(text) = 1 /\ text[1] = None
  BY DEF NoFile
<1>2. text[1] \in Chars
  <2>1. 1 \in 1 .. Len(text)
    BY <1>1
  <2> QED  BY <2>1, ElementOfSeq DEF Text
<1> QED  BY <1>1, <1>2 DEF SandboxToolsAssumption

\* One call of the editor moves on; the file is not touched.
LEMMA EditMoves ==
    ASSUME EditsInv, NEW c \in Calls, NEW e \in Editing, call[c].pc = "idle",
           UNCHANGED call, file' = file, editing' = [editing EXCEPT ![c] = e], EditOK(c)'
    PROVE  EditsInv'
<1>1. editing \in [Calls -> Editing]
  BY DEF EditsInv
<1>2. \A d \in Calls : editing'[d] = IF d = c THEN e ELSE editing[d]
  BY <1>1
<1>3. \A d \in Calls : EditOK(d)'
  <2> SUFFICES ASSUME NEW d \in Calls, d # c PROVE EditOK(d)'
    OBVIOUS
  <2>1. editing'[d] = editing[d] /\ EditOK(d)
    BY <1>2 DEF EditsInv
  <2> QED  BY <2>1 DEF EditOK
<1>4. \A d \in Calls : call'[d].pc = "idle" \/ editing'[d].pc = "none"
  BY <1>2 DEF EditsInv
<1>5. editing' \in [Calls -> Editing]
  BY <1>1
<1> QED  BY <1>3, <1>4, <1>5 DEF EditsInv

\* One call writes the file, which exists from then on, and the others see it.
LEMMA EditWrites ==
    ASSUME EditsInv, NEW c \in Calls, NEW e \in Editing, call[c].pc = "idle",
           UNCHANGED call, file' \in Text \cup {NoFile}, file # NoFile => file' # NoFile,
           editing' = OthersSee(c, e), EditOK(c)'
    PROVE  EditsInv'
<1>1. editing \in [Calls -> Editing]
  BY DEF EditsInv
<1>2. editing' = [d \in Calls |-> IF d = c THEN e ELSE [editing[d] EXCEPT !.alone = FALSE]]
  BY DEF OthersSee
<1>3. \A d \in Calls : editing'[d] = IF d = c THEN e ELSE [editing[d] EXCEPT !.alone = FALSE]
  BY <1>2
<1>4. ASSUME NEW d \in Calls, d # c
      PROVE  /\ editing'[d] \in Editing /\ EditOK(d)'
             /\ editing'[d].pc = editing[d].pc
  <2> DEFINE f == editing[d]
             g == [f EXCEPT !.alone = FALSE]
  <2>1. f \in Editing /\ EditOK(d)
    BY <1>1 DEF EditsInv
  <2>2. /\ g \in Editing /\ g.pc = f.pc /\ g.edit = f.edit /\ g.text = f.text /\ g.seen = f.seen
        /\ g.alone = FALSE
    BY <2>1 DEF Editing
  <2>3. editing'[d] = g
    BY <1>3, <1>4
  <2> HIDE DEF f, g
  <2>4. Asked(g) = Asked(f)
    BY <2>2 DEF Asked
  <2>5. /\ f.pc \in {"read", "truncate", "write"} => f.edit \in Edits
        /\ f.pc \in {"truncate", "write"} => f.text = Asked(f)
        /\ f.pc = "write" => file # NoFile
    BY <2>1 DEF EditOK, f
  <2>6. EditOK(d)'
    BY <2>2, <2>3, <2>4, <2>5 DEF EditOK, Asked
  <2> QED  BY <2>2, <2>3, <2>6 DEF f
<1>5. editing' \in [Calls -> Editing]
  <2>1. \A d \in Calls : editing'[d] \in Editing
    BY <1>3, <1>4
  <2>2. editing' = [d \in Calls |-> editing'[d]]
    BY <1>2
  <2> QED  BY <2>1, <2>2
<1>6. \A d \in Calls : call'[d].pc = "idle" \/ editing'[d].pc = "none"
  BY <1>4 DEF EditsInv
<1>7. \A d \in Calls : EditOK(d)'
  BY <1>4
<1> QED  BY <1>5, <1>6, <1>7 DEF EditsInv

\* A call of the editor or of shell begins.
LEMMA EditBegins ==
    ASSUME ShellJobsAssumption, SandboxToolsAssumption, Inv, NEW c \in Calls,
           Shell(c) \/ \E edit \in Edits : BeginEdit(c, edit)
    PROVE  Inv'
<1>1. /\ JobsInv /\ JobsTypeOK /\ EditsInv /\ pod \in PodNames \cup {None}
      /\ NoEditing \in Editing /\ <<>> \in Text
  BY NoEditingOK, EmptySeq DEF Inv, JobsInv, JobsTypeOK, Text
<1>2. /\ call[c].pc = "idle" /\ UNCHANGED otherJobVars /\ file' = file /\ Spend("edits")
  BY DEF Shell, BeginEdit, Idle
<1>3. JobsInv' /\ call' = call
  <2>1. SpentGrows
    BY <1>1, <1>2, SpendGrows DEF Bounded
  <2> QED  BY <1>1, <1>2, <2>1, JobsRest DEF otherJobVars, callVars
<1>4. CASE Shell(c)
  <2> DEFINE e == [NoEditing EXCEPT !.pc = "run", !.target = pod]
  <2>1. e \in Editing /\ e.pc = "run"
    BY <1>1 DEF Editing, EditLabels
  <2>2. editing' = [editing EXCEPT ![c] = e]
    BY <1>4 DEF Shell
  <2> HIDE DEF e
  <2>3. editing'[c] = e
    BY <1>1, <2>2 DEF EditsInv
  <2>4. EditOK(c)'
    BY <2>1, <2>3 DEF EditOK
  <2> QED  BY <1>1, <1>2, <1>3, <2>1, <2>2, <2>4, EditMoves DEF Inv
<1>5. ASSUME NEW edit \in Edits, BeginEdit(c, edit) PROVE Inv'
  <2> DEFINE label == IF edit.op = "create" THEN "truncate" ELSE "read"
             text == IF edit.op = "create" THEN edit.text ELSE <<>>
             e == [NoEditing EXCEPT !.edit = edit, !.target = pod, !.pc = label, !.text = text]
  <2>1. label \in EditLabels /\ text \in Text /\ label \in {"read", "truncate"}
        /\ (label = "truncate" => edit.op = "create" /\ text = edit.text)
    BY <1>1, CreatedIsText DEF EditLabels
  <2>2. editing' = [editing EXCEPT ![c] = e]
    BY <1>5 DEF BeginEdit
  <2> HIDE DEF label, text
  <2>3. e \in Editing /\ e.pc = label /\ e.edit = edit /\ e.text = text
    BY <1>1, <2>1 DEF Editing
  <2> HIDE DEF e
  <2>4. editing'[c] = e
    BY <1>1, <2>2 DEF EditsInv
  <2>5. EditOK(c)'
    BY <2>1, <2>3, <2>4 DEF EditOK, Asked
  <2> QED  BY <1>1, <1>2, <1>3, <2>2, <2>3, <2>5, EditMoves DEF Inv
<1> QED  BY <1>4, <1>5

\* The editor goes on, or fails; a command ends.
LEMMA EditGoesOn ==
    ASSUME ShellJobsAssumption, SandboxToolsAssumption, Inv, NEW c \in Calls,
           EditStep(c) \/ EditFails(c) \/ WriteFails(c)
    PROVE  Inv'
<1> DEFINE f == editing[c]
<1>1. /\ JobsInv /\ JobsTypeOK /\ EditsInv /\ EditOK(c) /\ f \in Editing
      /\ editing \in [Calls -> Editing] /\ file \in Text \cup {NoFile} /\ <<>> \in Text
  BY EmptySeq DEF Inv, JobsInv, EditsInv, Text
<1>2. UNCHANGED jobVars /\ f.pc # "none"
  BY DEF EditStep, EditFails, WriteFails, ViewFile, ReadForEdit, TruncateFile, WriteFile,
         RunCommand
<1>3. JobsInv' /\ call' = call /\ call[c].pc = "idle"
  <2>1. SpentGrows /\ UNCHANGED otherJobVars
    BY <1>1, <1>2, NothingSpent DEF jobVars, otherJobVars, podVars, callVars
  <2> QED  BY <1>1, <1>2, <2>1, JobsRest DEF jobVars, EditsInv
<1>4. NoEditing \in Editing /\ NoEditing.pc = "none"
  BY NoEditingOK
<1>5. CASE (ViewFile(c) \/ EditFails(c) \/ ReadForEdit(c)) /\ EndEdit(c) /\ file' = file
  <2>1. editing' = [editing EXCEPT ![c] = NoEditing]
    BY <1>5 DEF EndEdit
  <2>2. editing'[c] = NoEditing
    BY <1>1, <2>1
  <2>3. EditOK(c)'
    BY <1>4, <2>2 DEF EditOK
  <2> QED  BY <1>1, <1>3, <1>4, <1>5, <2>1, <2>3, EditMoves DEF Inv
<1>6. CASE ReadForEdit(c) /\ ~ EndEdit(c)
  <2> DEFINE text == EditedText(f.edit, file).text
             e == [f EXCEPT !.pc = "truncate", !.text = text, !.seen = file]
  <2>1. /\ f.pc = "read" /\ Readable /\ EditedText(f.edit, file).ok /\ file' = file
        /\ editing' = [editing EXCEPT ![c].pc = "truncate", ![c].text = text, ![c].seen = file]
    BY <1>6 DEF ReadForEdit
  <2>2. f.edit \in Edits /\ file \in Text
    BY <1>1, <2>1 DEF EditOK, Readable
  <2>3. text \in Text
    BY <2>2, EditedIsText
  <2>4. editing' = [editing EXCEPT ![c] = e]
    BY <1>1, <2>1
  <2>5. f.edit.op # "create"
    <3>1. ~ EditedText([op |-> "create"], file).ok
      BY DEF EditedText, Refused
    <3>2. f.edit.op = "create" => EditedText(f.edit, file) = Refused
      BY DEF EditedText
    <3> QED  BY <2>1, <3>2 DEF Refused
  <2>6. text = EditedText(f.edit, file).text
    OBVIOUS
  <2> HIDE DEF text
  <2>7. e \in Editing /\ e.pc = "truncate" /\ e.edit = f.edit /\ e.text = text /\ e.seen = file
    BY <1>1, <2>3 DEF Editing, EditLabels
  <2> HIDE DEF e
  <2>8. editing'[c] = e
    BY <1>1, <2>4
  <2>9. e.text = Asked(e)
    BY <2>5, <2>6, <2>7 DEF Asked
  <2>10. EditOK(c)'
    BY <2>2, <2>7, <2>8, <2>9 DEF EditOK, Asked
  <2> QED  BY <1>1, <1>3, <2>1, <2>4, <2>7, <2>10, EditMoves DEF Inv
<1>7. CASE TruncateFile(c)
  <2> DEFINE e == [f EXCEPT !.pc = "write"]
  <2>1. f.pc = "truncate" /\ file' = <<>> /\ editing' = OthersSee(c, e)
    BY <1>7 DEF TruncateFile
  <2>2. /\ e \in Editing /\ e.pc = "write" /\ e.edit = f.edit /\ e.text = f.text
        /\ e.seen = f.seen
    BY <1>1 DEF Editing, EditLabels
  <2> HIDE DEF e
  <2>3. editing'[c] = e
    BY <2>1 DEF OthersSee
  <2>4. e.edit \in Edits /\ e.text = Asked(e)
    BY <1>1, <2>1, <2>2 DEF EditOK, Asked
  <2>5. <<>> # NoFile
    BY <1>1, TextIsFile
  <2>6. EditOK(c)'
    BY <2>1, <2>2, <2>3, <2>4, <2>5 DEF EditOK, Asked
  <2> QED  BY <1>1, <1>3, <2>1, <2>2, <2>5, <2>6, EditWrites DEF Inv
<1>8. CASE (WriteFile(c) \/ WriteFails(c) \/ RunCommand(c)) /\ editing' = OthersSee(c, NoEditing)
           /\ file' \in Text \cup {file}
  <2>1. editing'[c] = NoEditing
    BY <1>8 DEF OthersSee
  <2>2. EditOK(c)'
    BY <1>4, <2>1 DEF EditOK
  <2>3. file' \in Text \cup {NoFile} /\ (file # NoFile => file' # NoFile)
    BY <1>1, <1>8, TextIsFile
  <2> QED  BY <1>1, <1>3, <1>4, <1>8, <2>2, <2>3, EditWrites DEF Inv
<1>9. (ViewFile(c) \/ EditFails(c)) => EndEdit(c) /\ file' = file
  BY DEF ViewFile, EditFails
<1>10. ReadForEdit(c) => file' = file
  BY DEF ReadForEdit
<1>11. f.pc = "write" => f.text \in Text /\ file \in Text
  BY <1>1 DEF EditOK, Editing
<1>12. WriteFile(c) => editing' = OthersSee(c, NoEditing) /\ file' \in Text
  <2> SUFFICES ASSUME WriteFile(c) PROVE editing' = OthersSee(c, NoEditing) /\ file' \in Text
    OBVIOUS
  <2>1. f.pc = "write" /\ file' = Overlay(f.text, file) /\ editing' = OthersSee(c, NoEditing)
    BY DEF WriteFile
  <2> QED  BY <1>11, <2>1, OverlayIsText
<1>13. WriteFails(c) => editing' = OthersSee(c, NoEditing) /\ file' \in Text
  <2> SUFFICES ASSUME WriteFails(c) PROVE editing' = OthersSee(c, NoEditing) /\ file' \in Text
    OBVIOUS
  <2>1. f.pc = "write" /\ editing' = OthersSee(c, NoEditing)
    BY DEF WriteFails
  <2>2. CASE EditReachable(c)
    <3>1. PICK n \in 0 .. Len(f.text) : file' = Overlay(SubSeq(f.text, 1, n), file)
      BY <2>2 DEF WriteFails
    <3>2. SubSeq(f.text, 1, n) \in Text
      <4>1. n \in Int /\ n <= Len(f.text) /\ f.text \in Text
        BY <1>11, <2>1, LenProperties DEF Text
      <4> HIDE DEF f
      <4> QED  BY <4>1, PartOfText
    <3> QED  BY <1>11, <2>1, <3>1, <3>2, OverlayIsText
  <2>3. CASE ~ EditReachable(c)
    BY <1>11, <2>1, <2>3 DEF WriteFails
  <2> QED  BY <2>2, <2>3
<1>14. RunCommand(c) => editing' = OthersSee(c, NoEditing) /\ file' \in Text \cup {file}
  BY DEF RunCommand, SandboxToolsAssumption
<1> QED
  BY <1>5, <1>6, <1>7, <1>8, <1>9, <1>10, <1>12, <1>13, <1>14 DEF EditStep

-----------------------------------------------------------------------------
(* The invariant, and what follows from it.                                *)

\* The invariant holds at the start.
LEMMA InitInv ==
    ASSUME ShellJobsAssumption, SandboxToolsAssumption, Init
    PROVE  Inv
<1>1. NoCall \in Call /\ NoCall.pc = "idle" /\ NoCall.late = FALSE /\ NoCall.job = None
      /\ NoProcess \in Process
  BY DEF NoCall, Call, Labels, Tools, NoProcess, Process
<1>2. JobsTypeOK
  <2>1. spent \in [Bounded -> Nat]
    BY DEF Init, JobsInit
  <2>2. over \in [Jobs -> Nat \cup {None}] /\ jobs \in [Jobs -> Job \cup {NoJob}]
        /\ process \in [Jobs -> Process] /\ call \in [Calls -> Call]
    <3> HIDE DEF NoCall, NoProcess, NoJob
    <3> QED  BY <1>1 DEF Init, JobsInit
  <2> QED  BY <2>1, <2>2 DEF Init, JobsInit, JobsTypeOK, ShellJobsAssumption
<1>3. \A j \in Jobs : ProcessOK(j) /\ EntryOK(j)
  BY DEF Init, JobsInit, ProcessOK, EntryOK, NoProcess, IsDead
<1>4. \A c \in Calls : CallOK(c) /\ call[c].pc = "idle"
  <2> HIDE DEF NoCall
  <2> QED  BY <1>1 DEF Init, JobsInit, CallOK, Polling
<1>5. StartsAlone /\ PodOK
  <2>1. PodOK
    BY DEF Init, JobsInit, PodOK, ShellJobsAssumption
  <2> QED  BY <1>4, <2>1 DEF StartsAlone
<1>6. EditsInv
  <2> HIDE DEF NoEditing
  <2> QED  BY <1>4, NoEditingOK DEF Init, EditsInv, EditOK
<1> QED  BY <1>2, <1>3, <1>4, <1>5, <1>6 DEF Inv, JobsInv

\* Every step keeps it.
LEMMA StepInv ==
    ASSUME ShellJobsAssumption, SandboxToolsAssumption, Inv, [Next]_vars
    PROVE  Inv'
<1>1. JobsInv /\ JobsTypeOK /\ EditsInv
  BY DEF Inv, JobsInv
<1>2. ASSUME JobsInv', UNCHANGED editVars,
             \A d \in Calls : call'[d].pc = "idle" \/ editing[d].pc = "none"
      PROVE  Inv'
  <2>1. file' = file /\ editing' = editing
    BY <1>2 DEF editVars
  <2> QED  BY <1>1, <1>2, <2>1 DEF Inv, EditsInv, EditOK
<1>3. CASE PodStep /\ UNCHANGED editVars
  <2>1. JobsInv'
    BY <1>1, <1>3, PodSteps, ProcessSteps DEF PodStep
  <2>2. call' = call
    BY <1>3 DEF PodStep, PodIsDeleted, PodIsBack, Tick, ProcessStep, CommandEnds, WrapperFinishes,
                ForeignProcessEnds, callVars
  <2> QED  BY <1>1, <1>2, <1>3, <2>1, <2>2 DEF EditsInv
<1>4. ASSUME NEW c \in Calls, Begin(c) PROVE Inv'
  <2>1. JobsInv'
    BY <1>1, <1>4, CallBegins DEF Begin, Idle
  <2>2. \A d \in Calls \ {c} : call'[d] = call[d]
    BY <1>1, <1>4, OneCall DEF Begin
  <2> QED  BY <1>1, <1>2, <1>4, <2>1, <2>2 DEF EditsInv, Begin, Idle
<1>5. ASSUME NEW c \in Calls, JobCallStep(c) \/ JobCallFault(c), UNCHANGED editVars
      PROVE  Inv'
  <2>1. JobsInv'
    BY <1>1, <1>5, RequestSteps, CallsEnd, StoreCloneStep, MarkStoppedStep, LaunchSteps, KillSteps
       DEF JobCallStep, JobCallFault
  <2>2. (\A d \in Calls \ {c} : call'[d] = call[d]) /\ call[c].pc # "idle"
    BY <1>1, <1>5, OneCall
  <2> QED  BY <1>1, <1>2, <1>5, <2>1, <2>2 DEF EditsInv
<1>6. ASSUME NEW c \in Calls,
             \/ (\E edit \in Edits : BeginEdit(c, edit)) \/ Shell(c)
             \/ EditStep(c) \/ EditFails(c) \/ WriteFails(c)
      PROVE  Inv'
  BY <1>6, EditBegins, EditGoesOn
<1>7. CASE UNCHANGED vars
  <2>1. UNCHANGED otherJobVars /\ UNCHANGED spent /\ UNCHANGED editVars /\ call' = call
    BY <1>7 DEF vars, jobVars, otherJobVars, podVars, callVars
  <2>2. JobsInv'
    BY <1>1, <2>1, NothingSpent, JobsRest
  <2> QED  BY <1>1, <1>2, <2>1, <2>2 DEF EditsInv
<1> QED  BY <1>3, <1>4, <1>5, <1>6, <1>7 DEF Next

\* It holds in every reachable state.
THEOREM ToolsInvariant == Spec => []Inv
<1>1. Init => Inv
  BY InitInv, ShellJobsAssumption, SandboxToolsAssumption
<1>2. Inv /\ [Next]_vars => Inv'
  BY StepInv, ShellJobsAssumption, SandboxToolsAssumption
<1> QED  BY <1>1, <1>2, PTL DEF Spec

\* Type correctness: whatever a poll writes back is an entry of the job table,
\* and whatever the editor leaves in the file is a text.
THEOREM TypeCorrect == Spec => []TypeOK
<1>1. Inv => TypeOK
  BY DEF Inv, JobsInv, EditsInv, TypeOK, Editing
<1> QED  BY <1>1, ToolsInvariant, PTL

\* PollJob invents nothing: a job that it reports as finished has ended, was
\* stopped or was lost, and a code other than zero is the command's.
THEOREM PollsAreTrue == Spec => []ReportsAreTrue
<1>1. Inv => ReportsAreTrue
  <2> SUFFICES ASSUME Inv, NEW c \in Calls, ReportsFinished(c)
               PROVE  LET j == call[c].job
                          code == call[c].clone.exitCode
                      IN /\ j \in stops \/ process[j].command \in {"ended", "lost"}
                         /\ code # 0 => code = process[j].code
    BY DEF ReportsAreTrue
  <2>1. TrueOf(call[c].job, call[c].clone) /\ ~ call[c].clone.running
    BY DEF Inv, JobsInv, CallOK, ReportsFinished, Polling
  <2> QED  BY <2>1 DEF TrueOf, TrueEntry
<1> QED  BY <1>1, ToolsInvariant, PTL

\* A job that was reported as finished, or stopped, stays so for later polls,
\* whatever older clones are written back, as long as no request times out and
\* the pod stays.
THEOREM SettledForGood == Spec => []SettledStays
<1>1. Inv => SettledStays
  BY DEF Inv, JobsInv, CallOK, SettledStays, ReportsFinished
<1> QED  BY <1>1, ToolsInvariant, PTL

\* Three steps write the job table.
LEMMA WritersOfJobs ==
    ASSUME Next, jobs' # jobs
    PROVE  \E c \in Calls : StartJob(c) \/ StoreClone(c) \/ MarkStopped(c)
<1>1. PodStep => UNCHANGED jobs
  BY DEF PodStep, PodIsDeleted, PodIsBack, Tick, ProcessStep, CommandEnds, WrapperFinishes,
         ForeignProcessEnds, callVars
<1>2. ASSUME NEW c \in Calls, Begin(c) \/ JobCallFault(c) PROVE UNCHANGED jobs
  BY <1>2 DEF Begin, BeginJobCall, ShellAsync, ShellPoll, ShellWait, ShellStop, BeginCall,
              JobCallFault, PodUnreachable, StartJobTimesOut, ReadExitCodeTimesOut,
              CheckProcessTimesOut, KillTimesOut, KillIsCut, ContextEnds
<1>3. ASSUME NEW c \in Calls, JobCallStep(c)
      PROVE  UNCHANGED jobs \/ StartJob(c) \/ StoreClone(c) \/ MarkStopped(c)
  BY <1>3 DEF JobCallStep, LookupJob, LookupFails, ReadExitCode, CheckProcess, Kill, PodUnreachable
<1>4. ASSUME NEW c \in Calls,
             (\E edit \in Edits : BeginEdit(c, edit)) \/ Shell(c) \/ EditStep(c)
               \/ EditFails(c) \/ WriteFails(c)
      PROVE  UNCHANGED jobs
  BY <1>4 DEF BeginEdit, Shell, otherJobVars, jobVars, callVars, EditStep, ViewFile,
              ReadForEdit, TruncateFile, WriteFile, RunCommand, EditFails, WriteFails
<1> QED  BY <1>1, <1>2, <1>3, <1>4 DEF Next

\* No entry of the job table is evicted before its time: it is older than the
\* hard limit, or its job was over for the retention time.
THEOREM EvictedInTime == Spec => RetentionKept
<1> DEFINE Kept(j) ==
      (jobs[j] # NoJob /\ jobs'[j] = NoJob) =>
         \/ now - jobs[j].startedAt > HardTTL
         \/ over[j] # None /\ now - over[j] > Retention
         \/ j \in stops /\ ~ Undisturbed
<1>1. ASSUME Inv, [Next]_vars PROVE [\A j \in Jobs : Kept(j)]_vars
  <2> SUFFICES ASSUME NEW j \in Jobs, jobs[j] # NoJob, jobs'[j] = NoJob,
                      ~ (now - jobs[j].startedAt > HardTTL)
               PROVE  (over[j] # None /\ now - over[j] > Retention) \/ (j \in stops /\ ~ Undisturbed)
    OBVIOUS
  <2>1. /\ JobsTypeOK /\ EntryOK(j) /\ ProcessOK(j) /\ \A c \in Calls : CallOK(c)
        /\ jobs \in [Jobs -> Job \cup {NoJob}]
    BY <1>1 DEF Inv, JobsInv, JobsTypeOK
  <2>2. NoJob \notin Job /\ jobs[j] \in Job
    <3>1. NoJob.podName = None
      BY DEF NoJob
    <3>2. NoJob \notin Job
      BY <3>1, ShellJobsAssumption DEF Job, ShellJobsAssumption
    <3> QED  BY <2>1, <3>2
  <2>3. \E c \in Calls : StartJob(c)
    <3>1. jobs' # jobs
      OBVIOUS
    <3>2. ASSUME NEW c \in Calls, StoreClone(c) PROVE FALSE
      <4>1. jobs' = [jobs EXCEPT ![call[c].job] = call[c].clone] /\ call[c].clone \in Job
        BY <2>1, <3>2 DEF StoreClone, CallOK, Polling
      <4> QED  BY <2>1, <2>2, <4>1
    <3>3. ASSUME NEW c \in Calls, MarkStopped(c) PROVE FALSE
      <4> DEFINE e == [FinishedNow(jobs[call[c].job]) EXCEPT !.exitCode = 0]
      <4>1. jobs' = (IF jobs[call[c].job] = NoJob THEN jobs
                     ELSE [jobs EXCEPT ![call[c].job] = e])
        <5>1. (IF jobs[call[c].job] = NoJob THEN jobs
               ELSE [jobs EXCEPT ![call[c].job] = [FinishedNow(@) EXCEPT !.exitCode = 0]])
                = (IF jobs[call[c].job] = NoJob THEN jobs
                   ELSE [jobs EXCEPT ![call[c].job] = e])
          OBVIOUS
        <5> QED  BY <3>3, <5>1 DEF MarkStopped
      <4>2. jobs[call[c].job] # NoJob /\ call[c].job = j /\ jobs'[j] = e
        <5> HIDE DEF e
        <5> QED  BY <2>1, <4>1
      <4>3. JobsInv'
        BY <1>1, <3>3, MarkStoppedStep, ShellJobsAssumption DEF Inv
      <4>4. e.running = FALSE
        <5>1. \A t : [jobs[j] EXCEPT !.running = FALSE, !.finishedAt = t].running = FALSE
          BY <2>2 DEF Job
        <5>2. e.running = FinishedNow(jobs[j]).running
          <6>1. DOMAIN FinishedNow(jobs[j]) = DOMAIN jobs[j]
            BY DEF FinishedNow
          <6> QED  BY <2>2, <4>2, <6>1 DEF Job
        <5> QED  BY <5>1, <5>2 DEF FinishedNow
      <4>5. "running" \in DOMAIN e /\ DOMAIN NoJob = {"podName"}
        BY <2>2, <4>2 DEF Job, FinishedNow, NoJob
      <4> HIDE DEF e
      <4>6. e = NoJob
        BY <4>2
      <4> QED  BY <4>5, <4>6
    <3>4. Next
      BY <1>1, <3>1 DEF vars, jobVars
    <3> QED  BY <3>1, <3>2, <3>3, <3>4, WritersOfJobs
  <2>4. PICK c \in Calls : StartJob(c)
    BY <2>3
  <2>5. jobs'[j] \in {ReapJobs[j]} \/ (j = call[c].job)
    BY <2>4 DEF StartJob, ReapJobs
  <2>6. j # call[c].job
    BY <2>1, <2>4 DEF StartJob, CallOK, EntryOK
  <2>7. Expired(jobs[j])
    BY <2>5, <2>6 DEF ReapJobs
  <2>8. jobs[j].finishedAt # None /\ now - jobs[j].finishedAt > Retention
    BY <2>7 DEF Expired
  <2>9. \/ over[j] # None /\ over[j] <= jobs[j].finishedAt
        \/ j \in stops /\ ~ Undisturbed
    BY <2>1, <2>8 DEF EntryOK, TrueOf, TrueEntry
  <2>10. now \in Nat /\ over[j] \in Nat \cup {None} /\ jobs[j].finishedAt \in Nat \cup {None}
         /\ Retention \in Nat
    BY <2>1, <2>2, ShellJobsAssumption DEF JobsTypeOK, now, Bounded, Job, ShellJobsAssumption
  <2> QED  BY <2>8, <2>9, <2>10
<1>2. Inv /\ [Next]_vars => [\A j \in Jobs : Kept(j)]_vars
  BY <1>1
<1> QED  BY <1>2, ToolsInvariant, PTL DEF Spec, RetentionKept

\* An edit that nobody interferes with writes exactly what it was asked to.
THEOREM SoleEditsAreExact == Spec => SoleEditIsExact
<1>1. ASSUME Inv, NEW c \in Calls, WriteFile(c), editing[c].alone
      PROVE  file' = (IF editing[c].edit.op = "create" THEN editing[c].edit.text
                      ELSE EditedText(editing[c].edit, editing[c].seen).text)
  <2>1. /\ editing[c].pc = "write" /\ file' = Overlay(editing[c].text, file)
    BY <1>1 DEF WriteFile
  <2>2. file = <<>> /\ editing[c].text = Asked(editing[c]) /\ editing[c].text \in Text
    BY <1>1, <2>1 DEF Inv, EditsInv, EditOK, Editing
  <2>3. file' = editing[c].text
    BY <2>1, <2>2, OverlayIsText
  <2> QED  BY <2>2, <2>3 DEF Asked
<1>2. Inv /\ [Next]_vars =>
        [\A c \in Calls : (WriteFile(c) /\ editing[c].alone) =>
            file' = (IF editing[c].edit.op = "create" THEN editing[c].edit.text
                     ELSE EditedText(editing[c].edit, editing[c].seen).text)]_vars
  BY <1>1
<1> QED  BY <1>2, ToolsInvariant, PTL DEF Spec, SoleEditIsExact

\* str_replace accepts a file if and only if the old text is at one place in it,
\* and then replaces it there and nothing else, for every file and every text
\* that does not overlap itself.
THEOREM OnlyOneIsReplaced == Spec => []ReplacesTheOnlyOne
<1>1. Inv => ReplacesTheOnlyOne
  <2> SUFFICES ASSUME Inv, NEW edit \in Edits, edit.op = "str_replace", file # NoFile,
                      edit.old # <<>>, ~ OverlapsItself(edit.old)
               PROVE  LET places == {i \in 1 .. Len(file) : OccursAt(file, edit.old, i)}
                          result == ReplaceUnique(file, edit.old, edit.new)
                      IN /\ result.ok <=> Cardinality(places) = 1
                         /\ \A i \in places : result.ok =>
                              /\ SubSeq(result.text, 1, i - 1) = SubSeq(file, 1, i - 1)
                              /\ SubSeq(result.text, i, i + Len(edit.new) - 1) = edit.new
                              /\ SubSeq(result.text, i + Len(edit.new), Len(result.text))
                                   = SubSeq(file, i + Len(edit.old), Len(file))
    BY DEF ReplacesTheOnlyOne
  <2> DEFINE old == edit.old
             new == edit.new
             places == {i \in 1 .. Len(file) : OccursAt(file, old, i)}
             result == ReplaceUnique(file, old, new)
             m == FirstMatch(file, old)
  <2>1. file \in Text /\ old \in Text /\ new \in Text
    BY SandboxToolsAssumption DEF Inv, EditsInv, SandboxToolsAssumption, EditArguments
  <2>2. result.ok <=> Cardinality(places) = 1
    BY <2>1, AcceptsOnePlace DEF OverlapsItself
  <2>3. ASSUME NEW i \in places, result.ok PROVE i = m
    <3>1. m \in places
      BY <2>1, <2>3, ReplacedAtMatch
    <3>2. IsFiniteSet(places) /\ Cardinality(places) = 1
      <4>1. places = PlacesFrom(file, old, 1)
        BY DEF PlacesFrom
      <4>2. 1 \in 1 .. Len(file) + 1
        BY <2>1, LenProperties DEF Text
      <4> HIDE DEF places
      <4> QED  BY <2>1, <2>2, <2>3, <4>1, <4>2, PlacesFinite
    <3> HIDE DEF places, m
    <3> QED  BY <2>3, <3>1, <3>2, FS_Singleton
  <2>4. ASSUME result.ok
        PROVE  /\ SubSeq(result.text, 1, m - 1) = SubSeq(file, 1, m - 1)
               /\ SubSeq(result.text, m, m + Len(new) - 1) = new
               /\ SubSeq(result.text, m + Len(new), Len(result.text))
                    = SubSeq(file, m + Len(old), Len(file))
    <3>1. result.ok
      BY <2>4
    <3>2. result = ReplaceUnique(file, old, new) /\ m = FirstMatch(file, old)
      OBVIOUS
    <3> HIDE DEF old, new, places, m, result
    <3>3. ReplaceUnique(file, old, new).ok
      BY <3>1, <3>2
    <3>4. ReplacedAt(m, result.text, file, old, new)
      BY <2>1, <3>2, <3>3, ReplacedAtMatch
    <3> QED  BY <3>4 DEF ReplacedAt
  <2> HIDE DEF m, places, result
  <2>5. \A i \in places : result.ok =>
           /\ SubSeq(result.text, 1, i - 1) = SubSeq(file, 1, i - 1)
           /\ SubSeq(result.text, i, i + Len(new) - 1) = new
           /\ SubSeq(result.text, i + Len(new), Len(result.text))
                = SubSeq(file, i + Len(old), Len(file))
    <3> SUFFICES ASSUME NEW i \in places, result.ok
                 PROVE  /\ SubSeq(result.text, 1, i - 1) = SubSeq(file, 1, i - 1)
                        /\ SubSeq(result.text, i, i + Len(new) - 1) = new
                        /\ SubSeq(result.text, i + Len(new), Len(result.text))
                             = SubSeq(file, i + Len(old), Len(file))
      OBVIOUS
    <3>1. i = m
      BY <2>3
    <3> QED  BY <2>4, <3>1
  <2> QED  BY <2>2, <2>5 DEF places, result
<1> QED  BY <1>1, ToolsInvariant, PTL

\* A view without a range shows all lines.
LEMMA ShownIsLines ==
    ASSUME NEW text \in Text
    PROVE  /\ Shown(text) = DisplayLines(text)
           /\ Len(Shown(text)) = LineCount(text) /\ LineCount(text) \in Nat
<1> DEFINE lines == DisplayLines(text)
<1>1. lines \in Seq(Text) /\ Len(lines) = LineCount(text) /\ LineCount(text) \in Nat
  BY LinesAreTexts
<1>2. Shown(text) = [k \in 1 .. Len(lines) |-> lines[k]]
  BY DEF Shown, NumberedLines
<1> HIDE DEF lines
<1>3. lines = [k \in 1 .. Len(lines) |-> lines[k]]
  BY <1>1, LenProperties
<1> QED  BY <1>1, <1>2, <1>3 DEF lines

\* The lines that insert counts are the lines that view numbers, for every file
\* and every text that ends its last line: the inserted lines are viewed under
\* the numbers behind the line they were put after, the others as they were.
THEOREM InsertsAreViewed == Spec => []InsertMatchesView
<1>1. Inv => InsertMatchesView
  <2> SUFFICES ASSUME Inv, NEW edit \in Edits, edit.op = "insert", file # NoFile,
                      edit.new # <<>>, EndsLine(edit.new),
                      edit.line \in 0 .. Len(Shown(file)),
                      edit.line < Len(Shown(file)) \/ EndsLine(file)
               PROVE  LET after == InsertAfterLine(file, edit.line, edit.new)
                          first == edit.line + 1
                          last == edit.line + Len(Shown(edit.new))
                          view == NumberedLines(after.text, first, last)
                      IN /\ after.ok
                         /\ DOMAIN view = first .. last
                         /\ \A k \in first .. last : view[k] = Shown(edit.new)[k - edit.line]
                         /\ Shown(after.text) = SubSeq(Shown(file), 1, edit.line) \o Shown(edit.new)
                               \o SubSeq(Shown(file), first, Len(Shown(file)))
    BY DEF InsertMatchesView
  <2> DEFINE line == edit.line
             new == edit.new
             after == InsertAfterLine(file, line, new)
             first == line + 1
             last == line + Len(Shown(new))
             view == NumberedLines(after.text, first, last)
  <2>1. file \in Text /\ new \in Text
    BY SandboxToolsAssumption DEF Inv, EditsInv, SandboxToolsAssumption, EditArguments
  <2>2. \A text \in Text : /\ Shown(text) = DisplayLines(text)
                           /\ Len(Shown(text)) = LineCount(text) /\ LineCount(text) \in Nat
    BY ShownIsLines
  <2>3. line \in 0 .. LineCount(file) /\ (line < LineCount(file) \/ EndsLine(file))
    BY <2>1, <2>2
  <2>4. Len(Shown(new)) \in Nat \ {0}
    <3>1. LineCount(new) = Cardinality(NewLines(new))
      BY DEF LineCount
    <3> QED  BY <2>1, <2>2, <3>1, LastNewLine
  <2>5. EndsLine(new) /\ line \in Nat
    BY <2>1, <2>2, <2>3
  <2> HIDE DEF line, new
  <2>6. /\ after.ok /\ after.text \in Text
        /\ DisplayLines(after.text) =
              SubSeq(DisplayLines(file), 1, line) \o DisplayLines(new)
                 \o SubSeq(DisplayLines(file), line + 1, Len(DisplayLines(file)))
        /\ Len(DisplayLines(after.text)) = Len(DisplayLines(file)) + Len(DisplayLines(new))
        /\ \A k \in line + 1 .. line + Len(DisplayLines(new)) :
              DisplayLines(after.text)[k] = DisplayLines(new)[k - line]
    BY <2>1, <2>3, <2>5, InsertedLinesShown
  <2> HIDE DEF after
  <2>7. /\ Shown(after.text) = SubSeq(Shown(file), 1, line) \o Shown(new)
                                  \o SubSeq(Shown(file), first, Len(Shown(file)))
        /\ Len(DisplayLines(after.text)) = LineCount(file) + Len(Shown(new))
        /\ \A k \in first .. last : DisplayLines(after.text)[k] = Shown(new)[k - line]
    BY <2>1, <2>2, <2>6
  <2>8. view = [k \in first .. last |-> DisplayLines(after.text)[k]]
    <3>1. ~ (first < 1) /\ ~ (last <= 0) /\ ~ (last > Len(DisplayLines(after.text)))
      BY <2>1, <2>2, <2>3, <2>4, <2>5, <2>7
    <3> HIDE DEF first, last
    <3> QED  BY <3>1 DEF NumberedLines
  <2>9. /\ DOMAIN view = first .. last
        /\ \A k \in first .. last : view[k] = Shown(new)[k - line]
    <3> HIDE DEF first, last, view
    <3> QED  BY <2>7, <2>8
  <2> HIDE DEF view
  <2> QED  BY <2>6, <2>7, <2>9 DEF view, after, line, new
<1> QED  BY <1>1, ToolsInvariant, PTL

\* capBuffer keeps the beginning of every file and tailBuffer the end, for every
\* limit and however the stream is cut in two.
THEOREM BuffersAlwaysKeepEnds == Spec => []BuffersKeepEnds
<1>1. Inv => BuffersKeepEnds
  <2> SUFFICES ASSUME Inv, file # NoFile, NEW limit \in 0 .. ReadLimit, NEW cut \in 0 .. Len(file)
               PROVE  LET first == SubSeq(file, 1, cut)
                          rest == SubSeq(file, cut + 1, Len(file))
                          cap == CapWrite(CapWrite(EmptyBuffer, limit, first), limit, rest)
                          tail == TailWrite(TailWrite(EmptyBuffer, limit, first), limit, rest)
                          fits == Len(file) <= limit
                      IN /\ cap.buf = (IF fits THEN file ELSE SubSeq(file, 1, limit))
                         /\ tail.buf = (IF fits THEN file
                                        ELSE SubSeq(file, Len(file) - limit + 1, Len(file)))
                         /\ cap.truncated = ~ fits
                         /\ tail.truncated = ~ fits
    BY DEF BuffersKeepEnds
  <2> DEFINE first == SubSeq(file, 1, cut)
             rest == SubSeq(file, cut + 1, Len(file))
             cap == CapWrite(CapWrite(EmptyBuffer, limit, first), limit, rest)
             tail == TailWrite(TailWrite(EmptyBuffer, limit, first), limit, rest)
  <2>1. file \in Text /\ limit \in Nat /\ Len(file) \in Nat
    BY SandboxToolsAssumption, LenProperties DEF Inv, EditsInv, SandboxToolsAssumption, Text
  <2>2. /\ cap = [buf |-> Beginning(file, limit), truncated |-> Len(file) > limit]
        /\ tail = [buf |-> Ending(file, limit), truncated |-> Len(file) > limit]
    BY <2>1, TwoWrites
  <2>3. (Len(file) > limit) = ~ (Len(file) <= limit)
    BY <2>1
  <2> HIDE DEF cap, tail
  <2>4. /\ cap.buf = (IF Len(file) <= limit THEN file ELSE SubSeq(file, 1, limit))
        /\ tail.buf = (IF Len(file) <= limit THEN file
                       ELSE SubSeq(file, Len(file) - limit + 1, Len(file)))
        /\ cap.truncated = ~ (Len(file) <= limit)
        /\ tail.truncated = ~ (Len(file) <= limit)
    BY <2>2, <2>3 DEF Beginning, Ending
  <2> QED  BY <2>4 DEF cap, tail
<1> QED  BY <1>1, ToolsInvariant, PTL
===============================================================================
