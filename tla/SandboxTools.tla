---------------------------- MODULE SandboxTools ----------------------------
(***************************************************************************)
(* The tools of the MCP server (internal/mcp/server.go) on one session's   *)
(* sandbox: background jobs (ShellJobs), the synchronous shell and the     *)
(* file editor, whose text algorithms are TextEdit.                        *)
(*                                                                         *)
(* The editor reads the whole file out of the pod, changes the text in the *)
(* orchestrator and writes it back with "cat > path", which truncates the  *)
(* file first.  No lock spans the three requests, and commands in the      *)
(* sandbox may write the same file.  The file is on the workspace volume   *)
(* and survives the pod.                                                   *)
(***************************************************************************)
EXTENDS ShellJobs, TextEdit

CONSTANTS
    Edits,       \* arguments of str_replace_based_edit_tool
    ShellTexts,  \* what a command may leave in the file
    ReadLimit    \* fileReadLimit, in characters

\* One record per command of the tool.
EditArguments ==
    [op : {"view"}]
    \cup [op : {"create"}, text : Text]
    \cup [op : {"str_replace"}, old : Text, new : Text]
    \cup [op : {"insert"}, line : Int, new : Text]

ASSUME SandboxToolsAssumption ==
    /\ ReadLimit \in Nat
    /\ None \notin Chars
    /\ ShellTexts \subseteq Text
    /\ Edits \subseteq EditArguments

VARIABLES
    file,     \* the content of the edited file, NoFile if there is none
    editing   \* editing[c]: the call of the editor or of shell that c is serving

editVars == <<file, editing>>
otherJobVars == <<podVars, callVars>>
vars == <<jobVars, editVars>>

NoFile == <<None>>

EditLabels == {"none", "read", "truncate", "write", "run"}

\* text is what will be written, seen what was read, and alone says that
\* nobody else has written the file since the call began.
NoEditing == [pc |-> "none", edit |-> None, target |-> None,
              text |-> <<>>, seen |-> NoFile, alone |-> TRUE]

TypeOK ==
    /\ JobsTypeOK
    /\ file \in Text \cup {NoFile}
    /\ editing \in [Calls -> [pc : EditLabels, edit : Edits \cup {None},
                              target : PodNames \cup {None}, text : Text,
                              seen : Text \cup {NoFile}, alone : BOOLEAN]]
    /\ \A c \in Calls : call[c].pc = "idle" \/ editing[c].pc = "none"

Init ==
    /\ JobsInit
    /\ file = NoFile
    /\ editing = [c \in Calls |-> NoEditing]

Idle(c) == call[c].pc = "idle" /\ editing[c].pc = "none"

-----------------------------------------------------------------------------
(* str_replace_based_edit_tool.                                            *)

EditReachable(c) == pod = editing[c].target

EndEdit(c) == editing' = [editing EXCEPT ![c] = NoEditing]

\* Every write of the file that c makes is one the others did not make.
OthersSee(c, e) ==
    [d \in Calls |-> IF d = c THEN e ELSE [editing[d] EXCEPT !.alone = FALSE]]

BeginEdit(c, edit) ==
    /\ Idle(c)
    /\ pod # None
    /\ Spend("edits")
    /\ editing' = [editing EXCEPT ![c] =
         [NoEditing EXCEPT !.edit = edit, !.target = pod,
            !.pc = IF edit.op = "create" THEN "truncate" ELSE "read",
            !.text = IF edit.op = "create" THEN edit.text ELSE <<>>]]
    /\ UNCHANGED <<otherJobVars, file>>

\* ReadFile: the error of cat, or of a file that does not fit the buffer.
Readable == file # NoFile /\ ~ CapWrite(EmptyBuffer, ReadLimit, file).truncated

\* The new text of an edit that reads before it writes.
EditedText(edit, text) ==
    IF edit.op = "str_replace" THEN ReplaceUnique(text, edit.old, edit.new)
    ELSE IF edit.op = "insert" THEN InsertAfterLine(text, edit.line, edit.new)
    ELSE Refused

ViewFile(c) ==
    /\ editing[c].pc = "read"
    /\ editing[c].edit.op = "view"
    /\ EditReachable(c)
    /\ EndEdit(c)
    /\ UNCHANGED <<jobVars, file>>

ReadForEdit(c) ==
    LET result == EditedText(editing[c].edit, file) IN
    /\ editing[c].pc = "read"
    /\ editing[c].edit.op # "view"
    /\ EditReachable(c)
    /\ IF Readable /\ result.ok
       THEN editing' = [editing EXCEPT ![c].pc = "truncate",
                                       ![c].text = result.text,
                                       ![c].seen = file]
       ELSE EndEdit(c)
    /\ UNCHANGED <<jobVars, file>>

\* Mutant: the old content stays until it is overwritten.
OpenFile(c) ==
    /\ editing[c].pc = "truncate"
    /\ EditReachable(c)
    /\ UNCHANGED file
    /\ editing' = OthersSee(c, [editing[c] EXCEPT !.pc = "write"])
    /\ UNCHANGED jobVars

\* The shell opens path for "cat > path" and so empties the file.
TruncateFile(c) ==
    /\ editing[c].pc = "truncate"
    /\ EditReachable(c)
    /\ file' = <<>>
    /\ editing' = OthersSee(c, [editing[c] EXCEPT !.pc = "write"])
    /\ UNCHANGED jobVars

\* cat writes from offset 0, over what another writer may have put there.
Overlay(new, old) == new \o SubSeq(old, Len(new) + 1, Len(old))

WriteFile(c) ==
    /\ editing[c].pc = "write"
    /\ EditReachable(c)
    /\ file' = Overlay(editing[c].text, file)
    /\ editing' = OthersSee(c, NoEditing)
    /\ UNCHANGED jobVars

\* The stream breaks: the pod went away or the client did, when nothing or
\* only the beginning was written.
EditFails(c) ==
    /\ editing[c].pc \in {"read", "truncate", "run"}
    /\ EndEdit(c)
    /\ UNCHANGED <<jobVars, file>>

WriteFails(c) ==
    /\ editing[c].pc = "write"
    /\ IF EditReachable(c)
       THEN \E n \in 0 .. Len(editing[c].text) :
               file' = Overlay(SubSeq(editing[c].text, 1, n), file)
       ELSE UNCHANGED file
    /\ editing' = OthersSee(c, NoEditing)
    /\ UNCHANGED jobVars

-----------------------------------------------------------------------------
(* The synchronous shell.                                                  *)

Shell(c) ==
    /\ Idle(c)
    /\ pod # None
    /\ Spend("edits")
    /\ editing' = [editing EXCEPT ![c] = [NoEditing EXCEPT !.pc = "run", !.target = pod]]
    /\ UNCHANGED <<otherJobVars, file>>

\* The command may rewrite the file.  A non-zero exit or a timeout is a
\* result, not an error.
RunCommand(c) ==
    /\ editing[c].pc = "run"
    /\ EditReachable(c)
    /\ file' \in ShellTexts \cup {file}
    /\ editing' = OthersSee(c, NoEditing)
    /\ UNCHANGED jobVars

-----------------------------------------------------------------------------

Begin(c) ==
    /\ Idle(c)
    /\ BeginJobCall(c)
    /\ UNCHANGED editVars

EditStep(c) ==
    \/ ViewFile(c)
    \/ ReadForEdit(c)
    \/ TruncateFile(c)
    \/ WriteFile(c)
    \/ RunCommand(c)

Next ==
    \/ PodStep /\ UNCHANGED editVars
    \/ \E c \in Calls :
          \/ Begin(c)
          \/ JobCallStep(c) /\ UNCHANGED editVars
          \/ JobCallFault(c) /\ UNCHANGED editVars
          \/ \E edit \in Edits : BeginEdit(c, edit)
          \/ Shell(c)
          \/ EditStep(c)
          \/ EditFails(c)
          \/ WriteFails(c)

Spec == Init /\ [][Next]_vars

\* The goroutines go on, requests are answered, and commands come to an end.
\* Nothing makes clients call, contexts end or time pass.
Fairness ==
    /\ \A c \in Calls :
          WF_vars((JobCallStep(c) /\ UNCHANGED editVars) \/ EditStep(c))
    /\ \A j \in Jobs : WF_vars(ProcessStep(j) /\ UNCHANGED editVars)

FairSpec == Spec /\ Fairness

-----------------------------------------------------------------------------
(* Properties of the jobs.                                                 *)

\* The poll that c serves is about to return a job that has finished.
ReportsFinished(c) == call[c].pc = "read_log" /\ ~ call[c].clone.running

\* What a poll says of a finished job (PollJob) is true, in this sense: unless
\* the job was stopped or lost with its pod, its command has ended; and a code
\* other than zero is the code the command ended with.
ReportsAreTrue ==
    \A c \in Calls : ReportsFinished(c) =>
       LET j == call[c].job
           code == call[c].clone.exitCode
       IN /\ j \in stops \/ process[j].command \in {"ended", "lost"}
          /\ code # 0 => code = process[j].code

Undisturbed == spent.mishaps = 0

\* A job that a call reported as finished, or that a stop has returned for, is
\* never reported as running by a call that begins later, even though polls
\* write back clones that are older than what others have recorded.  (When a
\* request times out or the pod is replaced, PollJob may take another process
\* or no answer for the job.)
SettledStays ==
    \A c \in Calls :
       (Undisturbed /\ call[c].pc = "read_log" /\ call[c].late) => ReportsFinished(c)

\* reapJobsLocked forgets a job only when it is older than the hard limit or
\* was over for the retention time, so that its last poll can still get the
\* result.  (A stop whose kill timed out marks a job that is not over.)
RetentionKept ==
    [][\A j \in Jobs :
         (jobs[j] # NoJob /\ jobs'[j] = NoJob) =>
            \/ now - jobs[j].startedAt > HardTTL
            \/ over[j] # None /\ now - over[j] > Retention
            \/ j \in stops /\ ~ Undisturbed]_vars

\* shell_wait returns, whatever becomes of the job: it ends, it is stopped, its
\* wrapper is killed before it leaves an exit code, its entry is reaped or its
\* pod is deleted or replaced.
WaitsEnd ==
    \A c \in Calls : (call[c].tool = "shell_wait" /\ call[c].pc # "idle")
                        ~> call[c].pc = "idle"

\* exec.go and PollJob promise the real exit code of a command that ran to
\* completion.
ExitCodeIsReal ==
    \A c \in Calls :
       (ReportsFinished(c) /\ call[c].job \notin stops
          /\ process[call[c].job].command = "ended")
          => call[c].clone.exitCode = process[call[c].job].code

-----------------------------------------------------------------------------
(* Properties of the editor.                                               *)

\* An edit that succeeds while nobody else wrote the file has changed the text
\* it read in the way it was asked to and in no other.
SoleEditIsExact ==
    [][\A c \in Calls : (WriteFile(c) /\ editing[c].alone) =>
            file' = (IF editing[c].edit.op = "create" THEN editing[c].edit.text
                     ELSE EditedText(editing[c].edit, editing[c].seen).text)]_vars

\* All lines, as a view without a range numbers them.
Shown(text) == NumberedLines(text, 1, 0)

\* The lines that insert counts are the lines that view numbers: what is
\* inserted after line n is viewed under the numbers n + 1 and following, and
\* the other lines are what they were.  (An insert after a last line without a
\* newline continues that line.)
InsertMatchesView ==
    \A edit \in Edits :
       (edit.op = "insert" /\ file # NoFile /\ edit.new # <<>> /\ EndsLine(edit.new)
          /\ edit.line \in 0 .. Len(Shown(file))
          /\ (edit.line < Len(Shown(file)) \/ EndsLine(file))) =>
       LET after == InsertAfterLine(file, edit.line, edit.new)
           first == edit.line + 1
           last == edit.line + Len(Shown(edit.new))
           view == NumberedLines(after.text, first, last)
       IN /\ after.ok
          /\ DOMAIN view = first .. last
          /\ \A k \in first .. last : view[k] = Shown(edit.new)[k - edit.line]
          /\ Shown(after.text) = SubSeq(Shown(file), 1, edit.line) \o Shown(edit.new)
                \o SubSeq(Shown(file), first, Len(Shown(file)))

\* Text whose beginning is nowhere else in it cannot overlap a copy of itself.
OverlapsItself(old) ==
    \E n \in 1 .. Len(old) - 1 : SubSeq(old, 1, n) = SubSeq(old, Len(old) - n + 1, Len(old))

\* str_replace accepts exactly the texts in which old_str stands at one place
\* (server.go: "Must occur exactly once"), and replaces it there.  (The count
\* skips overlapping copies, so this is about texts that have none.)
ReplacesTheOnlyOne ==
    \A edit \in Edits :
       (edit.op = "str_replace" /\ file # NoFile /\ edit.old # <<>>
          /\ ~ OverlapsItself(edit.old)) =>
       LET places == {i \in 1 .. Len(file) : OccursAt(file, edit.old, i)}
           result == ReplaceUnique(file, edit.old, edit.new)
       IN /\ result.ok <=> Cardinality(places) = 1
          /\ \A i \in places : result.ok =>
                /\ SubSeq(result.text, 1, i - 1) = SubSeq(file, 1, i - 1)
                /\ SubSeq(result.text, i, i + Len(edit.new) - 1) = edit.new
                /\ SubSeq(result.text, i + Len(edit.new), Len(result.text))
                     = SubSeq(file, i + Len(edit.old), Len(file))

\* However a stream is cut into writes, capBuffer ends up with the beginning of
\* it and tailBuffer with the end, and both say truncated exactly if something
\* is missing: ReadFile refuses no file that fits and edits none that does not.
BuffersKeepEnds ==
    file # NoFile =>
    \A limit \in 0 .. ReadLimit : \A cut \in 0 .. Len(file) :
       LET first == SubSeq(file, 1, cut)
           rest == SubSeq(file, cut + 1, Len(file))
           cap == CapWrite(CapWrite(EmptyBuffer, limit, first), limit, rest)
           tail == TailWrite(TailWrite(EmptyBuffer, limit, first), limit, rest)
           fits == Len(file) <= limit
       IN /\ cap.buf = (IF fits THEN file ELSE SubSeq(file, 1, limit))
          /\ tail.buf = (IF fits THEN file
                         ELSE SubSeq(file, Len(file) - limit + 1, Len(file)))
          /\ cap.truncated = ~ fits
          /\ tail.truncated = ~ fits
=============================================================================
