---------------------------- MODULE MCSandboxTools ----------------------------
(* Small instances of SandboxTools for TLC: lines of a's and b's. *)
EXTENDS SandboxTools, TLC
CONSTANTS a, b

\* "a\n", "ab", "a\nb\n" and fragments of them.
MCEdits ==
    {[op |-> "create", text |-> t] : t \in {<<a, NewLine>>, <<a, b>>, <<a, NewLine, b, NewLine>>}}
    \cup {[op |-> "str_replace", old |-> o, new |-> n] :
             o \in {<<>>, <<a>>, <<a, a>>, <<NewLine, b>>}, n \in {<<>>, <<a, a>>}}
    \cup {[op |-> "insert", line |-> l, new |-> <<b, NewLine>>] : l \in -1 .. 3}
    \cup {[op |-> "view"]}
MCShellTexts == {<<>>, <<a, a, a>>}

Budget(calls, edits, mishaps, ticks) ==
    [calls |-> calls, edits |-> edits, mishaps |-> mishaps, ticks |-> ticks]
MCBudgets == {Budget(4, 0, 0, 0), Budget(3, 0, 1, 0), Budget(3, 0, 0, 2),
              Budget(0, 3, 1, 0), Budget(1, 1, 1, 0)}
\* One job and the call that waits for it.
MCOneWait == {Budget(2, 0, 0, 0)}
=============================================================================
