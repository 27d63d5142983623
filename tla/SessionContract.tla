---------------------------- MODULE SessionContract ----------------------------
(***************************************************************************)
(* What internal/manager promises to the MCP server, which calls only      *)
(* EnsureSession and Clear: an id has at most one session at a time, the   *)
(* session keeps the sandbox and the image it was granted until it is      *)
(* dismissed, it is served at most once and never after it has failed, and *)
(* no sandbox is granted twice.  SandboxLifecycle implements it, whatever  *)
(* requests fail and whatever contexts are cancelled.                      *)
(***************************************************************************)

CONSTANTS
    Ids, WarmKeys,         \* session ids; keys of the warm sandboxes
    Images, DefaultImage,
    None                   \* no sandbox, no image

VARIABLES
    session,   \* session[i]: the session of i, or NoSession
    spare,     \* warm sandboxes nobody has been promised
    drawn      \* warm sandboxes promised to a session that is not granted yet

NoSession == [state |-> "absent", image |-> None, pod |-> None, pvc |-> None]

Granted == {session[i].pod : i \in Ids}

Init ==
    /\ session = [i \in Ids |-> NoSession]
    /\ spare = WarmKeys
    /\ drawn = {}

\* A fresh warm sandbox; the key of an old one comes back when nothing has it.
Refill(k) ==
    /\ k \notin spare \cup drawn \cup Granted
    /\ spare' = spare \cup {k}
    /\ UNCHANGED <<session, drawn>>

Draw(k) ==
    /\ k \in spare
    /\ spare' = spare \ {k}
    /\ drawn' = drawn \cup {k}
    /\ UNCHANGED session

\* The session it was for is not to be: the sandbox never returns to the stock.
Drop(k) ==
    /\ k \in drawn
    /\ drawn' = drawn \ {k}
    /\ UNCHANGED <<session, spare>>

\* i gets a warm sandbox, which has the default image, or one of its own name;
\* either comes with the workspace of that name.
Grant(i, k, image) ==
    /\ session[i] = NoSession
    /\ k = i \/ (k \in drawn /\ image = DefaultImage)
    /\ k \notin Granted
    /\ session' = [session EXCEPT ![i] =
         [state |-> "creating", image |-> image, pod |-> k, pvc |-> k]]
    /\ drawn' = drawn \ {k}
    /\ UNCHANGED spare

\* The outcome of a session is settled once.
Settle(i, outcome) ==
    /\ session[i].state = "creating"
    /\ session' = [session EXCEPT ![i].state = outcome]
    /\ UNCHANGED <<spare, drawn>>

Dismiss(i) ==
    /\ session[i] # NoSession
    /\ session' = [session EXCEPT ![i] = NoSession]
    /\ UNCHANGED <<spare, drawn>>

Next ==
    \/ \E k \in WarmKeys : Refill(k) \/ Draw(k) \/ Drop(k)
    \/ \E i \in Ids :
         \/ \E k \in {i} \cup WarmKeys, image \in Images : Grant(i, k, image)
         \/ \E outcome \in {"running", "dead"} : Settle(i, outcome)
         \/ Dismiss(i)

Spec == Init /\ [][Next]_<<session, spare, drawn>>
=============================================================================
