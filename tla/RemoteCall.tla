----------------------------- MODULE RemoteCall -----------------------------
(***************************************************************************)
(* What ExtensionProcess.callTool promises to its callers, without the       *)
(* processes and pipes: a call is executed by the extension at most once, is *)
(* answered only if it was executed, settles once, and settles eventually    *)
(* when it has a timeout.                                                    *)
(***************************************************************************)
CONSTANTS Calls, TimedCalls

VARIABLES status, served

vars == <<status, served>>

Init == status = [c \in Calls |-> "idle"] /\ served = {}

Begin(c) ==
  /\ status[c] = "idle"
  /\ status' = [status EXCEPT ![c] = "pending"]
  /\ UNCHANGED served

\* The extension is unknown by now.
Refuse(c) ==
  /\ status[c] = "idle"
  /\ status' = [status EXCEPT ![c] = "failed"]
  /\ UNCHANGED served

\* The extension executes the call, perhaps after the caller has given up.
Serve(c) ==
  /\ status[c] # "idle" /\ c \notin served
  /\ served' = served \cup {c}
  /\ UNCHANGED status

Answer(c) ==
  /\ status[c] = "pending" /\ c \in served
  /\ status' = [status EXCEPT ![c] = "answered"]
  /\ UNCHANGED served

\* Killing a process fails every call it has not answered, in one step.
FailAll(S) ==
  /\ S # {} /\ \A c \in S : status[c] = "pending"
  /\ status' = [c \in Calls |-> IF c \in S THEN "failed" ELSE status[c]]
  /\ UNCHANGED served

Settle(c) == Answer(c) \/ \E S \in SUBSET Calls : c \in S /\ FailAll(S)

Next == (\E c \in Calls : Begin(c) \/ Refuse(c) \/ Serve(c) \/ Answer(c))
          \/ \E S \in SUBSET Calls : FailAll(S)

Spec == Init /\ [][Next]_vars /\ \A c \in TimedCalls : WF_vars(Settle(c))
=============================================================================
