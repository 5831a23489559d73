--------------------------- MODULE ExtensionCalls ---------------------------
(***************************************************************************)
(* Calls to one extension: getProcess of the registry, the ExtensionProcess  *)
(* objects (subprocess.ts), their children, and the JSON-RPC transport of a  *)
(* child with its streamed responses (json-rpc.ts).  A transport lives and   *)
(* is replaced with its child, so both have one number.  A child answers     *)
(* only what it was sent, and a cancellation's reason is not "timed out".    *)
(* Reverse requests, notifications, environment, memory limits, stderr and   *)
(* the reload of the registry are left out.                                  *)
(***************************************************************************)
EXTENDS Naturals, Sequences, FiniteSets

CONSTANTS
  Calls,
  TimedCalls,    \* the calls without skipTimeout
  Persistent,    \* the manifest's persistent: no idle timer
  Threshold,     \* AUTO_DISABLE_THRESHOLD
  MaxTotal,      \* bound: chunks a response may announce
  MaxFrames      \* bound: frames the children write

ASSUME ExtensionCallsAssumption ==
  /\ TimedCalls \subseteq Calls /\ Persistent \in BOOLEAN
  /\ Threshold \in Nat \ {0} /\ MaxTotal \in Nat \ {0, 1} /\ MaxFrames \in Nat

VARIABLES
  registry,   \* processes.get(extension): an index of obj, 0 when absent
  obj,        \* the ExtensionProcess objects
  child,      \* the processes spawned
  call,       \* per call: where it is, its object and its child
  row,        \* consecutiveFailures and enabled of the extension's row
  package,    \* its manifest is known, its checksums are verified
  frames      \* frames written so far

vars == <<registry, obj, child, call, row, package, frames>>

NewCall   == [pc |-> "new", obj |-> 0, child |-> 0]
NewObj    == [child |-> 0, killed |-> FALSE, timer |-> FALSE]
NoStream  == [total |-> 0, nextSeq |-> 0]
NewChild(o) == [obj |-> o, alive |-> TRUE, killed |-> FALSE, reading |-> TRUE, exit |-> "none",
                callbacks |-> {}, late |-> {}, inbox |-> {}, got |-> {}, pipe |-> << >>,
                streams |-> [c \in Calls |-> NoStream]]

\* What a child can write for a call: a line, an announcement (0: over the cap),
\* a chunk (one out of order stands for the oversized, the undecodable and the
\* unparsable too), a cancellation.  One that makes the parser throw is part of ReadLoopEnds.
Frame == [type : {"line", "cancel"}, call : Calls, n : {0}]
           \cup [type : {"announce"}, call : Calls, n : 0 .. MaxTotal]
           \cup [type : {"chunk"}, call : Calls, n : 0 .. MaxTotal - 1]

CallPcs == {"new", "verifying", "denying", "getting", "have", "waiting", "reset", "answered", "failed"}

\* An open stream lacks a chunk; indices name objects and children.
TypeOK ==
  /\ registry \in 0 .. Len(obj)
  /\ \A o \in DOMAIN obj : obj[o] \in [child : 0 .. Len(child), killed : BOOLEAN, timer : BOOLEAN]
  /\ \A k \in DOMAIN child :
       /\ child[k].obj \in DOMAIN obj
       /\ {child[k].alive, child[k].killed, child[k].reading} \subseteq BOOLEAN
       /\ child[k].exit \in {"none", "counting", "disabling", "done"}
       /\ child[k].late \subseteq Calls /\ child[k].callbacks \subseteq Calls
       /\ child[k].inbox \subseteq Calls /\ child[k].got \subseteq Calls
       /\ \A i \in DOMAIN child[k].pipe : child[k].pipe[i] \in Frame
       /\ \A c \in Calls : LET s == child[k].streams[c] IN
            s # NoStream => s.total \in 1 .. MaxTotal /\ s.nextSeq \in 0 .. s.total - 1
  /\ call \in [Calls -> [pc : CallPcs, obj : 0 .. Len(obj), child : 0 .. Len(child)]]
  /\ row \in [failures : Nat, enabled : BOOLEAN]
  /\ package \in [known : BOOLEAN, verified : BOOLEAN]
  /\ frames \in 0 .. MaxFrames

Init ==
  /\ registry = 0 /\ obj = << >> /\ child = << >>
  /\ call = [c \in Calls |-> NewCall]
  /\ row = [failures |-> 0, enabled |-> TRUE]
  /\ package = [known |-> TRUE, verified |-> FALSE]
  /\ frames = 0

----------------------------------------------------------------------------
(* The registry *)

isRunning(o) == IF o = 0 THEN FALSE ELSE obj[o].child # 0 /\ ~obj[o].killed

\* getProcess returns the object of the map if it runs ...
GetRunning(c) ==
  /\ call[c].pc = "new" /\ isRunning(registry)
  /\ call' = [call EXCEPT ![c].pc = "have", ![c].obj = registry]
  /\ UNCHANGED <<registry, obj, child, row, package, frames>>

\* ... and otherwise verifies the files once a session, if it knows the extension ...
GetBegins(c) ==
  /\ call[c].pc = "new" /\ ~isRunning(registry)
  /\ call' = [call EXCEPT ![c].pc = IF ~package.known THEN "failed"
                                    ELSE IF package.verified THEN "getting" ELSE "verifying"]
  /\ UNCHANGED <<registry, obj, child, row, package, frames>>

GetVerified(c) ==
  /\ call[c].pc = "verifying"
  /\ package' = [package EXCEPT !.verified = TRUE]
  /\ call' = [call EXCEPT ![c].pc = "getting"]
  /\ UNCHANGED <<registry, obj, child, row, frames>>

\* ... disabling an extension whose files have changed (denyAndDisable) ...
GetDenied(c) ==
  /\ call[c].pc = "verifying"
  /\ row' = [row EXCEPT !.enabled = FALSE]
  /\ call' = [call EXCEPT ![c].pc = "denying"]
  /\ UNCHANGED <<registry, obj, child, package, frames>>

\* ... and forgetting it ...
GetForgets(c) ==
  /\ call[c].pc = "denying"
  /\ registry' = 0
  /\ package' = [package EXCEPT !.known = FALSE]
  /\ call' = [call EXCEPT ![c].pc = "failed"]
  /\ UNCHANGED <<obj, child, row, frames>>

\* ... or throws: the files cannot be read, a statement of denyAndDisable is
\* rejected, or the manifest names no entrypoint ...
GetThrows(c) ==
  /\ call[c].pc \in {"verifying", "denying", "getting"}
  /\ call' = [call EXCEPT ![c].pc = "failed"]
  /\ UNCHANGED <<registry, obj, child, row, package, frames>>

\* ... resolves the environment and puts a new object into the map, whatever
\* is there by then.
GetMakes(c) ==
  /\ call[c].pc = "getting"
  /\ obj' = Append(obj, NewObj) /\ registry' = Len(obj) + 1
  /\ call' = [call EXCEPT ![c].pc = "have", ![c].obj = Len(obj) + 1]
  /\ UNCHANGED <<child, row, package, frames>>

----------------------------------------------------------------------------
(* ExtensionProcess *)

\* transport.send: the callback is registered and the request written.
Sent(k, c) == [k EXCEPT !.callbacks = @ \cup {c}, !.inbox = @ \cup {c},
                        !.late = IF k.reading THEN @ ELSE @ \cup {c}]

\* call: ensureRunning spawns a child unless the object has one, the idle timer
\* is set again, and the request is sent.
Call(c) ==
  LET o == call[c].obj
      k == IF isRunning(o) THEN obj[o].child ELSE Len(child) + 1
  IN
  /\ call[c].pc = "have"
  /\ child' = IF isRunning(o) THEN [child EXCEPT ![k] = Sent(@, c)]
              ELSE Append(child, Sent(NewChild(o), c))
  /\ obj' = [obj EXCEPT ![o] = [child |-> k, killed |-> FALSE, timer |-> ~Persistent]]
  /\ call' = [call EXCEPT ![c].pc = "waiting", ![c].child = k]
  /\ UNCHANGED <<registry, row, package, frames>>

\* Bun.spawn throws: the object is no longer marked as killed, and has no child.
SpawnThrows(c) ==
  LET o == call[c].obj IN
  /\ call[c].pc = "have" /\ ~isRunning(o)
  /\ obj' = [obj EXCEPT ![o].killed = FALSE]
  /\ call' = [call EXCEPT ![c].pc = "failed"]
  /\ UNCHANGED <<registry, child, row, package, frames>>

\* The write to a child that is gone throws: the call fails, its callback stays.
CallThrows(c) ==
  LET o == call[c].obj
      k == obj[o].child
  IN
  /\ call[c].pc = "have" /\ isRunning(o) /\ ~child[k].alive
  /\ child' = [child EXCEPT ![k].callbacks = @ \cup {c}]
  /\ obj' = [obj EXCEPT ![o].timer = ~Persistent]
  /\ call' = [call EXCEPT ![c].pc = "failed", ![c].child = k]
  /\ UNCHANGED <<registry, row, package, frames>>

\* The promises of the callers in S are rejected; those no longer waiting do not notice.
Reject(S) == call' = [c \in Calls |-> IF c \in S /\ call[c].pc = "waiting"
                                      THEN [call[c] EXCEPT !.pc = "failed"] ELSE call[c]]

\* Mutant: the child is forgotten, no signal is sent to it.
KillForgets(o, S) ==
  LET k == obj[o].child IN
  /\ obj' = [obj EXCEPT ![o] = [child |-> 0, killed |-> TRUE, timer |-> FALSE]]
  /\ IF k = 0 THEN Reject(S) /\ UNCHANGED child
     ELSE /\ Reject(S \cup child[k].callbacks)
          /\ child' = [child EXCEPT ![k].callbacks = {},
                                    ![k].streams = [c \in Calls |-> NoStream]]
  /\ UNCHANGED <<registry, row, package, frames>>

\* kill: the current transport is closed and the current child sent a SIGTERM,
\* which it may take its time to obey or ignore, or which is not delivered (the
\* error is swallowed): it dies in a step of its own, if at all, and is read on
\* until then.  The callers in S fail as well.
Kill(o, S) ==
  LET k == obj[o].child IN
  /\ obj' = [obj EXCEPT ![o] = [child |-> 0, killed |-> TRUE, timer |-> FALSE]]
  /\ IF k = 0 THEN Reject(S) /\ UNCHANGED child
     ELSE /\ Reject(S \cup child[k].callbacks)
          /\ child' = [child EXCEPT ![k].killed = TRUE, ![k].callbacks = {},
                                    ![k].streams = [c \in Calls |-> NoStream]]
  /\ UNCHANGED <<registry, row, package, frames>>

\* Mutant: the closing of the transport is to reject the call.
TimeoutByClose(c) ==
  /\ call[c].pc = "waiting" /\ c \in TimedCalls
  /\ Kill(call[c].obj, {})

Timeout(c) ==
  /\ call[c].pc = "waiting" /\ c \in TimedCalls
  /\ Kill(call[c].obj, {c})

IdleTimeout(o) ==
  /\ obj[o].timer
  /\ Kill(o, {})

\* An answer resets the failure count before it is returned; a rejected
\* statement is ignored here and below.
ResetFailures(c) ==
  /\ call[c].pc = "reset"
  /\ row' \in {row, [row EXCEPT !.failures = 0]}
  /\ call' = [call EXCEPT ![c].pc = "answered"]
  /\ UNCHANGED <<registry, obj, child, package, frames>>

----------------------------------------------------------------------------
(* A child and the end of it *)

Receive(k, c) ==
  /\ child[k].alive /\ c \in child[k].inbox
  /\ child' = [child EXCEPT ![k].inbox = @ \ {c}, ![k].got = @ \cup {c}]
  /\ UNCHANGED <<registry, obj, call, row, package, frames>>

\* What it writes when nobody reads any more is lost.
Write(k, f) ==
  /\ child[k].alive /\ child[k].reading /\ f.call \in child[k].got
  /\ frames < MaxFrames /\ frames' = frames + 1
  /\ child' = [child EXCEPT ![k].pipe = Append(@, f)]
  /\ UNCHANGED <<registry, obj, call, row, package>>

ChildDies(k) ==
  /\ child[k].alive
  /\ child' = [child EXCEPT ![k].alive = FALSE, ![k].inbox = {}]
  /\ UNCHANGED <<registry, obj, call, row, package, frames>>

\* Mutant: a kill is not told from a crash.
ExitSeenAlways(k) ==
  /\ ~child[k].alive /\ child[k].exit = "none"
  /\ child' = [child EXCEPT ![k].exit = "counting"]
  /\ obj' = [obj EXCEPT ![child[k].obj].child = 0]
  /\ UNCHANGED <<registry, call, row, package, frames>>

\* exited: unless the object was killed, the object gives up the child it has
\* now, and the exit counts as a crash ...
ExitSeen(k) ==
  /\ ~child[k].alive /\ child[k].exit = "none"
  /\ \/ /\ obj[child[k].obj].killed
        /\ child' = [child EXCEPT ![k].exit = "done"]
        /\ UNCHANGED obj
     \/ /\ ~obj[child[k].obj].killed
        /\ child' = [child EXCEPT ![k].exit = "counting"]
        /\ obj' = [obj EXCEPT ![child[k].obj].child = 0]
  /\ UNCHANGED <<registry, call, row, package, frames>>

\* ... incrementFailures ...
CountFailure(k) ==
  /\ child[k].exit = "counting"
  /\ \/ /\ row' = [row EXCEPT !.failures = @ + 1]
        /\ child' = [child EXCEPT ![k].exit = IF row.failures + 1 >= Threshold THEN "disabling" ELSE "done"]
     \/ child' = [child EXCEPT ![k].exit = "done"] /\ UNCHANGED row
  /\ UNCHANGED <<registry, obj, call, package, frames>>

\* ... disableExtension.
DisableExtension(k) ==
  /\ child[k].exit = "disabling"
  /\ row' \in {row, [row EXCEPT !.enabled = FALSE]}
  /\ child' = [child EXCEPT ![k].exit = "done"]
  /\ UNCHANGED <<registry, obj, call, package, frames>>

----------------------------------------------------------------------------
(* JsonRpcTransport *)

\* Mutant: the pending callbacks are left.
StopReadingKeeps(k) ==
  /\ child' = [child EXCEPT ![k].reading = FALSE, ![k].pipe = << >>,
                            ![k].streams = [c \in Calls |-> NoStream]]
  /\ UNCHANGED <<registry, obj, call, row, package, frames>>

\* The end of the read loop: every callback registered until now is rejected.
StopReading(k) ==
  /\ child' = [child EXCEPT ![k].reading = FALSE, ![k].callbacks = {}, ![k].pipe = << >>,
                            ![k].streams = [c \in Calls |-> NoStream]]
  /\ Reject(child[k].callbacks)
  /\ UNCHANGED <<registry, obj, row, package, frames>>

\* It comes with the end of stdout, be it that of a child that lives on, or when
\* the handler of a frame throws (a fractional number of announced chunks is no
\* array length): the frames behind it are not read.
ReadLoopEnds(k) == child[k].reading /\ StopReading(k)

\* The callback of c, if there is one, is taken out and resolved.
Resolve(k, c) ==
  call' = IF c \in child[k].callbacks /\ call[c].pc = "waiting"
          THEN [call EXCEPT ![c].pc = "reset"] ELSE call

\* The transport after frame f: the callback taken out, the stream in its new state.
Handled(k, c, stream, settled) ==
  child' = [child EXCEPT ![k].pipe = Tail(@), ![k].streams[c] = stream,
                         ![k].callbacks = IF settled THEN @ \ {c} ELSE @]

HandleLine(k) ==
  LET f == Head(child[k].pipe) IN
  /\ child[k].reading /\ child[k].pipe # << >> /\ f.type = "line"
  /\ Handled(k, f.call, child[k].streams[f.call], TRUE)
  /\ Resolve(k, f.call)
  /\ UNCHANGED <<registry, obj, row, package, frames>>

HandleAnnounce(k) ==
  LET f == Head(child[k].pipe) IN
  /\ child[k].reading /\ child[k].pipe # << >> /\ f.type = "announce"
  /\ \/ /\ f.n = 0
        /\ Handled(k, f.call, child[k].streams[f.call], TRUE)
        /\ Reject({f.call} \cap child[k].callbacks)
     \/ /\ f.n > 0
        /\ Handled(k, f.call, [total |-> f.n, nextSeq |-> 0], FALSE)
        /\ UNCHANGED call
  /\ UNCHANGED <<registry, obj, row, package, frames>>

\* Mutant: the stream stays open after its last chunk.
HandleChunkLate(k) ==
  LET f == Head(child[k].pipe)
      s == child[k].streams[f.call]
  IN
  /\ child[k].reading /\ child[k].pipe # << >> /\ f.type = "chunk"
  /\ \/ s = NoStream /\ Handled(k, f.call, s, FALSE) /\ UNCHANGED call
     \/ /\ s # NoStream /\ f.n # s.nextSeq
        /\ Handled(k, f.call, NoStream, TRUE)
        /\ Reject({f.call} \cap child[k].callbacks)
     \/ /\ s # NoStream /\ f.n = s.nextSeq /\ f.n < s.total
        /\ Handled(k, f.call, [s EXCEPT !.nextSeq = @ + 1], FALSE)
        /\ UNCHANGED call
  /\ UNCHANGED <<registry, obj, row, package, frames>>

\* A chunk of an open stream: the wrong one fails the call, the last one answers it.
HandleChunk(k) ==
  LET f == Head(child[k].pipe)
      s == child[k].streams[f.call]
  IN
  /\ child[k].reading /\ child[k].pipe # << >> /\ f.type = "chunk"
  /\ \/ s = NoStream /\ Handled(k, f.call, s, FALSE) /\ UNCHANGED call
     \/ /\ s # NoStream /\ f.n # s.nextSeq
        /\ Handled(k, f.call, NoStream, TRUE)
        /\ Reject({f.call} \cap child[k].callbacks)
     \/ /\ s # NoStream /\ f.n = s.nextSeq /\ f.n + 1 < s.total
        /\ Handled(k, f.call, [s EXCEPT !.nextSeq = @ + 1], FALSE)
        /\ UNCHANGED call
     \/ /\ s # NoStream /\ f.n = s.nextSeq /\ f.n + 1 = s.total
        /\ Handled(k, f.call, NoStream, TRUE)
        /\ Resolve(k, f.call)
  /\ UNCHANGED <<registry, obj, row, package, frames>>

HandleCancel(k) ==
  LET f == Head(child[k].pipe) IN
  /\ child[k].reading /\ child[k].pipe # << >> /\ f.type = "cancel"
  /\ Handled(k, f.call, NoStream, TRUE)
  /\ Reject({f.call} \cap child[k].callbacks)
  /\ UNCHANGED <<registry, obj, row, package, frames>>

----------------------------------------------------------------------------
CallStep(c) ==
  \/ GetRunning(c) \/ GetBegins(c) \/ GetVerified(c) \/ GetDenied(c) \/ GetForgets(c)
  \/ GetThrows(c) \/ GetMakes(c) \/ Call(c) \/ SpawnThrows(c) \/ CallThrows(c) \/ Timeout(c) \/ ResetFailures(c)

TransportStep(k) ==
  \/ HandleLine(k) \/ HandleAnnounce(k) \/ HandleChunk(k) \/ HandleCancel(k) \/ ReadLoopEnds(k)

ExitStep(k) == ExitSeen(k) \/ CountFailure(k) \/ DisableExtension(k)

Next ==
  \/ \E c \in Calls : CallStep(c)
  \/ \E k \in DOMAIN child :
       \/ TransportStep(k) \/ ExitStep(k) \/ ChildDies(k)
       \/ \E c \in Calls : Receive(k, c)
       \/ \E f \in Frame : Write(k, f)
  \/ \E o \in DOMAIN obj : IdleTimeout(o)

\* Awaits of the host return and its timers fire; nothing is assumed of a child.
Fairness == \A c \in Calls : WF_vars(CallStep(c))

Spec == Init /\ [][Next]_vars /\ Fairness

----------------------------------------------------------------------------
\* The calls seen by their callers: RemoteCall.
Status(c) == CASE call[c].pc = "new" -> "idle"
               [] call[c].pc \in {"verifying", "denying", "getting", "have", "waiting", "reset"} -> "pending"
               [] OTHER -> call[c].pc

Remote == INSTANCE RemoteCall WITH
  status <- [c \in Calls |-> Status(c)],
  served <- UNION {child[k].got : k \in DOMAIN child}

\* Every call behaves as RemoteCall says: it is executed at most once, answered
\* only if executed, settles once and, with a timeout, settles.
CallsAreRemote == Remote!Spec

\* A call is left waiting on a transport that reads no more only if it was
\* sent after the read loop had rejected the others.
NoCallbackLost ==
  \A c \in Calls : call[c].pc = "waiting" =>
    LET k == child[call[c].child] IN
    c \in k.callbacks /\ (k.reading \/ c \in k.late)

\* No child is forgotten: one that runs on without its object has been told to
\* end, or was spawned by an object that had just been killed, where the exit of
\* the child before it was taken for its own.
NoChildForgotten ==
  \A k \in DOMAIN child : child[k].alive /\ obj[child[k].obj].child # k =>
    \/ child[k].killed
    \/ \E j \in 1 .. k - 1 :
         child[j].obj = child[k].obj /\ child[j].killed /\ child[j].exit # "none"

\* A child that the host killed counts as a crash only if a later call has
\* made its object spawn, or try to spawn, another one.
KillNotCounted ==
  \A k \in DOMAIN child : child[k].killed /\ child[k].exit \in {"counting", "disabling"} =>
    \/ \E j \in k + 1 .. Len(child) : child[j].obj = child[k].obj
    \/ \E c \in Calls : call[c].obj = child[k].obj /\ call[c].pc = "failed" /\ call[c].child = 0
=============================================================================
