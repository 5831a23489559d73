------------------------ MODULE ExtensionCallsProofs ------------------------
(***************************************************************************)
(* Proofs about ExtensionCalls, for any number of calls, process objects,    *)
(* children and frames: type correctness, that no caller waits for a         *)
(* callback that is gone, when a kill is taken for a crash, that no child is *)
(* forgotten, and that every step of a call is a step of RemoteCall.         *)
(***************************************************************************)
EXTENDS ExtensionCalls, TLAPS

-----------------------------------------------------------------------------
(***************************************************************************)
(* The shape of the state.                                                 *)
(***************************************************************************)
ExitPcs == {"none", "counting", "disabling", "done"}

Obj == [child : Nat, killed : BOOLEAN, timer : BOOLEAN]

Child ==
  [obj : Nat, alive : BOOLEAN, killed : BOOLEAN, reading : BOOLEAN, exit : ExitPcs,
   callbacks : SUBSET Calls, late : SUBSET Calls, inbox : SUBSET Calls, got : SUBSET Calls,
   pipe : Seq(Frame), streams : [Calls -> [total : Nat, nextSeq : Nat]]]

CallRec == [pc : CallPcs, obj : Nat, child : Nat]

Shape ==
  /\ registry \in Nat
  /\ obj \in Seq(Obj)
  /\ child \in Seq(Child)
  /\ call \in [Calls -> CallRec]
  /\ row \in [failures : Nat, enabled : BOOLEAN]
  /\ package \in [known : BOOLEAN, verified : BOOLEAN]
  /\ frames \in 0 .. MaxFrames

-----------------------------------------------------------------------------
(***************************************************************************)
(* What the operations change.                                             *)
(***************************************************************************)
\* Child k becomes r, with no other field changed than those in F.
Becomes(k, r, F) ==
  /\ r \in Child
  /\ child' = [child EXCEPT ![k] = r]
  /\ "obj" \notin F => r.obj = child[k].obj
  /\ "alive" \notin F => r.alive = child[k].alive
  /\ "killed" \notin F => r.killed = child[k].killed
  /\ "reading" \notin F => r.reading = child[k].reading
  /\ "exit" \notin F => r.exit = child[k].exit
  /\ "callbacks" \notin F => r.callbacks = child[k].callbacks
  /\ "late" \notin F => r.late = child[k].late
  /\ "inbox" \notin F => r.inbox = child[k].inbox
  /\ "got" \notin F => r.got = child[k].got
  /\ "pipe" \notin F => r.pipe = child[k].pipe
  /\ "streams" \notin F => r.streams = child[k].streams

\* The sets of a child are sets of calls.
LEMMA ChildTypes ==
  ASSUME child \in Seq(Child), NEW k \in DOMAIN child
  PROVE  /\ child[k] \in Child /\ child[k].obj \in Nat /\ child[k].pipe \in Seq(Frame)
         /\ child[k].callbacks \subseteq Calls /\ child[k].late \subseteq Calls
         /\ child[k].inbox \cup child[k].got \subseteq Calls
         /\ child[k].streams \in [Calls -> [total : Nat, nextSeq : Nat]]
         /\ child[k].exit \in ExitPcs
<1>1. child[k] \in Child
  OBVIOUS
<1> QED
  BY <1>1 DEF Child

\* The other children stay what they are.
LEMMA BecomesOthers ==
  ASSUME child \in Seq(Child), NEW k \in DOMAIN child, NEW r, NEW F, Becomes(k, r, F)
  PROVE  /\ child' \in Seq(Child) /\ Len(child') = Len(child)
         /\ DOMAIN child' = DOMAIN child /\ DOMAIN child = 1..Len(child)
         /\ child'[k] = r
         /\ \A j \in DOMAIN child : j # k => child'[j] = child[j]
  BY DEF Becomes

\* A call that is sent: its callback is registered and the request written.
LEMMA SentEffect ==
  ASSUME NEW r \in Child, NEW c \in Calls
  PROVE  LET t == Sent(r, c) IN
         /\ t \in Child
         /\ t.callbacks = r.callbacks \cup {c} /\ t.inbox = r.inbox \cup {c}
         /\ r.late \subseteq t.late /\ (t.reading \/ c \in t.late)
         /\ t.obj = r.obj /\ t.alive = r.alive /\ t.killed = r.killed
         /\ t.reading = r.reading /\ t.exit = r.exit /\ t.got = r.got
         /\ t.pipe = r.pipe /\ t.streams = r.streams
  BY DEF Sent, Child

\* A new child has received nothing.
LEMMA NewChildEffect ==
  ASSUME NEW o \in Nat
  PROVE  /\ NewChild(o) \in Child
         /\ NewChild(o).obj = o /\ NewChild(o).alive /\ ~NewChild(o).killed
         /\ NewChild(o).reading /\ NewChild(o).exit = "none" /\ NewChild(o).callbacks = {}
         /\ NewChild(o).inbox = {} /\ NewChild(o).got = {} /\ NewChild(o).pipe = <<>>
         /\ NewChild(o).streams = [c \in Calls |-> NoStream]
  BY DEF NewChild, Child, ExitPcs, NoStream

\* The rejection of the callers in S.
LEMMA RejectEffect ==
  ASSUME call \in [Calls -> CallRec], NEW S, Reject(S)
  PROVE  /\ call' \in [Calls -> CallRec]
         /\ \A c \in Calls :
              /\ call'[c].obj = call[c].obj /\ call'[c].child = call[c].child
              /\ c \in S /\ call[c].pc = "waiting" => call'[c].pc = "failed"
              /\ ~(c \in S /\ call[c].pc = "waiting") => call'[c] = call[c]
  BY DEF Reject, CallRec, CallPcs

\* The answer of call c.
LEMMA ResolveEffect ==
  ASSUME call \in [Calls -> CallRec], NEW k, NEW c \in Calls, Resolve(k, c)
  PROVE  /\ call' \in [Calls -> CallRec]
         /\ \A d \in Calls :
              /\ call'[d].obj = call[d].obj /\ call'[d].child = call[d].child
              /\ d = c /\ c \in child[k].callbacks /\ call[d].pc = "waiting" =>
                   call'[d].pc = "reset"
              /\ ~(d = c /\ c \in child[k].callbacks /\ call[d].pc = "waiting") =>
                   call'[d] = call[d]
  BY DEF Resolve, CallRec, CallPcs

\* A child is sent a signal and its transport closed.
LEMMA KillEffect ==
  ASSUME child \in Seq(Child), NEW o, NEW S, Kill(o, S), NEW k \in DOMAIN child,
         obj[o].child = k
  PROVE  \E r : /\ Becomes(k, r, {"killed", "callbacks", "streams"})
                /\ r.killed = TRUE /\ r.callbacks = {}
                /\ r.streams = [c \in Calls |-> NoStream]
<1> DEFINE r == [child[k] EXCEPT !.killed = TRUE, !.callbacks = {},
                                 !.streams = [c \in Calls |-> NoStream]]
<1>1. child[k] \in Child
  OBVIOUS
<1>2. r \in Child
  BY <1>1 DEF Child, NoStream
<1>3. child' = [child EXCEPT ![k] = r]
  <2>1. k # 0
    OBVIOUS
  <2> QED
    BY <2>1 DEF Kill
<1>4. r.killed = TRUE /\ r.callbacks = {} /\ r.streams = [c \in Calls |-> NoStream]
  BY <1>1 DEF Child
<1>5. /\ r.obj = child[k].obj /\ r.alive = child[k].alive /\ r.reading = child[k].reading
      /\ r.exit = child[k].exit /\ r.late = child[k].late /\ r.inbox = child[k].inbox
      /\ r.got = child[k].got /\ r.pipe = child[k].pipe
  BY <1>1 DEF Child
<1> HIDE DEF r
<1> QED
  BY <1>2, <1>3, <1>4, <1>5 DEF Becomes

\* The read loop ends.
LEMMA StopReadingEffect ==
  ASSUME child \in Seq(Child), NEW k \in DOMAIN child, StopReading(k)
  PROVE  \E r : /\ Becomes(k, r, {"reading", "callbacks", "pipe", "streams"})
                /\ r.reading = FALSE /\ r.callbacks = {} /\ r.pipe = <<>>
                /\ r.streams = [c \in Calls |-> NoStream]
<1> DEFINE r == [child[k] EXCEPT !.reading = FALSE, !.callbacks = {}, !.pipe = <<>>,
                                 !.streams = [c \in Calls |-> NoStream]]
<1>1. child[k] \in Child
  OBVIOUS
<1>2. r \in Child
  <2>1. <<>> \in Seq(Frame)
    OBVIOUS
  <2> QED
    BY <1>1, <2>1 DEF Child, NoStream
<1>3. child' = [child EXCEPT ![k] = r]
  BY DEF StopReading
<1>4. /\ r.reading = FALSE /\ r.callbacks = {} /\ r.pipe = <<>>
      /\ r.streams = [c \in Calls |-> NoStream]
  BY <1>1 DEF Child
<1>5. /\ r.obj = child[k].obj /\ r.alive = child[k].alive /\ r.killed = child[k].killed
      /\ r.exit = child[k].exit /\ r.late = child[k].late /\ r.inbox = child[k].inbox
      /\ r.got = child[k].got
  BY <1>1 DEF Child
<1> HIDE DEF r
<1> QED
  BY <1>2, <1>3, <1>4, <1>5 DEF Becomes

\* The transport has handled a frame.
LEMMA HandledEffect ==
  ASSUME child \in Seq(Child), NEW k \in DOMAIN child, child[k].pipe # <<>>, NEW c \in Calls,
         NEW stream \in [total : Nat, nextSeq : Nat], NEW settled \in BOOLEAN,
         Handled(k, c, stream, settled)
  PROVE  \E r : /\ Becomes(k, r, {"callbacks", "pipe", "streams"})
                /\ settled => r.callbacks = child[k].callbacks \ {c}
                /\ ~settled => r.callbacks = child[k].callbacks
                /\ r.pipe = Tail(child[k].pipe)
                /\ r.streams = [child[k].streams EXCEPT ![c] = stream]
<1> DEFINE r == [child[k] EXCEPT !.pipe = Tail(@), !.streams[c] = stream,
                                 !.callbacks = IF settled THEN @ \ {c} ELSE @]
<1>1. child[k] \in Child
  OBVIOUS
<1>2. Tail(child[k].pipe) \in Seq(Frame)
  BY <1>1 DEF Child
<1>3. r \in Child
  BY <1>1, <1>2 DEF Child
<1>4. child' = [child EXCEPT ![k] = r]
  BY DEF Handled
<1>5. /\ settled => r.callbacks = child[k].callbacks \ {c}
      /\ ~settled => r.callbacks = child[k].callbacks
      /\ r.pipe = Tail(child[k].pipe)
      /\ r.streams = [child[k].streams EXCEPT ![c] = stream]
  BY <1>1 DEF Child
<1>6. /\ r.obj = child[k].obj /\ r.alive = child[k].alive /\ r.killed = child[k].killed
      /\ r.exit = child[k].exit /\ r.late = child[k].late /\ r.inbox = child[k].inbox
      /\ r.got = child[k].got /\ r.reading = child[k].reading
  BY <1>1 DEF Child
<1> HIDE DEF r
<1> QED
  BY <1>3, <1>4, <1>5, <1>6 DEF Becomes

\* What a child does, what its exit starts, and a call that it no longer takes.
LEMMA ChildEffects ==
  ASSUME child \in Seq(Child), NEW k \in DOMAIN child
  PROVE  /\ \A c \in Calls : Receive(k, c) =>
              \E r : /\ Becomes(k, r, {"inbox", "got"})
                     /\ r.inbox = child[k].inbox \ {c} /\ r.got = child[k].got \cup {c}
         /\ \A f \in Frame : Write(k, f) =>
              \E r : Becomes(k, r, {"pipe"}) /\ r.pipe = Append(child[k].pipe, f)
         /\ ChildDies(k) =>
              \E r : Becomes(k, r, {"alive", "inbox"}) /\ r.alive = FALSE /\ r.inbox = {}
         /\ \A x \in ExitPcs : child' = [child EXCEPT ![k].exit = x] =>
              \E r : Becomes(k, r, {"exit"}) /\ r.exit = x
         /\ \A c \in Calls : child' = [child EXCEPT ![k].callbacks = @ \cup {c}] =>
              \E r : Becomes(k, r, {"callbacks"}) /\ r.callbacks = child[k].callbacks \cup {c}
<1>0. child[k] \in Child /\ \A f \in Frame : Append(child[k].pipe, f) \in Seq(Frame)
  <2>1. child[k] \in Child
    OBVIOUS
  <2>2. child[k].pipe \in Seq(Frame)
    BY <2>1 DEF Child
  <2> QED
    BY <2>1, <2>2
<1>1. ASSUME NEW c \in Calls, Receive(k, c)
      PROVE  \E r : /\ Becomes(k, r, {"inbox", "got"})
                    /\ r.inbox = child[k].inbox \ {c} /\ r.got = child[k].got \cup {c}
  <2> DEFINE r == [child[k] EXCEPT !.inbox = @ \ {c}, !.got = @ \cup {c}]
  <2>1. Becomes(k, r, {"inbox", "got"})
    BY <1>0, <1>1 DEF Becomes, Receive, Child
  <2>2. r.inbox = child[k].inbox \ {c} /\ r.got = child[k].got \cup {c}
    BY <1>0 DEF Child
  <2> HIDE DEF r
  <2> QED
    BY <2>1, <2>2
<1>2. ASSUME NEW f \in Frame, Write(k, f)
      PROVE  \E r : Becomes(k, r, {"pipe"}) /\ r.pipe = Append(child[k].pipe, f)
  <2> DEFINE r == [child[k] EXCEPT !.pipe = Append(@, f)]
  <2>1. Becomes(k, r, {"pipe"})
    BY <1>0, <1>2 DEF Becomes, Write, Child
  <2>2. r.pipe = Append(child[k].pipe, f)
    BY <1>0 DEF Child
  <2> HIDE DEF r
  <2> QED
    BY <2>1, <2>2
<1>3. ASSUME ChildDies(k)
      PROVE  \E r : Becomes(k, r, {"alive", "inbox"}) /\ r.alive = FALSE /\ r.inbox = {}
  <2> DEFINE r == [child[k] EXCEPT !.alive = FALSE, !.inbox = {}]
  <2>1. Becomes(k, r, {"alive", "inbox"})
    BY <1>0, <1>3 DEF Becomes, ChildDies, Child
  <2>2. r.alive = FALSE /\ r.inbox = {}
    BY <1>0 DEF Child
  <2> HIDE DEF r
  <2> QED
    BY <2>1, <2>2
<1>4. ASSUME NEW x \in ExitPcs, child' = [child EXCEPT ![k].exit = x]
      PROVE  \E r : Becomes(k, r, {"exit"}) /\ r.exit = x
  <2> DEFINE r == [child[k] EXCEPT !.exit = x]
  <2>1. Becomes(k, r, {"exit"})
    BY <1>0, <1>4 DEF Becomes, Child
  <2>2. r.exit = x
    BY <1>0 DEF Child
  <2> HIDE DEF r
  <2> QED
    BY <2>1, <2>2
<1>5. ASSUME NEW c \in Calls, child' = [child EXCEPT ![k].callbacks = @ \cup {c}]
      PROVE  \E r : Becomes(k, r, {"callbacks"}) /\ r.callbacks = child[k].callbacks \cup {c}
  <2> DEFINE r == [child[k] EXCEPT !.callbacks = @ \cup {c}]
  <2>1. Becomes(k, r, {"callbacks"})
    BY <1>0, <1>5 DEF Becomes, Child
  <2>2. r.callbacks = child[k].callbacks \cup {c}
    BY <1>0 DEF Child
  <2> HIDE DEF r
  <2> QED
    BY <2>1, <2>2
<1> QED
  BY <1>1, <1>2, <1>3, <1>4, <1>5

-----------------------------------------------------------------------------
(***************************************************************************)
(* The inductive invariant.                                                *)
(***************************************************************************)
\* Indices name objects and children that exist.
Refs ==
  /\ registry \in 0 .. Len(obj)
  /\ \A o \in DOMAIN obj : obj[o].child \in 0 .. Len(child)
  /\ \A k \in DOMAIN child : child[k].obj \in DOMAIN obj
  /\ \A c \in Calls :
       /\ call[c].obj \in 0 .. Len(obj) /\ call[c].child \in 0 .. Len(child)
       /\ call[c].pc \in {"have", "waiting"} => call[c].obj # 0

\* An open stream lacks a chunk.
Open(s) == s # NoStream => s.total \in 1 .. MaxTotal /\ s.nextSeq \in 0 .. s.total - 1

Streams == \A k \in DOMAIN child, c \in Calls : Open(child[k].streams[c])

\* A caller that waits has its callback in the transport of its child.
Callbacks ==
  \A c \in Calls : call[c].pc = "waiting" =>
    \E k \in DOMAIN child :
      /\ call[c].child = k /\ c \in child[k].callbacks
      /\ child[k].reading \/ c \in child[k].late

\* The child of an object is its own and the latest it has spawned, and its
\* exit has not been seen; an object that was killed has none.
Owned ==
  \A o \in DOMAIN obj :
    /\ obj[o].killed => obj[o].child = 0
    /\ obj[o].child # 0 =>
         /\ child[obj[o].child].obj = o /\ child[obj[o].child].exit = "none"
         /\ \A j \in DOMAIN child : child[j].obj = o => j <= obj[o].child

\* A child whose exit was seen is dead.
Dead == \A k \in DOMAIN child : child[k].exit # "none" => ~child[k].alive

\* A killed child of the same object, with its exit seen, before child k.
ExitBefore(k) ==
  \E j \in DOMAIN child :
    j < k /\ child[j].obj = child[k].obj /\ child[j].killed /\ child[j].exit # "none"

\* An object gives up its child when it kills it, when it sees its exit, or when
\* it sees the exit of a child it has killed before.
GivenUp ==
  \A k \in DOMAIN child : obj[child[k].obj].child # k =>
    child[k].killed \/ child[k].exit # "none" \/ ExitBefore(k)

\* Since child k, its object has spawned another, or has tried.
Respawned(k) ==
  \/ \E j \in DOMAIN child : k < j /\ child[j].obj = child[k].obj
  \/ \E c \in Calls : call[c].obj = child[k].obj /\ call[c].pc = "failed" /\ call[c].child = 0

\* Until then the object remembers that it has killed the child.
KillKnown ==
  \A k \in DOMAIN child : child[k].killed =>
    \/ obj[child[k].obj].killed /\ child[k].exit \notin {"counting", "disabling"}
    \/ Respawned(k)

\* A call is sent to one child, once; the child writes only for calls it got.
SentOnce ==
  /\ \A c \in Calls : call[c].pc \in {"new", "verifying", "denying", "getting", "have"} =>
       call[c].child = 0
  /\ \A k \in DOMAIN child :
       /\ \A c \in child[k].inbox \cup child[k].got : call[c].child = k
       /\ child[k].inbox \cap child[k].got = {}
       /\ \A i \in DOMAIN child[k].pipe : child[k].pipe[i].call \in child[k].got

\* A call that is answered was executed.
Executed ==
  \A c \in Calls : call[c].pc \in {"reset", "answered"} =>
    \E k \in DOMAIN child : c \in child[k].got

CallInv == Callbacks /\ SentOnce /\ Executed
ProcInv == Owned /\ Dead /\ GivenUp /\ KillKnown
IInv    == Shape /\ Refs /\ Streams /\ CallInv /\ ProcInv

-----------------------------------------------------------------------------
(***************************************************************************)
(* What keeps the parts of the invariant.                                  *)
(***************************************************************************)
\* Objects and children keep their links, kills and exits; exits already seen
\* move on, children may die, and a call that has failed stays failed.
LEMMA ProcKept ==
  ASSUME Shape, Refs, ProcInv,
         DOMAIN obj \subseteq DOMAIN obj',
         \A o \in DOMAIN obj : obj'[o].child = obj[o].child /\ obj'[o].killed = obj[o].killed,
         \A o \in DOMAIN obj' : o \notin DOMAIN obj => obj'[o].child = 0,
         DOMAIN child' = DOMAIN child,
         \A j \in DOMAIN child :
           /\ child'[j].obj = child[j].obj /\ child'[j].killed = child[j].killed
           /\ child'[j].alive => child[j].alive
           /\ child'[j].exit = "none" <=> child[j].exit = "none"
           /\ child'[j].exit \in {"counting", "disabling"} =>
                child[j].exit \in {"counting", "disabling"},
         \A c \in Calls : call[c].pc = "failed" => call'[c] = call[c]
  PROVE  ProcInv'
<1>0. \A j \in DOMAIN child : child[j].obj \in DOMAIN obj
  BY DEF Refs
<1>1. Owned'
  <2>1. \A o \in DOMAIN obj : obj[o].child # 0 => obj[o].child \in DOMAIN child
    BY DEF Refs, Shape
  <2> QED
    BY <2>1 DEF Owned, ProcInv
<1>2. Dead'
  BY DEF Dead, ProcInv
<1>3. \A k \in DOMAIN child : ExitBefore(k) => ExitBefore(k)'
  BY DEF ExitBefore
<1>4. GivenUp'
  BY <1>0, <1>3 DEF GivenUp, ProcInv
<1>5. \A k \in DOMAIN child : Respawned(k) => Respawned(k)'
  BY DEF Respawned
<1>6. KillKnown'
  BY <1>0, <1>5 DEF KillKnown, ProcInv
<1> QED
  BY <1>1, <1>2, <1>4, <1>6 DEF ProcInv

\* Call c becomes q, short of waiting for an answer; children stay as they are,
\* and objects keep their child.
MovesOn(c, q) ==
  /\ q \in CallRec /\ call' = [call EXCEPT ![c] = q]
  /\ UNCHANGED child /\ Shape' /\ DOMAIN obj \subseteq DOMAIN obj' /\ Len(obj) <= Len(obj')
  /\ \A o \in DOMAIN obj : obj'[o].child = obj[o].child /\ obj'[o].killed = obj[o].killed
  /\ \A o \in DOMAIN obj' : o \notin DOMAIN obj => obj'[o].child = 0
  /\ registry' \in 0 .. Len(obj') /\ q.obj \in 0 .. Len(obj')
  /\ q.child = call[c].child /\ call[c].pc # "failed"
  /\ q.pc \notin {"waiting", "new"}
  /\ q.pc \in {"verifying", "denying", "getting", "have"} => q.child = 0
  /\ q.pc = "have" => q.obj # 0
  /\ q.pc \in {"reset", "answered"} => call[c].pc \in {"reset", "answered"}

\* Such a step of a call keeps the invariant.
LEMMA CallMoves ==
  ASSUME IInv, NEW c \in Calls, NEW q, MovesOn(c, q)
  PROVE  IInv'
<1> USE DEF MovesOn
<1>0. \A d \in Calls : call'[d] = IF d = c THEN q ELSE call[d]
  BY DEF IInv, Shape
<1>1. Refs'
  <2>1. /\ Len(obj) \in Nat /\ Len(obj') \in Nat /\ Len(child) \in Nat
        /\ Len(child') = Len(child)
    BY DEF IInv, Shape
  <2>2. \A o \in DOMAIN obj' : obj'[o].child \in 0 .. Len(child')
    BY <2>1 DEF IInv, Refs
  <2>3. \A k \in DOMAIN child' : child'[k].obj \in DOMAIN obj'
    BY DEF IInv, Refs
  <2>4. \A d \in Calls :
          /\ call'[d].obj \in 0 .. Len(obj') /\ call'[d].child \in 0 .. Len(child')
          /\ call'[d].pc \in {"have", "waiting"} => call'[d].obj # 0
    BY <1>0, <2>1 DEF IInv, Refs
  <2> QED
    BY <2>2, <2>3, <2>4 DEF Refs
<1>2. Streams'
  BY DEF IInv, Streams
<1>3. Callbacks'
  BY <1>0 DEF IInv, CallInv, Callbacks
<1>4. SentOnce'
  <2>1. \A k \in DOMAIN child : child[k].inbox \cup child[k].got \subseteq Calls
    BY ChildTypes DEF IInv, Shape
  <2>2. \A d \in Calls : call'[d].child = call[d].child
    BY <1>0
  <2>3. \A d \in Calls : call'[d].pc \in {"new", "verifying", "denying", "getting", "have"} =>
          call'[d].child = 0
    BY <1>0 DEF IInv, CallInv, SentOnce
  <2> QED
    BY <2>1, <2>2, <2>3 DEF IInv, CallInv, SentOnce
<1>5. Executed'
  BY <1>0 DEF IInv, CallInv, Executed
<1>6. ProcInv'
  BY <1>0, ProcKept DEF IInv
<1> QED
  BY <1>1, <1>2, <1>3, <1>4, <1>5, <1>6 DEF IInv, CallInv

\* Child k becomes r: it and its transport move on, and callers are settled.
Moves(k, r) ==
  /\ \E F : Becomes(k, r, F)
  /\ UNCHANGED <<registry, obj>> /\ call' \in [Calls -> CallRec]
  /\ row' \in [failures : Nat, enabled : BOOLEAN] /\ UNCHANGED package
  /\ frames' \in 0 .. MaxFrames
  /\ r.obj = child[k].obj /\ r.killed = child[k].killed /\ (r.alive => child[k].alive)
  /\ r.exit = "none" <=> child[k].exit = "none"
  /\ r.exit \in {"counting", "disabling"} => child[k].exit \in {"counting", "disabling"}
  /\ r.inbox \cup r.got \subseteq child[k].inbox \cup child[k].got
  /\ child[k].got \subseteq r.got /\ r.inbox \cap r.got = {}
  /\ \A i \in DOMAIN r.pipe : r.pipe[i].call \in r.got
  /\ \A c \in Calls : Open(r.streams[c])
  /\ child[k].late \subseteq r.late
  /\ \A c \in Calls :
       /\ call'[c].obj = call[c].obj /\ call'[c].child = call[c].child
       /\ \/ call'[c] = call[c]
          \/ call[c].pc = "waiting" /\ call'[c].pc = "failed"
          \/ call[c].pc = "waiting" /\ call'[c].pc = "reset" /\ c \in r.got
       /\ call'[c].pc = "waiting" /\ c \in child[k].callbacks =>
            c \in r.callbacks /\ (child[k].reading => r.reading)

\* Such a step of a child keeps the invariant.
LEMMA ChildMoves ==
  ASSUME IInv, NEW k \in DOMAIN child, NEW r, Moves(k, r)
  PROVE  IInv'
<1> USE DEF Moves
<1>0. /\ child \in Seq(Child) /\ Len(child) \in Nat /\ DOMAIN child = 1..Len(child)
      /\ child' \in Seq(Child) /\ Len(child') = Len(child) /\ DOMAIN child' = DOMAIN child
      /\ child'[k] = r
      /\ \A j \in DOMAIN child : j # k => child'[j] = child[j]
  BY BecomesOthers DEF IInv, Shape
<1>1. Shape'
  BY <1>0 DEF IInv, Shape
<1>2. Refs'
  <2>1. \A j \in DOMAIN child' : child'[j].obj \in DOMAIN obj
    <3>1. \A j \in DOMAIN child : child[j].obj \in DOMAIN obj
      BY DEF IInv, Refs
    <3> QED
      BY <1>0, <3>1
  <2>2. ASSUME NEW c \in Calls
        PROVE  /\ call'[c].obj \in 0 .. Len(obj) /\ call'[c].child \in 0 .. Len(child')
               /\ call'[c].pc \in {"have", "waiting"} => call'[c].obj # 0
    <3>1. /\ call[c].obj \in 0 .. Len(obj) /\ call[c].child \in 0 .. Len(child)
          /\ call[c].pc \in {"have", "waiting"} => call[c].obj # 0
      BY DEF IInv, Refs
    <3>2. call'[c].pc \in {"have", "waiting"} => call[c].pc \in {"have", "waiting"}
      OBVIOUS
    <3> QED
      BY <1>0, <3>1, <3>2
  <2> QED
    BY <1>0, <2>1, <2>2 DEF IInv, Refs
<1>3. Streams'
  BY <1>0 DEF IInv, Streams
<1>4. Callbacks'
  <2> SUFFICES ASSUME NEW c \in Calls, call'[c].pc = "waiting"
               PROVE  \E j \in DOMAIN child' :
                        /\ call'[c].child = j /\ c \in child'[j].callbacks
                        /\ child'[j].reading \/ c \in child'[j].late
    BY DEF Callbacks
  <2>1. PICK j \in DOMAIN child :
          /\ call[c].child = j /\ c \in child[j].callbacks
          /\ child[j].reading \/ c \in child[j].late
    BY DEF IInv, CallInv, Callbacks
  <2> QED
    BY <1>0, <2>1
<1>5. SentOnce'
  <2>1. \A j \in DOMAIN child : child[j].inbox \cup child[j].got \subseteq Calls
    BY ChildTypes DEF IInv, Shape
  <2>2. \A c \in Calls : call'[c].child = call[c].child
    OBVIOUS
  <2>3. \A c \in Calls : call'[c].pc \in {"new", "verifying", "denying", "getting", "have"} =>
          call'[c].child = 0
    BY DEF IInv, CallInv, SentOnce
  <2>4. \A c \in r.inbox \cup r.got : call'[c].child = k
    BY <2>1, <2>2 DEF IInv, CallInv, SentOnce
  <2>5. \A j \in DOMAIN child' :
          /\ \A c \in child'[j].inbox \cup child'[j].got : call'[c].child = j
          /\ child'[j].inbox \cap child'[j].got = {}
          /\ \A i \in DOMAIN child'[j].pipe : child'[j].pipe[i].call \in child'[j].got
    <3> SUFFICES ASSUME NEW j \in DOMAIN child
                 PROVE  /\ \A c \in child'[j].inbox \cup child'[j].got : call'[c].child = j
                        /\ child'[j].inbox \cap child'[j].got = {}
                        /\ \A i \in DOMAIN child'[j].pipe :
                             child'[j].pipe[i].call \in child'[j].got
      BY <1>0
    <3>1. CASE j = k
      BY <1>0, <2>4, <3>1
    <3>2. CASE j # k
      <4>1. child'[j] = child[j]
        BY <1>0, <3>2
      <4> QED
        BY <2>1, <2>2, <4>1 DEF IInv, CallInv, SentOnce
    <3> QED
      BY <3>1, <3>2
  <2> QED
    BY <2>3, <2>5 DEF SentOnce
<1>6. Executed'
  <2> SUFFICES ASSUME NEW c \in Calls, call'[c].pc \in {"reset", "answered"}
               PROVE  \E j \in DOMAIN child' : c \in child'[j].got
    BY DEF Executed
  <2>1. CASE call'[c] = call[c]
    <3>1. PICK j \in DOMAIN child : c \in child[j].got
      BY <2>1 DEF IInv, CallInv, Executed
    <3>2. c \in child'[j].got
      BY <1>0, <3>1
    <3> QED
      BY <1>0, <3>1, <3>2
  <2>2. CASE c \in r.got
    BY <1>0, <2>2
  <2> QED
    BY <2>1, <2>2
<1>7. ProcInv'
  <2>1. \A j \in DOMAIN child :
           /\ child'[j].obj = child[j].obj /\ child'[j].killed = child[j].killed
           /\ child'[j].alive => child[j].alive
           /\ child'[j].exit = "none" <=> child[j].exit = "none"
           /\ child'[j].exit \in {"counting", "disabling"} =>
                child[j].exit \in {"counting", "disabling"}
    BY <1>0
  <2>2. \A c \in Calls : call[c].pc = "failed" => call'[c] = call[c]
    OBVIOUS
  <2> QED
    BY <1>0, <2>1, <2>2, ProcKept DEF IInv
<1> QED
  BY <1>1, <1>2, <1>3, <1>4, <1>5, <1>6, <1>7 DEF IInv, CallInv

-----------------------------------------------------------------------------
(***************************************************************************)
(* The registry, before a call is sent, and after it was answered.          *)
(***************************************************************************)
LEMMA GetSteps ==
  ASSUME IInv, NEW c \in Calls,
         \/ GetRunning(c) \/ GetBegins(c) \/ GetVerified(c) \/ GetDenied(c) \/ GetForgets(c)
         \/ GetThrows(c) \/ GetMakes(c) \/ ResetFailures(c)
  PROVE  IInv'
<1>0. /\ call \in [Calls -> CallRec] /\ call[c] \in CallRec /\ registry \in Nat
      /\ row \in [failures : Nat, enabled : BOOLEAN]
      /\ package \in [known : BOOLEAN, verified : BOOLEAN]
      /\ obj \in Seq(Obj) /\ Len(obj) \in Nat /\ DOMAIN obj = 1 .. Len(obj)
      /\ registry \in 0 .. Len(obj) /\ call[c].obj \in 0 .. Len(obj)
      /\ call[c].pc \in {"new", "verifying", "denying", "getting", "have"} => call[c].child = 0
      /\ row.failures \in Nat
  BY DEF IInv, Shape, Refs, CallInv, SentOnce
<1>2. ASSUME NEW x \in CallPcs
      PROVE  LET q == [call[c] EXCEPT !.pc = x]
             IN  /\ q \in CallRec /\ q.pc = x /\ q.obj = call[c].obj /\ q.child = call[c].child
                 /\ [call EXCEPT ![c].pc = x] = [call EXCEPT ![c] = q]
  BY <1>0 DEF CallRec
<1>3. CASE GetRunning(c)
  <2> DEFINE q == [call[c] EXCEPT !.pc = "have", !.obj = registry]
  <2>1. /\ q \in CallRec /\ q.pc = "have" /\ q.obj = registry /\ q.child = call[c].child
        /\ call' = [call EXCEPT ![c] = q]
    BY <1>0, <1>3 DEF GetRunning, CallRec, CallPcs
  <2>2. registry # 0 /\ call[c].pc = "new"
    BY <1>3 DEF GetRunning, isRunning
  <2>3. Shape' /\ UNCHANGED <<registry, obj, child>>
    BY <1>0, <1>3, <2>1 DEF IInv, Shape, GetRunning
  <2> HIDE DEF q
  <2>9. MovesOn(c, q)
    BY <1>0, <2>1, <2>2, <2>3 DEF MovesOn
  <2> QED
    BY <2>9, CallMoves
<1>4. CASE GetBegins(c)
  <2>1. PICK x \in {"failed", "getting", "verifying"} : call' = [call EXCEPT ![c].pc = x]
    BY <1>4 DEF GetBegins
  <2> DEFINE q == [call[c] EXCEPT !.pc = x]
  <2>2. /\ q \in CallRec /\ q.pc = x /\ q.obj = call[c].obj /\ q.child = call[c].child
        /\ call' = [call EXCEPT ![c] = q]
    BY <1>2, <2>1 DEF CallPcs
  <2>3. call[c].pc = "new"
    BY <1>4 DEF GetBegins
  <2>4. Shape' /\ UNCHANGED <<registry, obj, child>>
    BY ZenonT(60), <1>0, <1>4, <2>2 DEF IInv, Shape, GetBegins
  <2> HIDE DEF q
  <2>9. MovesOn(c, q)
    BY <1>0, <2>2, <2>3, <2>4 DEF MovesOn
  <2> QED
    BY <2>9, CallMoves
<1>5. CASE GetVerified(c)
  <2> DEFINE q == [call[c] EXCEPT !.pc = "getting"]
  <2>1. /\ q \in CallRec /\ q.pc = "getting" /\ q.obj = call[c].obj /\ q.child = call[c].child
        /\ call' = [call EXCEPT ![c] = q]
    BY <1>2, <1>5 DEF GetVerified, CallPcs
  <2>2. call[c].pc = "verifying"
    BY <1>5 DEF GetVerified
  <2>3. Shape' /\ UNCHANGED <<registry, obj, child>>
    BY <1>0, <1>5, <2>1 DEF IInv, Shape, GetVerified
  <2> HIDE DEF q
  <2>9. MovesOn(c, q)
    BY <1>0, <2>1, <2>2, <2>3 DEF MovesOn
  <2> QED
    BY <2>9, CallMoves
<1>6. CASE GetDenied(c)
  <2> DEFINE q == [call[c] EXCEPT !.pc = "denying"]
  <2>1. /\ q \in CallRec /\ q.pc = "denying" /\ q.obj = call[c].obj /\ q.child = call[c].child
        /\ call' = [call EXCEPT ![c] = q]
    BY <1>2, <1>6 DEF GetDenied, CallPcs
  <2>2. call[c].pc = "verifying"
    BY <1>6 DEF GetDenied
  <2>3. Shape' /\ UNCHANGED <<registry, obj, child>>
    BY <1>0, <1>6, <2>1 DEF IInv, Shape, GetDenied
  <2> HIDE DEF q
  <2>9. MovesOn(c, q)
    BY <1>0, <2>1, <2>2, <2>3 DEF MovesOn
  <2> QED
    BY <2>9, CallMoves
<1>9. CASE GetForgets(c) \/ GetThrows(c)
  <2> DEFINE q == [call[c] EXCEPT !.pc = "failed"]
  <2>1. /\ q \in CallRec /\ q.pc = "failed" /\ q.obj = call[c].obj /\ q.child = call[c].child
        /\ call' = [call EXCEPT ![c] = q]
    BY <1>2, <1>9 DEF GetForgets, GetThrows, CallPcs
  <2>2. call[c].pc \in {"verifying", "denying", "getting"}
    BY <1>9 DEF GetForgets, GetThrows
  <2>3. Shape' /\ UNCHANGED <<obj, child>> /\ registry' \in {0, registry}
    <3>1. CASE GetForgets(c)
      BY <1>0, <2>1, <3>1 DEF IInv, Shape, GetForgets
    <3>2. CASE GetThrows(c)
      BY <1>0, <2>1, <3>2 DEF IInv, Shape, GetThrows
    <3> QED
      BY <1>9, <3>1, <3>2
  <2> HIDE DEF q
  <2>9. MovesOn(c, q)
    BY <1>0, <2>1, <2>2, <2>3 DEF MovesOn
  <2> QED
    BY <2>9, CallMoves
<1>7. CASE GetMakes(c)
  <2> DEFINE q == [call[c] EXCEPT !.pc = "have", !.obj = Len(obj) + 1]
  <2>1. /\ q \in CallRec /\ q.pc = "have" /\ q.obj = Len(obj) + 1 /\ q.child = call[c].child
        /\ call' = [call EXCEPT ![c] = q]
    BY <1>0, <1>7 DEF GetMakes, CallRec, CallPcs
  <2>2. call[c].pc = "getting"
    BY <1>7 DEF GetMakes
  <2>3. NewObj \in Obj /\ NewObj.child = 0
    BY DEF NewObj, Obj
  <2>4. /\ obj' \in Seq(Obj) /\ Len(obj') = Len(obj) + 1 /\ DOMAIN obj' = 1 .. Len(obj) + 1
        /\ \A o \in DOMAIN obj : obj'[o] = obj[o]
        /\ obj'[Len(obj) + 1] = NewObj
    BY <1>0, <1>7, <2>3 DEF GetMakes
  <2>5. Shape' /\ UNCHANGED child /\ registry' = Len(obj) + 1
    BY <1>0, <1>7, <2>1, <2>4 DEF IInv, Shape, GetMakes
  <2>6. \A o \in DOMAIN obj' : o \notin DOMAIN obj => obj'[o].child = 0
    BY <1>0, <2>3, <2>4
  <2> HIDE DEF q
  <2>9. MovesOn(c, q)
    BY <1>0, <2>1, <2>2, <2>4, <2>5, <2>6 DEF MovesOn
  <2> QED
    BY <2>9, CallMoves
<1>8. CASE ResetFailures(c)
  <2> DEFINE q == [call[c] EXCEPT !.pc = "answered"]
  <2>1. /\ q \in CallRec /\ q.pc = "answered" /\ q.obj = call[c].obj /\ q.child = call[c].child
        /\ call' = [call EXCEPT ![c] = q]
    BY <1>2, <1>8 DEF ResetFailures, CallPcs
  <2>2. call[c].pc = "reset"
    BY <1>8 DEF ResetFailures
  <2>3. Shape' /\ UNCHANGED <<registry, obj, child>>
    BY <1>0, <1>8, <2>1 DEF IInv, Shape, ResetFailures
  <2> HIDE DEF q
  <2>9. MovesOn(c, q)
    BY <1>0, <2>1, <2>2, <2>3 DEF MovesOn
  <2> QED
    BY <2>9, CallMoves
<1> QED
  BY <1>3, <1>4, <1>5, <1>6, <1>7, <1>8, <1>9

-----------------------------------------------------------------------------
(***************************************************************************)
(* A child, its pipe and its transport.                                    *)
(***************************************************************************)
\* What a child that exists looks like.
LEMMA ChildFacts ==
  ASSUME IInv, NEW k \in DOMAIN child
  PROVE  /\ child \in Seq(Child) /\ child[k].inbox \cap child[k].got = {}
         /\ child[k].pipe \in Seq(Frame) /\ child[k].got \subseteq Calls
         /\ \A i \in DOMAIN child[k].pipe : child[k].pipe[i].call \in child[k].got
         /\ child[k].streams \in [Calls -> [total : Nat, nextSeq : Nat]]
         /\ \A c \in Calls : Open(child[k].streams[c])
         /\ call \in [Calls -> CallRec]
         /\ row \in [failures : Nat, enabled : BOOLEAN] /\ frames \in 0 .. MaxFrames
  BY ChildTypes DEF IInv, Shape, CallInv, SentOnce, Streams

\* What a child does by itself.
LEMMA ChildSteps ==
  ASSUME IInv, NEW k \in DOMAIN child,
         \/ \E c \in Calls : Receive(k, c)
         \/ \E f \in Frame : Write(k, f)
         \/ ChildDies(k)
  PROVE  IInv'
<1> USE ExtensionCallsAssumption
<1>0. /\ child \in Seq(Child) /\ child[k].inbox \cap child[k].got = {}
      /\ child[k].pipe \in Seq(Frame)
      /\ \A i \in DOMAIN child[k].pipe : child[k].pipe[i].call \in child[k].got
      /\ \A c \in Calls : Open(child[k].streams[c])
      /\ call \in [Calls -> CallRec]
      /\ row \in [failures : Nat, enabled : BOOLEAN] /\ frames \in 0 .. MaxFrames
  BY ChildFacts
<1>1. ASSUME NEW c \in Calls, Receive(k, c) PROVE IInv'
  <2>1. PICK r : /\ Becomes(k, r, {"inbox", "got"})
                 /\ r.inbox = child[k].inbox \ {c} /\ r.got = child[k].got \cup {c}
    BY <1>0, <1>1, ChildEffects
  <2>2. Moves(k, r)
    BY <1>0, <1>1, <2>1 DEF Moves, Becomes, Receive
  <2> QED
    BY <2>2, ChildMoves
<1>2. ASSUME NEW f \in Frame, Write(k, f) PROVE IInv'
  <2>1. PICK r : Becomes(k, r, {"pipe"}) /\ r.pipe = Append(child[k].pipe, f)
    BY <1>0, <1>2, ChildEffects
  <2>2. \A i \in DOMAIN r.pipe : r.pipe[i].call \in child[k].got
    BY <1>0, <1>2, <2>1 DEF Write
  <2>3. frames' \in 0 .. MaxFrames
    BY <1>0, <1>2 DEF Write
  <2>4. Moves(k, r)
    BY <1>0, <1>2, <2>1, <2>2, <2>3 DEF Moves, Becomes, Write
  <2> QED
    BY <2>4, ChildMoves
<1>3. CASE ChildDies(k)
  <2>1. PICK r : Becomes(k, r, {"alive", "inbox"}) /\ r.alive = FALSE /\ r.inbox = {}
    BY <1>0, <1>3, ChildEffects
  <2>2. Moves(k, r)
    BY <1>0, <1>3, <2>1 DEF Moves, Becomes, ChildDies
  <2> QED
    BY <2>2, ChildMoves
<1> QED
  BY <1>1, <1>2, <1>3

\* The failure that is counted after an exit, and the extension it disables.
LEMMA CountSteps ==
  ASSUME IInv, NEW k \in DOMAIN child, CountFailure(k) \/ DisableExtension(k)
  PROVE  IInv'
<1>0. /\ child \in Seq(Child) /\ child[k].inbox \cap child[k].got = {}
      /\ \A i \in DOMAIN child[k].pipe : child[k].pipe[i].call \in child[k].got
      /\ \A c \in Calls : Open(child[k].streams[c])
      /\ call \in [Calls -> CallRec]
      /\ row \in [failures : Nat, enabled : BOOLEAN] /\ frames \in 0 .. MaxFrames
  BY ChildFacts
<1>1. row' \in [failures : Nat, enabled : BOOLEAN]
  <2>1. row.failures + 1 \in Nat
    BY <1>0
  <2> QED
    BY <1>0, <2>1 DEF CountFailure, DisableExtension
<1>2. PICK x \in {"disabling", "done"} : child' = [child EXCEPT ![k].exit = x]
  BY DEF CountFailure, DisableExtension
<1>3. PICK r : Becomes(k, r, {"exit"}) /\ r.exit = x
  <2>1. x \in ExitPcs
    BY DEF ExitPcs
  <2> QED
    BY ZenonT(60), <1>0, <1>2, <2>1, ChildEffects
<1>4. child[k].exit \in {"counting", "disabling"}
  BY DEF CountFailure, DisableExtension
<1>5. Moves(k, r)
  BY <1>0, <1>1, <1>3, <1>4 DEF Moves, Becomes, CountFailure, DisableExtension
<1> QED
  BY <1>5, ChildMoves

\* A frame is handled: the stream is replaced and, if the call is settled by it,
\* its callback is gone.
LEMMA FrameHandled ==
  ASSUME IInv, NEW k \in DOMAIN child, child[k].pipe # <<>>, NEW c \in Calls,
         NEW stream \in [total : Nat, nextSeq : Nat], NEW settled \in BOOLEAN,
         c = Head(child[k].pipe).call, Open(stream),
         Handled(k, c, stream, settled), UNCHANGED <<registry, obj, row, package, frames>>,
         \/ settled /\ (Reject({c} \cap child[k].callbacks) \/ Resolve(k, c))
         \/ ~settled /\ UNCHANGED call
  PROVE  IInv'
<1>0. /\ child \in Seq(Child) /\ child[k].inbox \cap child[k].got = {}
      /\ child[k].pipe \in Seq(Frame)
      /\ \A i \in DOMAIN child[k].pipe : child[k].pipe[i].call \in child[k].got
      /\ child[k].streams \in [Calls -> [total : Nat, nextSeq : Nat]]
      /\ \A d \in Calls : Open(child[k].streams[d])
      /\ call \in [Calls -> CallRec]
      /\ row \in [failures : Nat, enabled : BOOLEAN] /\ frames \in 0 .. MaxFrames
  BY ChildFacts
<1>1. PICK r :
        /\ Becomes(k, r, {"callbacks", "pipe", "streams"})
        /\ settled => r.callbacks = child[k].callbacks \ {c}
        /\ ~settled => r.callbacks = child[k].callbacks
        /\ r.pipe = Tail(child[k].pipe)
        /\ r.streams = [child[k].streams EXCEPT ![c] = stream]
  <2>1. child \in Seq(Child)
    BY <1>0
  <2> QED
    BY <2>1, HandledEffect
<1>2. c \in child[k].got /\ \A i \in DOMAIN r.pipe : r.pipe[i].call \in child[k].got
  BY <1>0, <1>1
<1>3. \A d \in Calls : Open(r.streams[d])
  BY <1>0, <1>1
<1>4. /\ call' \in [Calls -> CallRec]
      /\ \A d \in Calls :
           /\ call'[d].obj = call[d].obj /\ call'[d].child = call[d].child
           /\ \/ call'[d] = call[d]
              \/ call[d].pc = "waiting" /\ call'[d].pc = "failed"
              \/ call[d].pc = "waiting" /\ call'[d].pc = "reset" /\ d = c
           /\ call'[d].pc = "waiting" /\ d \in child[k].callbacks => d # c \/ ~settled
  <2>1. CASE settled /\ Reject({c} \cap child[k].callbacks)
    BY <1>0, <2>1, RejectEffect
  <2>2. CASE settled /\ Resolve(k, c)
    BY <1>0, <2>2, ResolveEffect
  <2>3. CASE ~settled /\ UNCHANGED call
    BY <1>0, <2>3
  <2> QED
    BY <2>1, <2>2, <2>3
<1>5. Moves(k, r)
  BY ZenonT(60), <1>0, <1>1, <1>2, <1>3, <1>4 DEF Moves, Becomes
<1> QED
  BY <1>5, ChildMoves

\* The transport: a line, an announcement, a chunk, a cancellation, the end.
LEMMA TransportSteps ==
  ASSUME IInv, NEW k \in DOMAIN child, TransportStep(k)
  PROVE  IInv'
<1> USE ExtensionCallsAssumption
<1> DEFINE f == Head(child[k].pipe)
           s == child[k].streams[f.call]
<1>0. /\ child \in Seq(Child) /\ child[k].inbox \cap child[k].got = {}
      /\ child[k].pipe \in Seq(Frame)
      /\ child[k].streams \in [Calls -> [total : Nat, nextSeq : Nat]]
      /\ \A c \in Calls : Open(child[k].streams[c])
      /\ call \in [Calls -> CallRec]
      /\ row \in [failures : Nat, enabled : BOOLEAN] /\ frames \in 0 .. MaxFrames
  BY ChildFacts
<1>1. ASSUME child[k].pipe # <<>>
      PROVE  /\ f \in Frame /\ f.call \in Calls /\ f.n \in 0 .. MaxTotal
             /\ s \in [total : Nat, nextSeq : Nat] /\ Open(s)
             /\ s.total \in Nat /\ s.nextSeq \in Nat
  <2>1. f \in Frame
    BY <1>0, <1>1
  <2>2. f.call \in Calls /\ f.n \in 0 .. MaxTotal
    BY <2>1 DEF Frame
  <2>3. s \in [total : Nat, nextSeq : Nat] /\ Open(s)
    BY <1>0, <2>2
  <2> QED
    BY <2>1, <2>2, <2>3
<1>2. NoStream \in [total : Nat, nextSeq : Nat] /\ Open(NoStream)
  BY DEF NoStream, Open
<1> HIDE DEF f, s
<1>3. CASE HandleLine(k)
  <2>1. /\ child[k].pipe # <<>> /\ Handled(k, f.call, s, TRUE) /\ Resolve(k, f.call)
        /\ UNCHANGED <<registry, obj, row, package, frames>>
    BY <1>3 DEF HandleLine, f, s
  <2> QED
    BY <1>1, <2>1, FrameHandled DEF f
<1>4. CASE HandleAnnounce(k)
  <2>1. child[k].pipe # <<>> /\ UNCHANGED <<registry, obj, row, package, frames>>
    BY <1>4 DEF HandleAnnounce
  <2>0. \/ /\ f.n = 0 /\ Handled(k, f.call, s, TRUE)
           /\ Reject({f.call} \cap child[k].callbacks)
        \/ f.n > 0 /\ Handled(k, f.call, [total |-> f.n, nextSeq |-> 0], FALSE) /\ UNCHANGED call
    BY <1>4 DEF HandleAnnounce, f, s
  <2>2. CASE Handled(k, f.call, s, TRUE) /\ Reject({f.call} \cap child[k].callbacks)
    BY <1>1, <2>1, <2>2, FrameHandled DEF f
  <2>3. CASE f.n > 0 /\ Handled(k, f.call, [total |-> f.n, nextSeq |-> 0], FALSE) /\ UNCHANGED call
    <3> DEFINE t == [total |-> f.n, nextSeq |-> 0]
    <3>1. Handled(k, f.call, t, FALSE) /\ UNCHANGED call
      BY <2>3
    <3>2. t \in [total : Nat, nextSeq : Nat] /\ Open(t)
      BY <1>1, <2>1, <2>3 DEF Open
    <3> HIDE DEF t
    <3> QED
      BY <1>1, <2>1, <3>1, <3>2, FrameHandled DEF f
  <2> QED
    BY <2>0, <2>2, <2>3
<1>5. CASE HandleChunk(k)
  <2>1. child[k].pipe # <<>> /\ UNCHANGED <<registry, obj, row, package, frames>>
    BY <1>5 DEF HandleChunk
  <2>2. CASE Handled(k, f.call, s, FALSE) /\ UNCHANGED call
    BY <1>1, <2>1, <2>2, FrameHandled DEF f
  <2>3. CASE Handled(k, f.call, NoStream, TRUE) /\ Reject({f.call} \cap child[k].callbacks)
    BY <1>1, <1>2, <2>1, <2>3, FrameHandled DEF f
  <2>4. CASE Handled(k, f.call, NoStream, TRUE) /\ Resolve(k, f.call)
    BY <1>1, <1>2, <2>1, <2>4, FrameHandled DEF f
  <2>5. CASE /\ s # NoStream /\ f.n = s.nextSeq /\ f.n + 1 < s.total
             /\ Handled(k, f.call, [s EXCEPT !.nextSeq = @ + 1], FALSE) /\ UNCHANGED call
    <3> DEFINE t == [s EXCEPT !.nextSeq = @ + 1]
    <3>1. /\ t \in [total : Nat, nextSeq : Nat] /\ t.total = s.total
          /\ t.nextSeq = s.nextSeq + 1
      BY <1>1, <2>1
    <3>2. Open(t)
      BY <1>1, <2>1, <2>5, <3>1 DEF Open
    <3> HIDE DEF t
    <3>3. Handled(k, f.call, t, FALSE)
      BY <2>5 DEF t
    <3> QED
      BY <1>1, <2>1, <2>5, <3>1, <3>2, <3>3, FrameHandled DEF f
  <2> QED
    BY <1>5, <2>2, <2>3, <2>4, <2>5 DEF HandleChunk, f, s
<1>6. CASE HandleCancel(k)
  <2>1. /\ child[k].pipe # <<>> /\ Handled(k, f.call, NoStream, TRUE)
        /\ Reject({f.call} \cap child[k].callbacks)
        /\ UNCHANGED <<registry, obj, row, package, frames>>
    BY <1>6 DEF HandleCancel, f
  <2> QED
    BY <1>1, <1>2, <2>1, FrameHandled DEF f
<1>7. CASE ReadLoopEnds(k)
  <2>1. StopReading(k)
    BY <1>7 DEF ReadLoopEnds
  <2>2. PICK r : /\ Becomes(k, r, {"reading", "callbacks", "pipe", "streams"})
                 /\ r.reading = FALSE /\ r.callbacks = {} /\ r.pipe = <<>>
                 /\ r.streams = [c \in Calls |-> NoStream]
    BY <1>0, <2>1, StopReadingEffect
  <2>3. /\ call' \in [Calls -> CallRec]
        /\ \A c \in Calls :
             /\ call'[c].obj = call[c].obj /\ call'[c].child = call[c].child
             /\ call'[c] = call[c] \/ (call[c].pc = "waiting" /\ call'[c].pc = "failed")
             /\ ~(call'[c].pc = "waiting" /\ c \in child[k].callbacks)
    <3>1. Reject(child[k].callbacks)
      BY <2>1 DEF StopReading
    <3>2. /\ call' \in [Calls -> CallRec]
          /\ \A c \in Calls :
               /\ call'[c].obj = call[c].obj /\ call'[c].child = call[c].child
               /\ c \in child[k].callbacks /\ call[c].pc = "waiting" => call'[c].pc = "failed"
               /\ ~(c \in child[k].callbacks /\ call[c].pc = "waiting") => call'[c] = call[c]
      BY <1>0, <3>1, RejectEffect
    <3>3. ASSUME NEW c \in Calls
          PROVE  /\ call'[c] = call[c] \/ (call[c].pc = "waiting" /\ call'[c].pc = "failed")
                 /\ ~(call'[c].pc = "waiting" /\ c \in child[k].callbacks)
      <4>1. CASE c \in child[k].callbacks /\ call[c].pc = "waiting"
        BY <3>2, <4>1
      <4>2. CASE ~(c \in child[k].callbacks /\ call[c].pc = "waiting")
        <5>1. call'[c] = call[c]
          BY <3>2, <4>2
        <5> QED
          BY <4>2, <5>1
      <4> QED
        BY <4>1, <4>2
    <3> QED
      BY <3>2, <3>3
  <2>4. DOMAIN r.pipe = {} /\ \A c \in Calls : Open(r.streams[c])
    BY <1>2, <2>2
  <2>5. Moves(k, r)
    BY <1>0, <2>1, <2>2, <2>3, <2>4 DEF Moves, Becomes, StopReading
  <2> QED
    BY <2>5, ChildMoves
<1> QED
  BY <1>3, <1>4, <1>5, <1>6, <1>7 DEF TransportStep

-----------------------------------------------------------------------------
(***************************************************************************)
(* A call reaches its object: it is sent, or fails.                        *)
(***************************************************************************)
\* A call at its object has no child yet, and its object exists.
LEMMA HaveFacts ==
  ASSUME IInv, NEW c \in Calls, call[c].pc \in {"have", "waiting"}
  PROVE  /\ call[c].obj \in DOMAIN obj /\ obj \in Seq(Obj) /\ DOMAIN obj = 1 .. Len(obj)
         /\ child \in Seq(Child) /\ DOMAIN child = 1 .. Len(child) /\ Len(child) \in Nat
         /\ call \in [Calls -> CallRec] /\ call[c] \in CallRec
         /\ isRunning(call[c].obj) => obj[call[c].obj].child \in DOMAIN child
         /\ ~isRunning(call[c].obj) => obj[call[c].obj].child = 0
         /\ \A o \in DOMAIN obj : obj[o] \in Obj /\ obj[o].child \in 0 .. Len(child)
         /\ call[c].pc = "have" => call[c].child = 0
<1>1. /\ obj \in Seq(Obj) /\ DOMAIN obj = 1 .. Len(obj) /\ Len(obj) \in Nat
      /\ child \in Seq(Child) /\ DOMAIN child = 1 .. Len(child) /\ Len(child) \in Nat
      /\ call \in [Calls -> CallRec] /\ call[c] \in CallRec
      /\ \A o \in DOMAIN obj : obj[o] \in Obj /\ obj[o].child \in 0 .. Len(child)
  BY DEF IInv, Shape, Refs
<1>2. call[c].obj \in 0 .. Len(obj) /\ call[c].obj # 0
  BY DEF IInv, Refs
<1>3. call[c].obj \in DOMAIN obj
  BY <1>1, <1>2
<1>4. /\ isRunning(call[c].obj) => obj[call[c].obj].child \in DOMAIN child
      /\ ~isRunning(call[c].obj) => obj[call[c].obj].child = 0
  BY <1>1, <1>2, <1>3 DEF isRunning, IInv, ProcInv, Owned
<1> QED
  BY <1>1, <1>3, <1>4 DEF IInv, CallInv, SentOnce

\* Bun.spawn throws.
LEMMA SpawnThrowsStep ==
  ASSUME IInv, NEW c \in Calls, SpawnThrows(c)
  PROVE  IInv'
<1> DEFINE o == call[c].obj
           q == [call[c] EXCEPT !.pc = "failed"]
           x == [obj[o] EXCEPT !.killed = FALSE]
<1>0. /\ o \in DOMAIN obj /\ obj \in Seq(Obj) /\ DOMAIN obj = 1 .. Len(obj)
      /\ call \in [Calls -> CallRec] /\ call[c] \in CallRec /\ obj[o] \in Obj
      /\ obj[o].child = 0 /\ call[c].child = 0 /\ call[c].pc = "have"
  BY HaveFacts DEF SpawnThrows
<1>1. /\ q \in CallRec /\ q.pc = "failed" /\ q.obj = o /\ q.child = 0
      /\ call' = [call EXCEPT ![c] = q]
  BY <1>0 DEF SpawnThrows, CallRec, CallPcs
<1>2. x \in Obj /\ x.child = obj[o].child /\ x.killed = FALSE /\ obj' = [obj EXCEPT ![o] = x]
  BY <1>0 DEF SpawnThrows, Obj
<1> HIDE DEF q, x
<1>3. /\ obj' \in Seq(Obj) /\ Len(obj') = Len(obj) /\ DOMAIN obj' = DOMAIN obj
      /\ obj'[o] = x /\ \A i \in DOMAIN obj : i # o => obj'[i] = obj[i]
  BY <1>0, <1>2
<1>4. /\ call' \in [Calls -> CallRec] /\ call'[c] = q
      /\ \A d \in Calls : d # c => call'[d] = call[d]
      /\ \A d \in Calls : call'[d].child = call[d].child /\ call'[d].obj = call[d].obj
  BY <1>0, <1>1
<1> HIDE DEF o
<1>5. UNCHANGED <<registry, child, row, package, frames>>
  BY DEF SpawnThrows
<1>6. Shape'
  BY <1>3, <1>4, <1>5 DEF IInv, Shape
<1>7. Refs'
  <2>1. \A i \in DOMAIN obj' : obj'[i].child \in 0 .. Len(child')
    BY <1>0, <1>2, <1>3, <1>5 DEF IInv, Refs
  <2> QED
    BY <1>1, <1>3, <1>4, <1>5, <2>1 DEF IInv, Refs
<1>8. Streams'
  BY <1>5 DEF IInv, Streams
<1>9. Callbacks' /\ Executed'
  BY <1>1, <1>4, <1>5 DEF IInv, CallInv, Callbacks, Executed
<1>10. SentOnce'
  <2>1. \A j \in DOMAIN child : child[j].inbox \cup child[j].got \subseteq Calls
    BY ChildTypes DEF IInv, Shape
  <2> QED
    BY <1>1, <1>4, <1>5, <2>1 DEF IInv, CallInv, SentOnce
<1>11. Owned' /\ Dead' /\ GivenUp'
  <2>1. \A i \in DOMAIN obj : obj'[i].child = obj[i].child /\ (obj'[i].killed => obj[i].killed)
    BY <1>2, <1>3
  <2>2. Owned' /\ Dead'
    BY <1>3, <1>5, <2>1 DEF IInv, ProcInv, Owned, Dead
  <2>3. \A k \in DOMAIN child : child[k].obj \in DOMAIN obj
    BY DEF IInv, Refs
  <2>4. GivenUp'
    BY <1>3, <1>5, <2>1, <2>3 DEF IInv, ProcInv, GivenUp, ExitBefore
  <2> QED
    BY <2>2, <2>4
<1>12. KillKnown'
  <2> SUFFICES ASSUME NEW k \in DOMAIN child, child[k].killed
               PROVE  \/ obj'[child[k].obj].killed /\ child[k].exit \notin {"counting", "disabling"}
                      \/ Respawned(k)'
    BY <1>5 DEF KillKnown
  <2>1. CASE child[k].obj = o
    BY <1>1, <1>4, <1>5, <2>1 DEF Respawned
  <2>2. CASE child[k].obj # o /\ Respawned(k)
    BY <1>0, <1>4, <1>5, <2>2 DEF Respawned
  <2>3. CASE child[k].obj # o /\ ~Respawned(k)
    <3>1. child[k].obj \in DOMAIN obj
      BY DEF IInv, Refs
    <3> QED
      BY <1>3, <2>3, <3>1 DEF IInv, ProcInv, KillKnown
  <2> QED
    BY <2>1, <2>2, <2>3
<1> QED
  BY <1>6, <1>7, <1>8, <1>9, <1>10, <1>11, <1>12 DEF IInv, CallInv, ProcInv

\* Call c becomes q, sent to child k or failed when written to it, and child k
\* is r afterwards: the child of the object, or a new one.
SendsTo(c, q, k, r) ==
  /\ child' \in Seq(Child) /\ DOMAIN child' = DOMAIN child \cup {k} /\ child'[k] = r
  /\ \A j \in DOMAIN child : j # k => child'[j] = child[j]
  /\ call[c].pc = "have" /\ call[c].child = 0
  /\ q \in CallRec /\ q.pc \in {"waiting", "failed"} /\ q.obj = call[c].obj /\ q.child = k
  /\ call' = [call EXCEPT ![c] = q]
  /\ c \in r.callbacks /\ (q.pc = "waiting" => r.reading \/ c \in r.late)
  /\ \/ /\ k \in DOMAIN child /\ child[k].callbacks \subseteq r.callbacks
        /\ child[k].late \subseteq r.late /\ r.reading = child[k].reading
        /\ r.got = child[k].got /\ r.pipe = child[k].pipe /\ r.streams = child[k].streams
        /\ r.inbox \subseteq child[k].inbox \cup {c}
     \/ /\ k \notin DOMAIN child /\ r.got = {} /\ r.pipe = <<>> /\ r.inbox = {c}
        /\ r.streams = [d \in Calls |-> NoStream]

\* A call that is sent, or fails to be, keeps what is known of the calls.
LEMMA SendKeeps ==
  ASSUME IInv, NEW c \in Calls, NEW q, NEW k, NEW r, SendsTo(c, q, k, r)
  PROVE  CallInv' /\ Streams'
<1> USE DEF SendsTo
<1>0. /\ call'[c] = q /\ \A d \in Calls : d # c => call'[d] = call[d]
      /\ \A j \in DOMAIN child : child[j].inbox \cup child[j].got \subseteq Calls
  BY ChildTypes DEF IInv, Shape
<1>1. \A j \in DOMAIN child : c \notin child[j].inbox \cup child[j].got
  <2>1. 0 \notin DOMAIN child
    BY DEF IInv, Shape
  <2> QED
    BY <2>1 DEF IInv, CallInv, SentOnce
<1>2. Callbacks'
  <2> SUFFICES ASSUME NEW d \in Calls, call'[d].pc = "waiting"
               PROVE  \E j \in DOMAIN child' :
                        /\ call'[d].child = j /\ d \in child'[j].callbacks
                        /\ child'[j].reading \/ d \in child'[j].late
    BY DEF Callbacks
  <2>1. CASE d = c
    BY <1>0, <2>1
  <2>2. CASE d # c
    <3>1. PICK j \in DOMAIN child :
            /\ call[d].child = j /\ d \in child[j].callbacks
            /\ child[j].reading \/ d \in child[j].late
      BY <1>0, <2>2 DEF IInv, CallInv, Callbacks
    <3> QED
      BY <1>0, <2>2, <3>1
  <2> QED
    BY <2>1, <2>2
<1>3. SentOnce'
  <2>1. \A d \in Calls : call'[d].pc \in {"new", "verifying", "denying", "getting", "have"} =>
          call'[d].child = 0
    BY <1>0 DEF IInv, CallInv, SentOnce
  <2>2. ASSUME NEW j \in DOMAIN child, j # k
        PROVE  /\ \A d \in child'[j].inbox \cup child'[j].got : call'[d].child = j
               /\ child'[j].inbox \cap child'[j].got = {}
               /\ \A i \in DOMAIN child'[j].pipe : child'[j].pipe[i].call \in child'[j].got
    BY <1>0, <1>1, <2>2 DEF IInv, CallInv, SentOnce
  <2>3. /\ \A d \in r.inbox \cup r.got : call'[d].child = k
        /\ r.inbox \cap r.got = {}
        /\ \A i \in DOMAIN r.pipe : r.pipe[i].call \in r.got
    <3>1. CASE k \in DOMAIN child
      BY <1>0, <1>1, <3>1 DEF IInv, CallInv, SentOnce
    <3>2. CASE k \notin DOMAIN child
      <4>1. r.got = {} /\ r.inbox = {c} /\ DOMAIN r.pipe = {}
        BY <3>2
      <4> QED
        BY <1>0, <4>1
    <3> QED
      BY <3>1, <3>2
  <2> QED
    BY <2>1, <2>2, <2>3 DEF SentOnce
<1>4. Executed'
  <2> SUFFICES ASSUME NEW d \in Calls, call'[d].pc \in {"reset", "answered"}
               PROVE  \E j \in DOMAIN child' : d \in child'[j].got
    BY DEF Executed
  <2>1. PICK j \in DOMAIN child : d \in child[j].got
    BY <1>0 DEF IInv, CallInv, Executed
  <2> QED
    BY <2>1
<1>5. Streams'
  <2>1. Open(NoStream)
    BY DEF Open
  <2>2. \A d \in Calls : Open(r.streams[d])
    BY <2>1 DEF IInv, Streams
  <2> QED
    BY <2>2 DEF IInv, Streams
<1> QED
  BY <1>2, <1>3, <1>4, <1>5 DEF CallInv

\* The call is written to the child of a running object, or fails to be.
LEMMA CallRunningStep ==
  ASSUME IInv, NEW c \in Calls, isRunning(call[c].obj), Call(c) \/ CallThrows(c)
  PROVE  IInv'
<1> USE ExtensionCallsAssumption
<1> DEFINE o == call[c].obj
           k == obj[o].child
<1>0. /\ o \in DOMAIN obj /\ obj \in Seq(Obj) /\ DOMAIN obj = 1 .. Len(obj)
      /\ child \in Seq(Child) /\ DOMAIN child = 1 .. Len(child) /\ Len(child) \in Nat
      /\ call \in [Calls -> CallRec] /\ call[c] \in CallRec /\ obj[o] \in Obj
      /\ k \in DOMAIN child /\ call[c].child = 0 /\ call[c].pc = "have" /\ ~obj[o].killed
      /\ k \in Nat \ {0} /\ child[k] \in Child
  <2>1. call[c].pc = "have" /\ ~obj[o].killed
    BY DEF Call, CallThrows, isRunning
  <2> QED
    BY <2>1, HaveFacts
<1>1. PICK q : /\ q \in CallRec /\ q.pc \in {"waiting", "failed"} /\ q.obj = o /\ q.child = k
               /\ call' = [call EXCEPT ![c] = q] /\ (q.pc = "waiting" => Call(c))
  <2>1. ASSUME NEW y \in {"waiting", "failed"}
        PROVE  LET q == [call[c] EXCEPT !.pc = y, !.child = k]
               IN  /\ q \in CallRec /\ q.pc = y /\ q.obj = o /\ q.child = k
                   /\ [call EXCEPT ![c].pc = y, ![c].child = k] = [call EXCEPT ![c] = q]
    BY <1>0 DEF CallRec, CallPcs
  <2>2. CASE Call(c)
    <3>1. call' = [call EXCEPT ![c].pc = "waiting", ![c].child = k]
      BY <2>2 DEF Call
    <3> QED
      BY <2>1, <2>2, <3>1
  <2>3. CASE CallThrows(c)
    <3>1. call' = [call EXCEPT ![c].pc = "failed", ![c].child = k]
      BY <2>3 DEF CallThrows
    <3> DEFINE q == [call[c] EXCEPT !.pc = "failed", !.child = k]
    <3>2. q \in CallRec /\ q.pc = "failed" /\ q.obj = o /\ q.child = k /\ call' = [call EXCEPT ![c] = q]
      BY <2>1, <3>1
    <3> HIDE DEF q
    <3> QED
      BY <3>2
  <2> QED
    BY <2>2, <2>3
<1>2. PICK x \in Obj : x.child = k /\ x.killed = FALSE /\ obj' = [obj EXCEPT ![o] = x]
  <2>1. CASE Call(c)
    <3> DEFINE x == [child |-> k, killed |-> FALSE, timer |-> ~Persistent]
    <3>1. obj' = [obj EXCEPT ![o] = x]
      BY <2>1 DEF Call
    <3>2. x \in Obj /\ x.child = k /\ x.killed = FALSE
      BY <1>0 DEF Obj
    <3> HIDE DEF x
    <3> QED
      BY <3>1, <3>2
  <2>2. CASE CallThrows(c)
    <3> DEFINE x == [obj[o] EXCEPT !.timer = ~Persistent]
    <3>1. obj' = [obj EXCEPT ![o] = x]
      BY <1>0, <2>2 DEF CallThrows
    <3>2. x \in Obj /\ x.child = k /\ x.killed = FALSE
      BY <1>0 DEF Obj
    <3> HIDE DEF x
    <3> QED
      BY <3>1, <3>2
  <2> QED
    BY <2>1, <2>2
<1>3. PICK r :
        /\ r \in Child /\ child' = [child EXCEPT ![k] = r]
        /\ r.callbacks = child[k].callbacks \cup {c}
        /\ r.inbox \subseteq child[k].inbox \cup {c} /\ child[k].late \subseteq r.late
        /\ r.obj = child[k].obj /\ r.alive = child[k].alive /\ r.killed = child[k].killed
        /\ r.reading = child[k].reading /\ r.exit = child[k].exit /\ r.got = child[k].got
        /\ r.pipe = child[k].pipe /\ r.streams = child[k].streams
        /\ q.pc = "waiting" => r.reading \/ c \in r.late
  <2>1. CASE Call(c)
    <3> DEFINE r == Sent(child[k], c)
    <3>1. child' = [child EXCEPT ![k] = r]
      BY <2>1 DEF Call
    <3>2. /\ r \in Child
          /\ r.callbacks = child[k].callbacks \cup {c} /\ r.inbox = child[k].inbox \cup {c}
          /\ child[k].late \subseteq r.late /\ (r.reading \/ c \in r.late)
          /\ r.obj = child[k].obj /\ r.alive = child[k].alive /\ r.killed = child[k].killed
          /\ r.reading = child[k].reading /\ r.exit = child[k].exit /\ r.got = child[k].got
          /\ r.pipe = child[k].pipe /\ r.streams = child[k].streams
      BY <1>0, SentEffect
    <3> HIDE DEF r
    <3> QED
      BY <3>1, <3>2
  <2>2. CASE ~Call(c)
    <3>1. CallThrows(c) /\ q.pc # "waiting"
      BY <1>1, <2>2
    <3>2. child' = [child EXCEPT ![k].callbacks = @ \cup {c}]
      BY <3>1 DEF CallThrows
    <3>3. PICK r : Becomes(k, r, {"callbacks"}) /\ r.callbacks = child[k].callbacks \cup {c}
      <4> HIDE DEF o, k
      <4>1. child \in Seq(Child) /\ k \in DOMAIN child
        BY <1>0
      <4>2. \A d \in Calls : child' = [child EXCEPT ![k].callbacks = @ \cup {d}] =>
              \E r : Becomes(k, r, {"callbacks"}) /\ r.callbacks = child[k].callbacks \cup {d}
        BY <4>1, ChildEffects, Zenon
      <4> QED
        BY <3>2, <4>2
    <3> QED
      BY <3>1, <3>3 DEF Becomes
  <2> QED
    BY <2>1, <2>2
<1>4. UNCHANGED <<registry, row, package, frames>>
  BY DEF Call, CallThrows
<1> HIDE DEF o, k
<1>5. /\ obj' \in Seq(Obj) /\ Len(obj') = Len(obj) /\ DOMAIN obj' = DOMAIN obj
      /\ obj'[o] = x /\ \A i \in DOMAIN obj : i # o => obj'[i] = obj[i]
  BY <1>0, <1>2
<1>6. /\ child' \in Seq(Child) /\ Len(child') = Len(child) /\ DOMAIN child' = DOMAIN child
      /\ child'[k] = r /\ \A j \in DOMAIN child : j # k => child'[j] = child[j]
  BY <1>0, <1>3
<1>7. /\ call' \in [Calls -> CallRec] /\ call'[c] = q
      /\ \A d \in Calls : d # c => call'[d] = call[d]
  BY <1>0, <1>1
<1>8. Shape'
  BY <1>4, <1>5, <1>6, <1>7 DEF IInv, Shape
<1>9. \A i \in DOMAIN obj : obj'[i].child = obj[i].child /\ obj'[i].killed = obj[i].killed
  <2>1. obj[o].child = k /\ obj[o].killed = FALSE
    BY <1>0 DEF k, Obj
  <2> QED
    BY <1>2, <1>5, <2>1
<1>10. Refs'
  <2>1. \A i \in DOMAIN obj' : obj'[i].child \in 0 .. Len(child')
    BY <1>5, <1>6, <1>9 DEF IInv, Refs
  <2>2. \A j \in DOMAIN child' : child'[j].obj \in DOMAIN obj'
    BY <1>3, <1>5, <1>6 DEF IInv, Refs
  <2>3. q.obj = call[c].obj /\ call[c].pc = "have" /\ k \in 0 .. Len(child)
    BY <1>0, <1>1 DEF o
  <2>4. \A d \in Calls :
          /\ call'[d].obj \in 0 .. Len(obj') /\ call'[d].child \in 0 .. Len(child')
          /\ call'[d].pc \in {"have", "waiting"} => call'[d].obj # 0
    BY <1>1, <1>5, <1>6, <1>7, <2>3 DEF IInv, Refs
  <2> QED
    BY <1>4, <1>5, <2>1, <2>2, <2>4 DEF IInv, Refs
<1>11. CallInv' /\ Streams'
  <2>1. q.obj = call[c].obj
    BY <1>1 DEF o
  <2>2. SendsTo(c, q, k, r)
    BY <1>0, <1>1, <1>3, <1>6, <2>1 DEF SendsTo
  <2> QED
    BY <2>2, SendKeeps
<1>12. ProcInv'
  <2>1. \A j \in DOMAIN child :
           /\ child'[j].obj = child[j].obj /\ child'[j].killed = child[j].killed
           /\ child'[j].alive => child[j].alive
           /\ child'[j].exit = child[j].exit
    BY <1>3, <1>6
  <2>2. \A d \in Calls : call[d].pc = "failed" => call'[d] = call[d]
    BY <1>0, <1>7
  <2> QED
    BY <1>5, <1>6, <1>9, <2>1, <2>2, ProcKept DEF IInv
<1> QED
  BY <1>8, <1>10, <1>11, <1>12 DEF IInv

\* A call makes an object without a child spawn one.
LEMMA CallSpawnStep ==
  ASSUME IInv, NEW c \in Calls, ~isRunning(call[c].obj), Call(c)
  PROVE  IInv'
<1> USE ExtensionCallsAssumption
<1> DEFINE o == call[c].obj
           k == Len(child) + 1
           q == [call[c] EXCEPT !.pc = "waiting", !.child = k]
           x == [child |-> k, killed |-> FALSE, timer |-> ~Persistent]
           r == Sent(NewChild(o), c)
<1>0. /\ o \in DOMAIN obj /\ obj \in Seq(Obj) /\ DOMAIN obj = 1 .. Len(obj) /\ o \in Nat
      /\ child \in Seq(Child) /\ DOMAIN child = 1 .. Len(child) /\ Len(child) \in Nat
      /\ call \in [Calls -> CallRec] /\ call[c] \in CallRec
      /\ call[c].child = 0 /\ call[c].pc = "have" /\ obj[o].child = 0
      /\ \A i \in DOMAIN obj : obj[i].child \in 0 .. Len(child)
  <2>1. call[c].pc = "have"
    BY DEF Call
  <2> QED
    BY <2>1, HaveFacts
<1>1. /\ q \in CallRec /\ q.pc = "waiting" /\ q.obj = o /\ q.child = k
      /\ call' = [call EXCEPT ![c] = q]
  BY SMTT(20), <1>0 DEF Call, CallRec, CallPcs
<1>2. x \in Obj /\ x.child = k /\ ~x.killed /\ obj' = [obj EXCEPT ![o] = x]
  <2>1. x \in Obj
    BY <1>0 DEF Obj
  <2>2. obj' = [obj EXCEPT ![o] = x]
    BY DEF Call
  <2> QED
    BY <2>1, <2>2
<1>3. /\ r \in Child /\ r.callbacks = {c} /\ r.inbox = {c} /\ r.got = {} /\ r.pipe = <<>>
      /\ r.obj = o /\ r.alive /\ ~r.killed /\ r.reading /\ r.exit = "none"
      /\ r.streams = [d \in Calls |-> NoStream]
  <2> DEFINE n == NewChild(o)
  <2>1. /\ n \in Child /\ n.obj = o /\ n.alive /\ ~n.killed /\ n.reading /\ n.exit = "none"
        /\ n.callbacks = {} /\ n.inbox = {} /\ n.got = {} /\ n.pipe = <<>>
        /\ n.streams = [d \in Calls |-> NoStream]
    BY <1>0, NewChildEffect
  <2> HIDE DEF n
  <2>2. /\ Sent(n, c) \in Child
        /\ Sent(n, c).callbacks = n.callbacks \cup {c} /\ Sent(n, c).inbox = n.inbox \cup {c}
        /\ Sent(n, c).obj = n.obj /\ Sent(n, c).alive = n.alive /\ Sent(n, c).killed = n.killed
        /\ Sent(n, c).reading = n.reading /\ Sent(n, c).exit = n.exit
        /\ Sent(n, c).got = n.got /\ Sent(n, c).pipe = n.pipe
        /\ Sent(n, c).streams = n.streams
    BY ZenonT(60), <2>1, SentEffect
  <2>3. r = Sent(n, c)
    BY DEF n
  <2> HIDE DEF r
  <2> QED
    BY <2>1, <2>2, <2>3
<1>4. child' = Append(child, r) /\ UNCHANGED <<registry, row, package, frames>>
  BY DEF Call
<1> HIDE DEF q, x, r
<1>5. /\ obj' \in Seq(Obj) /\ Len(obj') = Len(obj) /\ DOMAIN obj' = DOMAIN obj
      /\ obj'[o] = x /\ \A i \in DOMAIN obj : i # o => obj'[i] = obj[i]
  BY <1>0, <1>2
<1>6. /\ child' \in Seq(Child) /\ Len(child') = k /\ DOMAIN child' = DOMAIN child \cup {k}
      /\ child'[k] = r /\ \A j \in DOMAIN child : child'[j] = child[j] /\ j < k
      /\ k \notin DOMAIN child /\ k \in Nat \ {0}
  BY <1>0, <1>3, <1>4
<1>7. /\ call' \in [Calls -> CallRec] /\ call'[c] = q
      /\ \A d \in Calls : d # c => call'[d] = call[d]
  BY <1>0, <1>1
<1>8. Shape'
  BY <1>4, <1>5, <1>6, <1>7 DEF IInv, Shape
<1>9. CallInv' /\ Streams'
  <2>1. SendsTo(c, q, k, r)
    BY <1>0, <1>1, <1>3, <1>6 DEF SendsTo
  <2> HIDE DEF k, o
  <2> QED
    BY <2>1, SendKeeps
<1>10. Refs'
  <2>1. \A i \in DOMAIN obj' : obj'[i].child \in 0 .. Len(child')
    BY <1>0, <1>2, <1>5, <1>6
  <2>2. \A j \in DOMAIN child' : child'[j].obj \in DOMAIN obj'
    BY <1>0, <1>3, <1>5, <1>6 DEF IInv, Refs
  <2>4. \A d \in Calls :
          /\ call'[d].obj \in 0 .. Len(obj') /\ call'[d].child \in 0 .. Len(child')
          /\ call'[d].pc \in {"have", "waiting"} => call'[d].obj # 0
    BY <1>0, <1>1, <1>5, <1>6, <1>7 DEF IInv, Refs
  <2> QED
    BY <1>4, <1>5, <2>1, <2>2, <2>4 DEF IInv, Refs
<1> HIDE DEF k, o
<1>11. Owned'
  <2> SUFFICES ASSUME NEW i \in DOMAIN obj
               PROVE  /\ obj'[i].killed => obj'[i].child = 0
                      /\ obj'[i].child # 0 =>
                           /\ child'[obj'[i].child].obj = i
                           /\ child'[obj'[i].child].exit = "none"
                           /\ \A j \in DOMAIN child' : child'[j].obj = i => j <= obj'[i].child
    BY <1>5 DEF Owned
  <2>1. CASE i = o
    BY <1>0, <1>2, <1>3, <1>5, <1>6, <2>1
  <2>2. CASE i # o
    <3>1. obj'[i] = obj[i] /\ (obj[i].child # 0 => obj[i].child \in DOMAIN child)
      BY <1>0, <1>5, <2>2
    <3> QED
      BY <1>3, <1>6, <2>2, <3>1 DEF IInv, ProcInv, Owned
  <2> QED
    BY <2>1, <2>2
<1>12. Dead'
  BY <1>3, <1>6 DEF IInv, ProcInv, Dead
<1>13. GivenUp'
  <2> SUFFICES ASSUME NEW j \in DOMAIN child', obj'[child'[j].obj].child # j
               PROVE  child'[j].killed \/ child'[j].exit # "none" \/ ExitBefore(j)'
    BY DEF GivenUp
  <2>1. j # k /\ j \in DOMAIN child
    BY <1>2, <1>3, <1>5, <1>6
  <2>2. obj[child[j].obj].child # j
    <3>1. child[j].obj \in DOMAIN obj /\ j # 0
      BY <1>0, <2>1 DEF IInv, Refs
    <3> QED
      BY <1>0, <1>5, <1>6, <2>1, <3>1
  <2>3. ExitBefore(j) => ExitBefore(j)'
    BY <1>6, <2>1 DEF ExitBefore
  <2> QED
    BY <1>6, <2>1, <2>2, <2>3 DEF IInv, ProcInv, GivenUp
<1>14. KillKnown'
  <2> SUFFICES ASSUME NEW j \in DOMAIN child', child'[j].killed
               PROVE  \/ /\ obj'[child'[j].obj].killed
                         /\ child'[j].exit \notin {"counting", "disabling"}
                      \/ Respawned(j)'
    BY DEF KillKnown
  <2>1. j # k /\ j \in DOMAIN child /\ child'[j] = child[j]
    BY <1>3, <1>6
  <2>2. CASE child[j].obj = o
    BY <1>3, <1>6, <2>1, <2>2 DEF Respawned
  <2>3. CASE child[j].obj # o /\ Respawned(j)
    BY <1>0, <1>6, <1>7, <2>1, <2>3 DEF Respawned
  <2>4. CASE child[j].obj # o /\ ~Respawned(j)
    <3>1. child[j].obj \in DOMAIN obj
      BY <2>1 DEF IInv, Refs
    <3> QED
      BY <1>5, <1>6, <2>1, <2>4, <3>1 DEF IInv, ProcInv, KillKnown
  <2> QED
    BY <2>2, <2>3, <2>4
<1> QED
  BY <1>8, <1>9, <1>10, <1>11, <1>12, <1>13, <1>14 DEF IInv, ProcInv

-----------------------------------------------------------------------------
(***************************************************************************)
(* The end of a child: its object kills it, or sees its exit.               *)
(***************************************************************************)
\* An object is killed, and a call that waits at it fails.
LEMMA KillStep ==
  ASSUME IInv, NEW o \in DOMAIN obj, NEW S \in SUBSET Calls, Kill(o, S)
  PROVE  IInv'
<1> DEFINE k == obj[o].child
           x == [child |-> 0, killed |-> TRUE, timer |-> FALSE]
<1>0. /\ obj \in Seq(Obj) /\ DOMAIN obj = 1 .. Len(obj) /\ obj[o] \in Obj
      /\ child \in Seq(Child) /\ DOMAIN child = 1 .. Len(child) /\ Len(child) \in Nat
      /\ call \in [Calls -> CallRec] /\ k \in 0 .. Len(child)
      /\ \A j \in DOMAIN child : child[j].obj \in DOMAIN obj
  BY DEF IInv, Shape, Refs
<1>1. x \in Obj /\ x.child = 0 /\ x.killed /\ obj' = [obj EXCEPT ![o] = x]
  BY DEF Kill, Obj
<1>2. UNCHANGED <<registry, row, package, frames>>
  BY DEF Kill
<1> HIDE DEF x
<1>3. /\ obj' \in Seq(Obj) /\ Len(obj') = Len(obj) /\ DOMAIN obj' = DOMAIN obj
      /\ obj'[o] = x /\ \A i \in DOMAIN obj : i # o => obj'[i] = obj[i]
  BY <1>0, <1>1
<1>4. PICK T : /\ Reject(T)
               /\ k # 0 => child[k].callbacks \subseteq T
  BY DEF Kill
<1>5. /\ call' \in [Calls -> CallRec]
      /\ \A c \in Calls :
           /\ call'[c].obj = call[c].obj /\ call'[c].child = call[c].child
           /\ \/ call'[c] = call[c] /\ ~(c \in T /\ call[c].pc = "waiting")
              \/ call[c].pc = "waiting" /\ call'[c].pc = "failed"
  BY <1>0, <1>4, RejectEffect
<1>6. /\ child' \in Seq(Child) /\ Len(child') = Len(child) /\ DOMAIN child' = DOMAIN child
      /\ \A j \in DOMAIN child : j # k => child'[j] = child[j]
      /\ k # 0 => /\ child'[k].alive = child[k].alive /\ child'[k].killed = TRUE
                  /\ child'[k].inbox = child[k].inbox
                  /\ child'[k].streams = [c \in Calls |-> NoStream]
                  /\ child'[k].obj = child[k].obj /\ child'[k].exit = child[k].exit
                  /\ child'[k].got = child[k].got /\ child'[k].pipe = child[k].pipe
  <2>1. CASE k = 0
    BY <1>0, <2>1 DEF Kill
  <2>2. CASE k # 0
    <3>1. k \in DOMAIN child
      BY <1>0, <2>2
    <3>2. PICK r :
            /\ Becomes(k, r, {"killed", "callbacks", "streams"})
            /\ r.killed = TRUE /\ r.callbacks = {}
            /\ r.streams = [c \in Calls |-> NoStream]
      BY <1>0, <3>1, KillEffect
    <3> HIDE DEF k
    <3> QED
      BY <1>0, <3>1, <3>2, BecomesOthers DEF Becomes
  <2> QED
    BY <2>1, <2>2
<1>7. obj[o].child = k
  OBVIOUS
<1> HIDE DEF k
<1>8. Shape'
  BY <1>2, <1>3, <1>5, <1>6 DEF IInv, Shape
<1>9. Refs'
  <2>1. \A i \in DOMAIN obj' : obj'[i].child \in 0 .. Len(child')
    BY <1>0, <1>1, <1>3, <1>6 DEF IInv, Refs
  <2>2. \A j \in DOMAIN child' : child'[j].obj \in DOMAIN obj'
    BY <1>0, <1>3, <1>6
  <2>3. \A c \in Calls :
          /\ call'[c].obj \in 0 .. Len(obj') /\ call'[c].child \in 0 .. Len(child')
          /\ call'[c].pc \in {"have", "waiting"} => call'[c].obj # 0
    BY <1>3, <1>5, <1>6 DEF IInv, Refs
  <2> QED
    BY <1>2, <1>3, <2>1, <2>2, <2>3 DEF IInv, Refs
<1>10. Streams'
  <2>1. Open(NoStream)
    BY DEF Open
  <2> QED
    BY <1>0, <1>6, <2>1 DEF IInv, Streams
<1>11. Callbacks'
  <2> SUFFICES ASSUME NEW c \in Calls, call'[c].pc = "waiting"
               PROVE  \E j \in DOMAIN child' :
                        /\ call'[c].child = j /\ c \in child'[j].callbacks
                        /\ child'[j].reading \/ c \in child'[j].late
    BY DEF Callbacks
  <2>1. call'[c] = call[c] /\ c \notin T
    BY <1>5
  <2>2. PICK j \in DOMAIN child :
          /\ call[c].child = j /\ c \in child[j].callbacks
          /\ child[j].reading \/ c \in child[j].late
    BY <2>1 DEF IInv, CallInv, Callbacks
  <2>3. j # k
    BY <1>0, <1>4, <1>7, <2>1, <2>2
  <2> QED
    BY <1>6, <2>1, <2>2, <2>3
<1>12. SentOnce'
  <2>1. \A j \in DOMAIN child : child[j].inbox \cup child[j].got \subseteq Calls
    BY ChildTypes DEF IInv, Shape
  <2>2. \A c \in Calls : call'[c].pc \in {"new", "verifying", "denying", "getting", "have"} =>
          call'[c].child = 0
    BY <1>5 DEF IInv, CallInv, SentOnce
  <2>3. \A j \in DOMAIN child :
          child'[j].inbox = child[j].inbox /\ child'[j].got = child[j].got
            /\ child'[j].pipe = child[j].pipe
    BY <1>0, <1>6
  <2> QED
    BY <1>5, <1>6, <2>1, <2>2, <2>3 DEF IInv, CallInv, SentOnce
<1>13. Executed'
  <2>1. \A j \in DOMAIN child : child'[j].got = child[j].got
    BY <1>0, <1>6
  <2> QED
    BY <1>5, <1>6, <2>1 DEF IInv, CallInv, Executed
<1>14. \A j \in DOMAIN child :
         /\ child'[j].obj = child[j].obj /\ child'[j].exit = child[j].exit
         /\ child[j].killed => child'[j].killed
  BY <1>0, <1>6
<1>15. Owned' /\ Dead'
  <2>1. Owned'
    <3> SUFFICES ASSUME NEW i \in DOMAIN obj
                 PROVE  /\ obj'[i].killed => obj'[i].child = 0
                        /\ obj'[i].child # 0 =>
                             /\ child'[obj'[i].child].obj = i
                             /\ child'[obj'[i].child].exit = "none"
                             /\ \A j \in DOMAIN child' : child'[j].obj = i => j <= obj'[i].child
      BY <1>3 DEF Owned
    <3>1. CASE i = o
      BY <1>1, <1>3, <3>1
    <3>2. CASE i # o
      <4>1. obj'[i] = obj[i] /\ (obj[i].child # 0 => obj[i].child \in DOMAIN child)
        BY <1>0, <1>3, <3>2 DEF IInv, Refs
      <4> QED
        BY <1>6, <1>14, <4>1 DEF IInv, ProcInv, Owned
    <3> QED
      BY <3>1, <3>2
  <2>2. Dead'
    BY <1>0, <1>6 DEF IInv, ProcInv, Dead
  <2> QED
    BY <2>1, <2>2
<1>16. GivenUp'
  <2> SUFFICES ASSUME NEW j \in DOMAIN child, obj'[child'[j].obj].child # j
               PROVE  child'[j].killed \/ child'[j].exit # "none" \/ ExitBefore(j)'
    BY <1>6 DEF GivenUp
  <2>1. CASE j = k
    <3>1. k # 0
      BY <1>0, <2>1
    <3> QED
      BY <1>6, <2>1, <3>1
  <2>2. CASE j # k
    <3>1. obj[child[j].obj].child # j
      BY <1>0, <1>3, <1>7, <1>14, <2>2
    <3>2. ExitBefore(j) => ExitBefore(j)'
      BY <1>6, <1>14 DEF ExitBefore
    <3> QED
      BY <1>14, <3>1, <3>2 DEF IInv, ProcInv, GivenUp
  <2> QED
    BY <2>1, <2>2
<1>17. KillKnown'
  <2> SUFFICES ASSUME NEW j \in DOMAIN child, child'[j].killed
               PROVE  \/ /\ obj'[child'[j].obj].killed
                         /\ child'[j].exit \notin {"counting", "disabling"}
                      \/ Respawned(j)'
    BY <1>6 DEF KillKnown
  <2>1. CASE j = k
    <3>1. k # 0 /\ child[k].obj = o /\ child[k].exit = "none"
      BY <1>0, <1>7, <2>1 DEF IInv, ProcInv, Owned
    <3> QED
      BY <1>1, <1>3, <1>6, <2>1, <3>1
  <2>2. CASE j # k
    <3>1. child[j].killed /\ child[j].obj \in DOMAIN obj
      BY <1>0, <1>6, <2>2
    <3>2. obj[child[j].obj].killed => obj'[child[j].obj].killed
      BY <1>1, <1>3, <3>1
    <3>3. Respawned(j) => Respawned(j)'
      BY <1>5, <1>6, <1>14 DEF Respawned
    <3> QED
      BY <1>14, <3>1, <3>2, <3>3 DEF IInv, ProcInv, KillKnown
  <2> QED
    BY <2>1, <2>2
<1> QED
  BY <1>8, <1>9, <1>10, <1>11, <1>12, <1>13, <1>15, <1>16, <1>17 DEF IInv, CallInv, ProcInv

\* An exit is seen: it is that of a child the object has killed, or the object
\* gives up the child it has now.
LEMMA ExitSeenStep ==
  ASSUME IInv, NEW k \in DOMAIN child, ExitSeen(k)
  PROVE  IInv'
<1> DEFINE o == child[k].obj
<1>0. /\ obj \in Seq(Obj) /\ DOMAIN obj = 1 .. Len(obj) /\ o \in DOMAIN obj /\ obj[o] \in Obj
      /\ child \in Seq(Child) /\ DOMAIN child = 1 .. Len(child) /\ Len(child) \in Nat
      /\ \A j \in DOMAIN child : child[j].obj \in DOMAIN obj
      /\ \A i \in DOMAIN obj : obj[i].child \in 0 .. Len(child)
  BY DEF IInv, Shape, Refs
<1>1. ~child[k].alive /\ child[k].exit = "none" /\ UNCHANGED <<registry, call, row, package, frames>>
  BY DEF ExitSeen
<1>2. PICK y \in {"done", "counting"} :
        /\ child' = [child EXCEPT ![k].exit = y]
        /\ y = "done" => obj[o].killed /\ UNCHANGED obj
        /\ y = "counting" => ~obj[o].killed /\ obj' = [obj EXCEPT ![o].child = 0]
  BY DEF ExitSeen
<1>3. PICK r : Becomes(k, r, {"exit"}) /\ r.exit = y
  <2>1. y \in ExitPcs
    BY DEF ExitPcs
  <2> QED
    BY <1>0, <1>2, <2>1, ChildEffects
<1>4. /\ child' \in Seq(Child) /\ Len(child') = Len(child) /\ DOMAIN child' = DOMAIN child
      /\ child'[k] = r /\ \A j \in DOMAIN child : j # k => child'[j] = child[j]
  BY <1>0, <1>3, BecomesOthers
<1>5. \A j \in DOMAIN child :
        /\ child'[j].obj = child[j].obj /\ child'[j].alive = child[j].alive
        /\ child'[j].killed = child[j].killed /\ child'[j].callbacks = child[j].callbacks
        /\ child'[j].reading = child[j].reading /\ child'[j].late = child[j].late
        /\ child'[j].inbox = child[j].inbox /\ child'[j].got = child[j].got
        /\ child'[j].pipe = child[j].pipe /\ child'[j].streams = child[j].streams
  BY <1>3, <1>4 DEF Becomes
<1>6. /\ child'[k].exit = y
      /\ \A j \in DOMAIN child : j # k => child'[j].exit = child[j].exit
  BY <1>3, <1>4
<1>7. /\ obj' \in Seq(Obj) /\ Len(obj') = Len(obj) /\ DOMAIN obj' = DOMAIN obj
      /\ \A i \in DOMAIN obj : obj'[i].killed = obj[i].killed /\ (i # o => obj'[i] = obj[i])
      /\ y = "done" => obj'[o] = obj[o] /\ obj[o].killed
      /\ y = "counting" => obj'[o].child = 0 /\ ~obj[o].killed
  <2>1. CASE y = "done"
    BY <1>0, <1>2, <2>1
  <2>2. CASE y = "counting"
    <3> DEFINE x == [obj[o] EXCEPT !.child = 0]
    <3>1. x \in Obj /\ x.child = 0 /\ x.killed = obj[o].killed /\ obj' = [obj EXCEPT ![o] = x]
      BY <1>0, <1>2, <2>2 DEF Obj
    <3> HIDE DEF x, o
    <3> QED
      BY <1>0, <1>2, <2>2, <3>1
  <2> QED
    BY <2>1, <2>2
<1>8. child[k].obj = o
  OBVIOUS
<1> HIDE DEF o
<1>9. Shape'
  BY <1>1, <1>4, <1>7 DEF IInv, Shape
<1>10. Refs'
  <2>1. \A i \in DOMAIN obj' : obj'[i].child \in 0 .. Len(child')
    BY <1>0, <1>2, <1>4, <1>7
  <2>2. \A j \in DOMAIN child' : child'[j].obj \in DOMAIN obj'
    BY <1>0, <1>4, <1>5, <1>7
  <2> QED
    BY <1>1, <1>4, <1>7, <2>1, <2>2 DEF IInv, Refs
<1>11. Streams'
  BY <1>4, <1>5 DEF IInv, Streams
<1>12. CallInv'
  <2>1. Callbacks'
    BY <1>1, <1>4, <1>5 DEF IInv, CallInv, Callbacks
  <2>2. SentOnce'
    BY <1>1, <1>4, <1>5 DEF IInv, CallInv, SentOnce
  <2>3. Executed'
    BY <1>1, <1>4, <1>5 DEF IInv, CallInv, Executed
  <2> QED
    BY <2>1, <2>2, <2>3 DEF CallInv
<1>13. Owned'
  <2> SUFFICES ASSUME NEW i \in DOMAIN obj
               PROVE  /\ obj'[i].killed => obj'[i].child = 0
                      /\ obj'[i].child # 0 =>
                           /\ child'[obj'[i].child].obj = i
                           /\ child'[obj'[i].child].exit = "none"
                           /\ \A j \in DOMAIN child' : child'[j].obj = i => j <= obj'[i].child
    BY <1>7 DEF Owned
  <2>1. CASE i = o
    BY <1>2, <1>7, <2>1 DEF IInv, ProcInv, Owned
  <2>2. CASE i # o
    <3>1. obj'[i] = obj[i] /\ (obj[i].child # 0 => obj[i].child \in DOMAIN child)
      BY <1>0, <1>7, <2>2
    <3>2. obj[i].child # k
      BY <1>8, <2>2, <1>0 DEF IInv, ProcInv, Owned
    <3> QED
      BY <1>4, <1>5, <1>6, <3>1, <3>2 DEF IInv, ProcInv, Owned
  <2> QED
    BY <2>1, <2>2
<1>14. Dead'
  BY <1>1, <1>4, <1>5, <1>6 DEF IInv, ProcInv, Dead
<1>15. \A j \in DOMAIN child : ExitBefore(j) => ExitBefore(j)'
  BY <1>1, <1>4, <1>5, <1>6 DEF ExitBefore
<1>16. GivenUp'
  <2> SUFFICES ASSUME NEW j \in DOMAIN child, obj'[child[j].obj].child # j
               PROVE  child'[j].killed \/ child'[j].exit # "none" \/ ExitBefore(j)'
    BY <1>4, <1>5 DEF GivenUp
  <2>1. CASE j = k
    BY <1>2, <1>6, <2>1
  <2>2. CASE j # k /\ obj[child[j].obj].child # j
    BY <1>5, <1>6, <1>15, <2>2 DEF IInv, ProcInv, GivenUp
  <2>3. CASE j # k /\ obj[child[j].obj].child = j
    <3>1. child[j].obj = o
      BY <1>0, <1>7, <2>3
    <3>2. k < j
      BY <1>0, <1>8, <2>3, <3>1 DEF IInv, ProcInv, Owned
    <3>3. obj[o].child # k
      BY <2>3, <3>1
    <3>4. child[k].killed \/ ExitBefore(k)
      BY <1>1, <1>8, <3>3 DEF IInv, ProcInv, GivenUp
    <3>5. CASE child[k].killed
      <4>1. child'[k].killed /\ child'[k].exit # "none" /\ child'[k].obj = child'[j].obj
        <5>1. child'[k].exit # "none"
          BY <1>2, <1>6
        <5>2. child'[k].obj = child'[j].obj
          BY <1>5, <1>8, <3>1
        <5>3. child'[k].killed
          BY <1>5, <3>5
        <5> QED
          BY <5>1, <5>2, <5>3
      <4> QED
        BY <1>4, <3>2, <4>1 DEF ExitBefore
    <3>6. CASE ExitBefore(k)
      <4>1. PICK i \in DOMAIN child :
              i < k /\ child[i].obj = child[k].obj /\ child[i].killed /\ child[i].exit # "none"
        BY <3>6 DEF ExitBefore
      <4>2. i < j /\ child[i].obj = child[j].obj
        BY <1>0, <1>8, <3>1, <3>2, <4>1
      <4>3. ExitBefore(j)
        BY <4>1, <4>2 DEF ExitBefore
      <4> QED
        BY <1>15, <4>3
    <3> QED
      BY <3>4, <3>5, <3>6
  <2> QED
    BY <2>1, <2>2, <2>3
<1>17. KillKnown'
  <2> SUFFICES ASSUME NEW j \in DOMAIN child, child[j].killed
               PROVE  \/ /\ obj'[child[j].obj].killed
                         /\ child'[j].exit \notin {"counting", "disabling"}
                      \/ Respawned(j)'
    BY <1>4, <1>5 DEF KillKnown
  <2>1. Respawned(j) => Respawned(j)'
    BY <1>1, <1>4, <1>5 DEF Respawned
  <2>2. obj'[child[j].obj].killed = obj[child[j].obj].killed
    BY <1>0, <1>7
  <2>3. CASE j # k
    BY <1>6, <2>1, <2>2, <2>3 DEF IInv, ProcInv, KillKnown
  <2>4. CASE j = k
    <3>1. CASE y = "done"
      BY <1>6, <1>7, <1>8, <2>2, <2>4, <3>1
    <3>2. CASE y = "counting"
      BY <1>7, <1>8, <2>1, <2>4, <3>2 DEF IInv, ProcInv, KillKnown
    <3> QED
      BY <1>2, <3>1, <3>2
  <2> QED
    BY <2>3, <2>4
<1> QED
  BY <1>9, <1>10, <1>11, <1>12, <1>13, <1>14, <1>16, <1>17 DEF IInv, ProcInv

-----------------------------------------------------------------------------
(***************************************************************************)
(* The invariant is inductive.                                             *)
(***************************************************************************)
LEMMA InitHolds == Init => IInv
<1> SUFFICES ASSUME Init PROVE IInv
  OBVIOUS
<1> USE ExtensionCallsAssumption
<1>1. /\ obj \in Seq(Obj) /\ child \in Seq(Child) /\ Len(obj) = 0 /\ Len(child) = 0
      /\ DOMAIN obj = {} /\ DOMAIN child = {}
  BY DEF Init
<1>2. NewCall \in CallRec /\ NewCall.pc = "new" /\ NewCall.obj = 0 /\ NewCall.child = 0
  BY DEF NewCall, CallRec, CallPcs
<1>3. call \in [Calls -> CallRec] /\ \A c \in Calls : call[c] = NewCall
  BY <1>2 DEF Init
<1>4. Shape
  BY <1>1, <1>3 DEF Init, Shape
<1>5. Refs
  BY <1>1, <1>2, <1>3 DEF Init, Refs
<1>6. Streams /\ ProcInv
  BY <1>1 DEF Streams, ProcInv, Owned, Dead, GivenUp, KillKnown
<1>7. CallInv
  BY <1>1, <1>2, <1>3 DEF CallInv, Callbacks, SentOnce, Executed
<1> QED
  BY <1>4, <1>5, <1>6, <1>7 DEF IInv

\* Every step keeps the invariant.
LEMMA NextKeeps == IInv /\ [Next]_vars => IInv'
<1> SUFFICES ASSUME IInv, [Next]_vars PROVE IInv'
  OBVIOUS
<1>1. ASSUME NEW c \in Calls, CallStep(c) PROVE IInv'
  <2>1. CASE \/ GetRunning(c) \/ GetBegins(c) \/ GetVerified(c) \/ GetDenied(c)
             \/ GetForgets(c) \/ GetThrows(c) \/ GetMakes(c) \/ ResetFailures(c)
    BY <2>1, GetSteps
  <2>2. CASE Call(c) \/ CallThrows(c)
    <3>1. CASE isRunning(call[c].obj)
      BY <2>2, <3>1, CallRunningStep
    <3>2. CASE ~isRunning(call[c].obj)
      <4>1. Call(c)
        BY <2>2, <3>2 DEF CallThrows
      <4> QED
        BY <3>2, <4>1, CallSpawnStep
    <3> QED
      BY <3>1, <3>2
  <2>3. CASE SpawnThrows(c)
    BY <2>3, SpawnThrowsStep
  <2>4. CASE Timeout(c)
    <3>1. call[c].obj \in DOMAIN obj /\ Kill(call[c].obj, {c})
      BY <2>4, HaveFacts DEF Timeout
    <3> QED
      BY <3>1, KillStep
  <2> QED
    BY <1>1, <2>1, <2>2, <2>3, <2>4 DEF CallStep
<1>2. ASSUME NEW k \in DOMAIN child,
             \/ TransportStep(k) \/ ExitStep(k) \/ ChildDies(k)
             \/ \E c \in Calls : Receive(k, c)
             \/ \E f \in Frame : Write(k, f)
      PROVE  IInv'
  BY <1>2, TransportSteps, ChildSteps, CountSteps, ExitSeenStep DEF ExitStep
<1>3. ASSUME NEW o \in DOMAIN obj, IdleTimeout(o) PROVE IInv'
  <2>1. Kill(o, {})
    BY <1>3 DEF IdleTimeout
  <2> QED
    BY <2>1, KillStep
<1>4. CASE UNCHANGED vars
  BY <1>4 DEF vars, IInv, Shape, Refs, Streams, CallInv, ProcInv, Callbacks, SentOnce, Executed,
       Owned, Dead, GivenUp, ExitBefore, KillKnown, Respawned
<1> QED
  BY <1>1, <1>2, <1>3, <1>4 DEF Next

\* The invariant holds in every reachable state.
THEOREM Inductive == Spec => []IInv
  BY InitHolds, NextKeeps, PTL DEF Spec

-----------------------------------------------------------------------------
(***************************************************************************)
(* The properties.                                                         *)
(***************************************************************************)
\* Indices name objects and children that exist, and an open stream lacks a
\* chunk: the state of registry, ExtensionProcess and JsonRpcTransport is well
\* formed in every behaviour.
THEOREM TypeCorrect == Spec => []TypeOK
<1>1. IInv => TypeOK
  <2> SUFFICES ASSUME IInv PROVE TypeOK
    OBVIOUS
  <2>1. /\ obj \in Seq(Obj) /\ child \in Seq(Child) /\ Len(obj) \in Nat /\ Len(child) \in Nat
        /\ call \in [Calls -> CallRec]
    BY DEF IInv, Shape
  <2>2. ASSUME NEW o \in DOMAIN obj
        PROVE  obj[o] \in [child : 0 .. Len(child), killed : BOOLEAN, timer : BOOLEAN]
    <3>1. obj[o] \in Obj /\ obj[o].child \in 0 .. Len(child)
      BY <2>1 DEF IInv, Refs
    <3> QED
      BY <3>1 DEF Obj
  <2>3. ASSUME NEW k \in DOMAIN child
        PROVE  /\ child[k].obj \in DOMAIN obj
               /\ {child[k].alive, child[k].killed, child[k].reading} \subseteq BOOLEAN
               /\ child[k].exit \in {"none", "counting", "disabling", "done"}
               /\ child[k].late \subseteq Calls /\ child[k].callbacks \subseteq Calls
               /\ child[k].inbox \subseteq Calls /\ child[k].got \subseteq Calls
               /\ \A i \in DOMAIN child[k].pipe : child[k].pipe[i] \in Frame
               /\ \A c \in Calls : Open(child[k].streams[c])
    <3>1. child[k] \in Child /\ child[k].pipe \in Seq(Frame)
      BY <2>1, ChildTypes
    <3>2. child[k].obj \in DOMAIN obj /\ \A c \in Calls : Open(child[k].streams[c])
      BY DEF IInv, Refs, Streams
    <3>3. {child[k].alive, child[k].killed, child[k].reading} \subseteq BOOLEAN
      BY <3>1 DEF Child
    <3>4. \A i \in DOMAIN child[k].pipe : child[k].pipe[i] \in Frame
      BY <3>1
    <3> QED
      BY <2>1, <3>2, <3>3, <3>4, ChildTypes DEF ExitPcs
  <2>4. call \in [Calls -> [pc : CallPcs, obj : 0 .. Len(obj), child : 0 .. Len(child)]]
    <3>1. \A c \in Calls : call[c].obj \in 0 .. Len(obj) /\ call[c].child \in 0 .. Len(child)
      BY DEF IInv, Refs
    <3> QED
      BY <2>1, <3>1 DEF CallRec
  <2> QED
    BY <2>2, <2>3, <2>4 DEF TypeOK, IInv, Shape, Refs, Open
<1> QED
  BY <1>1, Inductive, PTL

\* Whatever happens to a child and its read loop, a caller that waits has its
\* callback in the transport it was sent through, and that transport still
\* reads unless the call was sent after the loop had ended (json-rpc.ts).
THEOREM CallbackNeverLost == Spec => []NoCallbackLost
<1>1. IInv => NoCallbackLost
  BY DEF IInv, CallInv, Callbacks, NoCallbackLost
<1> QED
  BY <1>1, Inductive, PTL

\* A child that runs on without its object was sent a signal to end, or is left
\* behind because the exit of an earlier, killed child of that object was handled
\* after the respawn (subprocess.ts).
THEOREM ChildrenNotForgotten == Spec => []NoChildForgotten
<1>1. IInv => NoChildForgotten
  <2> SUFFICES ASSUME IInv, NEW k \in DOMAIN child, child[k].alive,
                      obj[child[k].obj].child # k, ~child[k].killed
               PROVE  \E j \in 1 .. k - 1 :
                        child[j].obj = child[k].obj /\ child[j].killed /\ child[j].exit # "none"
    BY DEF NoChildForgotten
  <2>1. DOMAIN child = 1 .. Len(child) /\ Len(child) \in Nat
    BY DEF IInv, Shape
  <2>2. ExitBefore(k)
    BY DEF IInv, ProcInv, Dead, GivenUp
  <2> QED
    BY <2>1, <2>2 DEF ExitBefore
<1> QED
  BY <1>1, Inductive, PTL

\* A killed child is counted as a crash only once its object has spawned
\* another child or has failed to (subprocess.ts).
THEOREM KillsNotCounted == Spec => []KillNotCounted
<1>1. IInv => KillNotCounted
  <2> SUFFICES ASSUME IInv, NEW k \in DOMAIN child, child[k].killed,
                      child[k].exit \in {"counting", "disabling"}
               PROVE  \/ \E j \in k + 1 .. Len(child) : child[j].obj = child[k].obj
                      \/ \E c \in Calls : /\ call[c].obj = child[k].obj
                                          /\ call[c].pc = "failed" /\ call[c].child = 0
    BY DEF KillNotCounted
  <2>1. DOMAIN child = 1 .. Len(child) /\ Len(child) \in Nat
    BY DEF IInv, Shape
  <2>2. Respawned(k)
    BY DEF IInv, ProcInv, KillKnown
  <2> QED
    BY <2>1, <2>2 DEF Respawned
<1> QED
  BY <1>1, Inductive, PTL
-----------------------------------------------------------------------------
(***************************************************************************)
(* Every step of the calls and processes is a step of RemoteCall, or none.  *)
(***************************************************************************)
Served == UNION {child[k].got : k \in DOMAIN child}

\* What a caller sees of a call, before and after a step.
LEMMA StatusTable ==
  ASSUME NEW c \in Calls
  PROVE  /\ call[c].pc = "new" => Status(c) = "idle"
         /\ call[c].pc \in {"verifying", "denying", "getting", "have", "waiting", "reset"} =>
              Status(c) = "pending"
         /\ call[c].pc \in {"answered", "failed"} => Status(c) = call[c].pc
         /\ call'[c].pc = "new" => Status(c)' = "idle"
         /\ call'[c].pc \in {"verifying", "denying", "getting", "have", "waiting", "reset"} =>
              Status(c)' = "pending"
         /\ call'[c].pc \in {"answered", "failed"} => Status(c)' = call'[c].pc
         /\ call'[c].pc = call[c].pc => Status(c)' = Status(c)
  BY DEF Status

\* Nothing is received: the executed calls stay the same.
LEMMA NothingServed ==
  ASSUME DOMAIN child \subseteq DOMAIN child',
         \A k \in DOMAIN child : child'[k].got = child[k].got,
         \A k \in DOMAIN child' \ DOMAIN child : child'[k].got = {}
  PROVE  Served' = Served
<1>1. ASSUME NEW c PROVE c \in Served' <=> c \in Served
  BY DEF Served
<1> QED
  BY <1>1

\* A child that receives nothing.
LEMMA GotKept ==
  ASSUME child \in Seq(Child), NEW k \in DOMAIN child, NEW r, NEW F, Becomes(k, r, F),
         "got" \notin F
  PROVE  Served' = Served
<1>1. /\ DOMAIN child' = DOMAIN child /\ child'[k] = r
      /\ \A j \in DOMAIN child : j # k => child'[j] = child[j]
  BY BecomesOthers
<1>2. r.got = child[k].got
  BY DEF Becomes
<1> QED
  BY <1>1, <1>2, NothingServed

\* A frame that is handled serves no request.
LEMMA HandledServes ==
  ASSUME child \in Seq(Child), NEW k \in DOMAIN child,
         NEW c, NEW stream, NEW settled \in BOOLEAN, Handled(k, c, stream, settled)
  PROVE  Served' = Served
<1> DEFINE r == [child[k] EXCEPT !.pipe = Tail(@), !.streams[c] = stream,
                                 !.callbacks = IF settled THEN @ \ {c} ELSE @]
<1>2. child[k] \in Child
  OBVIOUS
<1>3. child' = [child EXCEPT ![k] = r]
  BY DEF Handled
<1>4. r.got = child[k].got
  BY <1>2 DEF Child
<1> HIDE DEF r
<1>5. /\ DOMAIN child' = DOMAIN child
      /\ \A j \in DOMAIN child : child'[j].got = child[j].got
  BY <1>3, <1>4
<1> QED
  BY <1>5, NothingServed

\* The calls in S fail, perhaps none; nothing else is seen.
LEMMA FailSome ==
  ASSUME NEW S \in SUBSET Calls, Served' = Served,
         \A c \in S : Status(c) = "pending" /\ Status(c)' = "failed",
         \A c \in Calls \ S : Status(c)' = Status(c)
  PROVE  [Remote!Next]_Remote!vars
<1>1. CASE S = {}
  BY <1>1 DEF Remote!vars, Served
<1>2. CASE S # {}
  <2>1. Remote!FailAll(S)
    BY <1>2 DEF Remote!FailAll, Served
  <2> QED
    BY <2>1 DEF Remote!Next
<1> QED
  BY <1>1, <1>2

\* Nothing is seen of a step, or that one call fails.
LEMMA Unseen ==
  ASSUME Served' = Served, \A c \in Calls : Status(c)' = Status(c)
  PROVE  [Remote!Next]_Remote!vars
  BY DEF Remote!vars, Served

\* One call fails, and nothing else is seen.
LEMMA FailOne ==
  ASSUME NEW c \in Calls, Served' = Served, Status(c) = "pending", Status(c)' = "failed",
         \A d \in Calls : d # c => Status(d)' = Status(d)
  PROVE  [Remote!Next]_Remote!vars
<1> DEFINE S == {c}
<1>1. S \in SUBSET Calls /\ \A d \in S : d = c
  OBVIOUS
<1>2. \A d \in Calls \ S : d # c
  OBVIOUS
<1> HIDE DEF S
<1> QED
  BY <1>1, <1>2, FailSome

\* One call begins or is refused, is answered, or is executed.
LEMMA OneMoves ==
  ASSUME NEW c \in Calls,
         \/ /\ Status(c) = "idle" /\ Status(c)' \in {"pending", "failed"} /\ Served' = Served
         \/ /\ Status(c) = "pending" /\ c \in Served /\ Status(c)' = "answered"
            /\ Served' = Served
         \/ /\ Status(c) # "idle" /\ c \notin Served /\ Status(c)' = Status(c)
            /\ Served' = Served \cup {c},
         \A d \in Calls : d # c => Status(d)' = Status(d)
  PROVE  Remote!Next
<1>1. CASE Status(c) = "idle" /\ Status(c)' = "pending" /\ Served' = Served
  <2>1. Remote!Begin(c)
    BY <1>1 DEF Remote!Begin, Served
  <2> QED
    BY <2>1 DEF Remote!Next
<1>2. CASE Status(c) = "idle" /\ Status(c)' = "failed" /\ Served' = Served
  <2>1. Remote!Refuse(c)
    BY <1>2 DEF Remote!Refuse, Served
  <2> QED
    BY <2>1 DEF Remote!Next
<1>3. CASE /\ Status(c) = "pending" /\ c \in Served /\ Status(c)' = "answered"
           /\ Served' = Served
  <2>1. Remote!Answer(c)
    BY <1>3 DEF Remote!Answer, Served
  <2> QED
    BY <2>1 DEF Remote!Next
<1>4. CASE /\ Status(c) # "idle" /\ c \notin Served /\ Status(c)' = Status(c)
           /\ Served' = Served \cup {c}
  <2>1. Remote!Serve(c)
    BY <1>4 DEF Remote!Serve, Served
  <2> QED
    BY <2>1 DEF Remote!Next
<1> QED
  BY <1>1, <1>2, <1>3, <1>4

\* Callers are rejected: those that waited have failed.
LEMMA RejectIsRemote ==
  ASSUME call \in [Calls -> CallRec], Served' = Served, UNCHANGED call \/ (\E S : Reject(S))
  PROVE  [Remote!Next]_Remote!vars
<1>1. PICK T \in SUBSET Calls :
        /\ \A c \in T : call[c].pc = "waiting" /\ call'[c].pc = "failed"
        /\ \A c \in Calls \ T : call'[c] = call[c]
  <2>1. CASE UNCHANGED call
    <3>1. {} \in SUBSET Calls /\ \A c \in Calls \ {} : call'[c] = call[c]
      BY <2>1
    <3> QED
      BY <3>1
  <2>2. ASSUME NEW S, Reject(S)
        PROVE  \E T \in SUBSET Calls :
                 /\ \A c \in T : call[c].pc = "waiting" /\ call'[c].pc = "failed"
                 /\ \A c \in Calls \ T : call'[c] = call[c]
    <3> DEFINE T == {c \in Calls : c \in S /\ call[c].pc = "waiting"}
    <3>1. /\ \A c \in T : call[c].pc = "waiting" /\ call'[c].pc = "failed"
          /\ \A c \in Calls \ T : call'[c] = call[c]
      BY <2>2, RejectEffect
    <3> HIDE DEF T
    <3>2. T \in SUBSET Calls
      BY DEF T
    <3> QED
      BY <3>1, <3>2
  <2> QED
    BY <2>1, <2>2
<1>2. \A c \in T : Status(c) = "pending" /\ Status(c)' = "failed"
  BY <1>1, StatusTable
<1>3. \A c \in Calls \ T : Status(c)' = Status(c)
  BY <1>1, StatusTable
<1> QED
  BY <1>2, <1>3, FailSome

\* An object is killed: callers fail.
LEMMA KillIsRemote ==
  ASSUME IInv, NEW o \in DOMAIN obj, NEW S, Kill(o, S)
  PROVE  [Remote!Next]_Remote!vars
<1>0. /\ call \in [Calls -> CallRec] /\ child \in Seq(Child) /\ DOMAIN child = 1 .. Len(child)
      /\ \A j \in DOMAIN child : child[j] \in Child
  BY DEF IInv, Shape
<1>1. obj[o].child # 0 => obj[o].child \in DOMAIN child
  BY <1>0 DEF IInv, Refs, Shape
<1>2. Served' = Served
  <2>1. CASE obj[o].child = 0
    BY <2>1 DEF Kill, Served
  <2>2. CASE obj[o].child # 0
    <3>1. PICK k \in DOMAIN child : obj[o].child = k
      BY <1>1, <2>2
    <3>2. \E r : Becomes(k, r, {"killed", "callbacks", "streams"})
      BY <1>0, <3>1, KillEffect
    <3> QED
      BY <1>0, <3>2, GotKept
  <2> QED
    BY <2>1, <2>2
<1>3. \E T : Reject(T)
  BY DEF Kill
<1> QED
  BY <1>0, <1>2, <1>3, RejectIsRemote

\* A step of a call, as its caller sees it.
LEMMA CallIsRemote ==
  ASSUME IInv, NEW c \in Calls, CallStep(c)
  PROVE  [Remote!Next]_Remote!vars
<1>0. /\ call \in [Calls -> CallRec] /\ call[c] \in CallRec
      /\ child \in Seq(Child) /\ DOMAIN child = 1 .. Len(child) /\ Len(child) \in Nat
      /\ \A k \in DOMAIN child : child[k] \in Child
  BY DEF IInv, Shape
<1>1. ASSUME UNCHANGED child PROVE Served' = Served
  BY <1>1 DEF Served
<1>2. ASSUME NEW x \in CallPcs, call' = [call EXCEPT ![c].pc = x]
      PROVE  call'[c].pc = x /\ \A d \in Calls : d # c => Status(d)' = Status(d)
  <2>1. call'[c].pc = x /\ \A d \in Calls : d # c => call'[d] = call[d]
    BY <1>0, <1>2 DEF CallRec
  <2> QED
    BY <2>1, StatusTable
<1>3. CASE GetRunning(c)
  <2>1. call[c].pc = "new" /\ UNCHANGED child
    BY <1>3 DEF GetRunning
  <2>2. call'[c].pc = "have" /\ \A d \in Calls : d # c => call'[d] = call[d]
    BY <1>0, <1>3 DEF GetRunning, CallRec
  <2> QED
    BY <1>1, <2>1, <2>2, StatusTable, OneMoves
<1>4. CASE GetBegins(c)
  <2>1. call[c].pc = "new" /\ UNCHANGED child
    BY <1>4 DEF GetBegins
  <2>2. PICK x \in {"failed", "getting", "verifying"} : call' = [call EXCEPT ![c].pc = x]
    BY <1>4 DEF GetBegins
  <2>3. call'[c].pc = x /\ \A d \in Calls : d # c => Status(d)' = Status(d)
    BY <1>2, <2>2 DEF CallPcs
  <2> QED
    BY <1>1, <2>1, <2>3, StatusTable, OneMoves
<1>5. CASE GetVerified(c) \/ GetDenied(c)
  <2>1. call[c].pc = "verifying" /\ UNCHANGED child
    BY <1>5 DEF GetVerified, GetDenied
  <2>2. /\ call'[c].pc \in {"getting", "denying"}
        /\ \A d \in Calls : d # c => Status(d)' = Status(d)
    BY <1>2, <1>5 DEF GetVerified, GetDenied, CallPcs
  <2>3. \A d \in Calls : Status(d)' = Status(d)
    BY <2>1, <2>2, StatusTable
  <2> QED
    BY <1>1, <2>1, <2>3, Unseen
<1>6. CASE GetMakes(c)
  <2>1. call[c].pc = "getting" /\ UNCHANGED child
    BY <1>6 DEF GetMakes
  <2>2. call'[c].pc = "have" /\ \A d \in Calls : d # c => call'[d] = call[d]
    BY <1>0, <1>6 DEF GetMakes, CallRec
  <2>3. \A d \in Calls : Status(d)' = Status(d)
    BY <2>1, <2>2, StatusTable
  <2> QED
    BY <1>1, <2>1, <2>3, Unseen
<1>7. CASE GetForgets(c) \/ GetThrows(c) \/ SpawnThrows(c)
  <2>1. call[c].pc \in {"verifying", "denying", "getting", "have"} /\ UNCHANGED child
    BY <1>7 DEF GetForgets, GetThrows, SpawnThrows
  <2>2. call'[c].pc = "failed" /\ \A d \in Calls : d # c => Status(d)' = Status(d)
    BY <1>2, <1>7 DEF GetForgets, GetThrows, SpawnThrows, CallPcs
  <2>3. Status(c) = "pending" /\ Status(c)' = "failed"
    BY <2>1, <2>2, StatusTable
  <2> QED
    BY <1>1, <2>1, <2>2, <2>3, FailOne
<1>8. CASE Call(c) \/ CallThrows(c)
  <2>1. Served' = Served
    <3>1. CASE isRunning(call[c].obj)
      <4> DEFINE k == obj[call[c].obj].child
      <4>1. k \in DOMAIN child /\ child[k] \in Child
        BY <1>0, <1>8, <3>1, HaveFacts DEF Call, CallThrows
      <4>2. CASE Call(c)
        <5> DEFINE r == Sent(child[k], c)
        <5>1. child' = [child EXCEPT ![k] = r]
          BY <3>1, <4>2 DEF Call
        <5>2. r.got = child[k].got
          BY <4>1, SentEffect
        <5> HIDE DEF r, k
        <5>3. \A j \in DOMAIN child : child'[j].got = child[j].got
          BY <1>0, <4>1, <5>1, <5>2
        <5>4. DOMAIN child' = DOMAIN child
          BY <5>1
        <5> QED
          BY <5>3, <5>4, NothingServed
      <4>3. CASE CallThrows(c)
        <5>1. child' = [child EXCEPT ![k].callbacks = @ \cup {c}]
          BY <4>3 DEF CallThrows
        <5> HIDE DEF k
        <5>2. \A j \in DOMAIN child : child'[j].got = child[j].got
          BY <1>0, <4>1, <5>1 DEF Child
        <5>3. DOMAIN child' = DOMAIN child
          BY <5>1
        <5> QED
          BY <5>2, <5>3, NothingServed
      <4> QED
        BY <1>8, <4>2, <4>3
    <3>2. CASE ~isRunning(call[c].obj)
      <4> DEFINE o == call[c].obj
                 r == Sent(NewChild(o), c)
      <4>1. child' = Append(child, r)
        BY <1>8, <3>2 DEF Call, CallThrows
      <4>2. r.got = {}
        <5>1. o \in Nat
          BY <1>0 DEF CallRec
        <5> HIDE DEF o
        <5>2. NewChild(o) \in Child /\ NewChild(o).got = {}
          BY <5>1, NewChildEffect
        <5> QED
          BY <5>2, SentEffect
      <4> HIDE DEF r
      <4>3. /\ DOMAIN child' = 1 .. Len(child) + 1 /\ child'[Len(child) + 1] = r
            /\ \A j \in DOMAIN child : child'[j] = child[j]
        BY <1>0, <4>1
      <4>4. DOMAIN child \subseteq DOMAIN child' /\ DOMAIN child' \ DOMAIN child = {Len(child) + 1}
        BY <1>0, <4>3
      <4> QED
        BY <4>2, <4>3, <4>4, NothingServed
    <3> QED
      BY <3>1, <3>2
  <2>2. call[c].pc = "have"
    BY <1>8 DEF Call, CallThrows
  <2>3. call'[c].pc \in {"waiting", "failed"} /\ \A d \in Calls : d # c => call'[d] = call[d]
    BY <1>0, <1>8 DEF Call, CallThrows, CallRec
  <2>4. CASE call'[c].pc = "waiting"
    <3>1. \A d \in Calls : Status(d)' = Status(d)
      BY <2>2, <2>3, <2>4, StatusTable
    <3> QED
      BY <2>1, <3>1, Unseen
  <2>5. CASE call'[c].pc = "failed"
    <3>1. Status(c) = "pending" /\ Status(c)' = "failed" /\ \A d \in Calls : d # c => Status(d)' = Status(d)
      BY <2>2, <2>3, <2>5, StatusTable
    <3> QED
      BY <2>1, <3>1, FailOne
  <2> QED
    BY <2>3, <2>4, <2>5
<1>9. CASE ResetFailures(c)
  <2>1. call[c].pc = "reset" /\ UNCHANGED child
    BY <1>9 DEF ResetFailures
  <2>2. call'[c].pc = "answered" /\ \A d \in Calls : d # c => Status(d)' = Status(d)
    BY <1>2, <1>9 DEF ResetFailures, CallPcs
  <2>3. c \in Served
    BY <2>1 DEF IInv, CallInv, Executed, Served
  <2> QED
    BY <1>1, <2>1, <2>2, <2>3, StatusTable, OneMoves
<1>10. CASE Timeout(c)
  <2>1. call[c].obj \in DOMAIN obj /\ Kill(call[c].obj, {c})
    BY <1>10, HaveFacts DEF Timeout
  <2> QED
    BY <2>1, KillIsRemote
<1> QED
  BY <1>3, <1>4, <1>5, <1>6, <1>7, <1>8, <1>9, <1>10 DEF CallStep

\* A step of a child, its transport or its exit, as the callers see it.
LEMMA ChildIsRemote ==
  ASSUME IInv, NEW k \in DOMAIN child,
         \/ TransportStep(k) \/ ExitStep(k) \/ ChildDies(k)
         \/ \E c \in Calls : Receive(k, c)
         \/ \E f \in Frame : Write(k, f)
  PROVE  [Remote!Next]_Remote!vars
<1>0. /\ call \in [Calls -> CallRec] /\ child \in Seq(Child) /\ DOMAIN child = 1 .. Len(child)
      /\ Len(child) \in Nat
      /\ \A j \in DOMAIN child : child[j] \in Child
  BY DEF IInv, Shape
<1>1. CASE TransportStep(k) /\ (UNCHANGED call \/ (\E S : Reject(S)))
  <2>1. Served' = Served
    <3>1. CASE ReadLoopEnds(k)
      <4>1. StopReading(k)
        BY <3>1 DEF ReadLoopEnds
      <4> QED
        BY <1>0, <4>1, StopReadingEffect, GotKept
    <3>2. CASE HandleLine(k) \/ HandleAnnounce(k) \/ HandleChunk(k) \/ HandleCancel(k)
      <4>1. \E c, stream : Handled(k, c, stream, TRUE) \/ Handled(k, c, stream, FALSE)
        BY <3>2 DEF HandleLine, HandleAnnounce, HandleChunk, HandleCancel
      <4> QED
        BY <1>0, <4>1, HandledServes
    <3> QED
      BY <1>1, <3>1, <3>2 DEF TransportStep
  <2> QED
    BY <1>0, <1>1, <2>1, RejectIsRemote
<1>2. CASE HandleLine(k) \/ (\E c \in Calls : HandleChunk(k) /\ Resolve(k, c))
  <2>1. \E c, stream : Handled(k, c, stream, TRUE) \/ Handled(k, c, stream, FALSE)
    BY <1>2 DEF HandleLine, HandleChunk
  <2>2. Served' = Served
    BY <1>0, <2>1, HandledServes
  <2>3. PICK c : Resolve(k, c)
    BY <1>2 DEF HandleLine
  <2>4. \A d \in Calls : \/ call'[d] = call[d]
                         \/ call[d].pc = "waiting" /\ call'[d].pc = "reset"
    BY <1>0, <2>3 DEF Resolve, CallRec
  <2>5. \A d \in Calls : Status(d)' = Status(d)
    BY <2>4, StatusTable
  <2> QED
    BY <2>2, <2>5, Unseen
<1>3. CASE ExitStep(k) \/ ChildDies(k) \/ (\E f \in Frame : Write(k, f))
  <2>1. Served' = Served
    <3>1. CASE ExitStep(k)
      <4>1. PICK x \in ExitPcs : child' = [child EXCEPT ![k].exit = x]
        BY <3>1 DEF ExitStep, ExitSeen, CountFailure, DisableExtension, ExitPcs
      <4> QED
        BY <1>0, <4>1, ChildEffects, GotKept
    <3>2. CASE ChildDies(k) \/ (\E f \in Frame : Write(k, f))
      BY <1>0, <3>2, ChildEffects, GotKept
    <3> QED
      BY <1>3, <3>1, <3>2
  <2>2. Served' = Served /\ UNCHANGED call
    BY <1>3, <2>1 DEF ExitStep, ExitSeen, CountFailure, DisableExtension, ChildDies, Write
  <2>3. \A d \in Calls : Status(d)' = Status(d)
    BY <2>2, StatusTable
  <2> QED
    BY <2>2, <2>3, Unseen
<1>4. ASSUME NEW c \in Calls, Receive(k, c) PROVE [Remote!Next]_Remote!vars
  <2>1. /\ DOMAIN child' = DOMAIN child /\ child'[k].got = child[k].got \cup {c}
        /\ \A j \in DOMAIN child : j # k => child'[j].got = child[j].got
    BY <1>0, <1>4 DEF Receive, Child
  <2>2. Served' = Served \cup {c}
    BY <2>1 DEF Served
  <2>3. call[c].child = k /\ call[c].pc # "new"
    <3>0. c \in child[k].inbox
      BY <1>4 DEF Receive
    <3>1. c \in child[k].inbox /\ k # 0
      BY <1>0, <3>0
    <3>2. call[c].child = k
      BY <3>1 DEF IInv, CallInv, SentOnce
    <3> QED
      BY <3>1, <3>2 DEF IInv, CallInv, SentOnce
  <2>4. c \notin Served
    <3>1. c \in child[k].inbox
      BY <1>4 DEF Receive
    <3>2. c \notin child[k].got
      BY <3>1 DEF IInv, CallInv, SentOnce
    <3>3. \A j \in DOMAIN child : c \in child[j].got => j = k
      BY <2>3 DEF IInv, CallInv, SentOnce
    <3> QED
      BY <3>2, <3>3 DEF Served
  <2>5. \A d \in Calls : Status(d)' = Status(d)
    BY <1>4, StatusTable DEF Receive
  <2>6. Status(c) # "idle"
    <3>1. call[c].pc \in CallPcs
      BY <1>0 DEF CallRec
    <3> QED
      BY <2>3, <3>1, StatusTable DEF CallPcs
  <2> QED
    BY <2>2, <2>4, <2>5, <2>6, OneMoves
<1>5. ASSUME TransportStep(k)
      PROVE  \/ UNCHANGED call \/ (\E S : Reject(S)) \/ HandleLine(k)
             \/ (\E c \in Calls : HandleChunk(k) /\ Resolve(k, c))
  <2>1. ASSUME HandleChunk(k) PROVE Head(child[k].pipe).call \in Calls
    <3>1. child[k].pipe \in Seq(Frame) /\ child[k].pipe # <<>>
      BY <1>0, <2>1, ChildTypes DEF HandleChunk
    <3>2. Head(child[k].pipe) \in Frame
      BY <3>1
    <3> QED
      BY <3>2 DEF Frame
  <2>2. ASSUME HandleChunk(k)
        PROVE  UNCHANGED call \/ (\E S : Reject(S)) \/ Resolve(k, Head(child[k].pipe).call)
    BY <2>2 DEF HandleChunk
  <2> QED
    BY <1>5, <2>1, <2>2 DEF TransportStep, HandleAnnounce, HandleCancel, ReadLoopEnds, StopReading
<1> QED
  BY <1>1, <1>2, <1>3, <1>4, <1>5

\* A call to an extension is executed at most once, is answered only if it was
\* executed, and settles once: every step of registry, process objects, children
\* and transports is a step of RemoteCall or is not seen by the callers.
THEOREM CallsRefineRemote == Spec => Remote!Init /\ [][Remote!Next]_Remote!vars
<1>1. Init => Remote!Init
  <2> SUFFICES ASSUME Init PROVE Remote!Init
    OBVIOUS
  <2>1. \A c \in Calls : call[c].pc = "new"
    BY DEF Init, NewCall
  <2>2. \A c \in Calls : Status(c) = "idle"
    BY <2>1, StatusTable
  <2>3. DOMAIN child = {}
    BY DEF Init
  <2> QED
    BY <2>2, <2>3 DEF Remote!Init
<1>2. IInv /\ [Next]_vars => [Remote!Next]_Remote!vars
  <2> SUFFICES ASSUME IInv, [Next]_vars PROVE [Remote!Next]_Remote!vars
    OBVIOUS
  <2>1. ASSUME NEW o \in DOMAIN obj, IdleTimeout(o) PROVE [Remote!Next]_Remote!vars
    <3>1. Kill(o, {})
      BY <2>1 DEF IdleTimeout
    <3> QED
      BY <3>1, KillIsRemote
  <2>2. CASE UNCHANGED vars
    BY <2>2 DEF vars, Remote!vars, Status
  <2> QED
    BY <2>1, <2>2, CallIsRemote, ChildIsRemote DEF Next
<1> QED
  BY <1>1, <1>2, Inductive, PTL DEF Spec
=============================================================================
