------------------------- MODULE EmbedOutboxProofs -------------------------
(***************************************************************************)
(* Proofs about EmbedOutbox, for any number of messages, chunks, attempts,   *)
(* edits, backfills, faults and restarts.                                    *)
(***************************************************************************)
EXTENDS EmbedOutbox, FiniteSetTheorems, TLAPS

-----------------------------------------------------------------------------
(***************************************************************************)
(* The shape of the state.                                                 *)
(***************************************************************************)
RowRec   == [status : Statuses, attempts : 0 .. MaxAttempts, backoff : BOOLEAN]
ChunkRec == [ver : 0 .. MaxVersion, part : 1 .. Parts, model : 0 .. MaxCrashes]
JobRec   == [message : Messages, attempts : 0 .. MaxAttempts]
CurRec   == [message : Messages, attempts : 0 .. MaxAttempts, ver : 0 .. MaxVersion,
             part : 1 .. Parts]

MessagesOK ==
  /\ exists \in [Messages -> {"unborn", "live", "gone"}]
  /\ text \in [Messages -> 0 .. MaxVersion] /\ version \in 0 .. MaxVersion
  /\ blanks \in 0 .. MaxBlanks

TablesOK ==
  /\ row \in [Messages -> RowRec] /\ fifo \in Seq(Messages)
  /\ chunks \in [Messages -> SUBSET ChunkRec]

WorkerOK ==
  /\ model \in 0 .. MaxCrashes /\ pc \in {"down", "idle", "claim", "drain"} \cup AfterRead
  /\ ready \in BOOLEAN /\ degraded \in BOOLEAN
  /\ batch \in SUBSET JobRec
  /\ faults \in 0 .. MaxFaults /\ crashes \in 0 .. MaxCrashes

ScriptOK ==
  /\ script \in {"off", "gaps", "stale"} /\ page \in SUBSET Messages
  /\ scripts \in 0 .. MaxScripts

ObserversOK ==
  /\ race \in [Messages -> {"no", "claimed", "read", "cloned"}] /\ tries \in [Messages -> Nat]
  /\ orphaned \in BOOLEAN

Shape == MessagesOK /\ TablesOK /\ WorkerOK /\ ScriptOK /\ ObserversOK

-----------------------------------------------------------------------------
(***************************************************************************)
(* The inductive invariant.                                                *)
(***************************************************************************)
\* The worker has claimed rows only within a tick, each message once, and a
\* row in hand only while it drains it; what it claimed may be tried again.
Hands ==
  /\ pc \in {"down", "idle", "claim"} => batch = {}
  /\ pc \notin AfterRead => cur = NoJob
  /\ pc \in AfterRead => /\ cur \in CurRec /\ cur.attempts < MaxAttempts
                         /\ \A job \in batch : job.message # cur.message
  /\ pc \in {"embedding", "deleting"} => cur.part = 1
  /\ \A job \in batch : job.attempts < MaxAttempts
  /\ \A j, k \in batch : j.message = k.message => j = k

\* A row counts the attempts left to it; only messages that exist have rows and
\* chunks, and only messages that existed were claimed; a clone is in nobody's hands.
Rows(m) ==
  /\ row[m].status = "failed" <=> row[m].attempts >= MaxAttempts
  /\ exists[m] # "live" => row[m].status = "none" /\ chunks[m] = {}
  /\ exists[m] = "unborn" => ~Claimed(m) /\ text[m] = 0 /\ race[m] # "cloned"
  /\ race[m] = "cloned" => row[m].status = "none" /\ ~Claimed(m) /\ chunks[m] = {}

Owned(m) == row[m].status = "in_progress" => Claimed(m) \/ pc = "down" \/ orphaned

\* A claimed message keeps its row as long as only the worker may delete it.
Kept(m) ==
  /\ Claimed(m) /\ exists[m] = "live"
  /\ race[m] = "no" \/ (race[m] = "claimed" /\ text[m] > 0)
  => HasRow(m)

\* No attempt is counted that was not made since the message was enqueued.
Counted(m) ==
  race[m] = "no" =>
    /\ row[m].attempts <= tries[m]
    /\ \A job \in batch : job.message = m => job.attempts <= tries[m]
    /\ Draining(m) => cur.attempts <= tries[m]

\* The first n chunks of text v.
FirstParts(v, n, mod) == [ver : {v}, part : 1 .. n, model : {mod}]

\* While a message is drained and not written, the worker has its text, and its
\* chunks are those inserted so far.
Drained(m) ==
  Draining(m) =>
    /\ pc = "inserting" => chunks[m] \subseteq FullIndex(cur.ver, model)
    /\ race[m] # "read" =>
         /\ pc \in {"embedding", "deleting", "inserting", "done"} =>
              cur.ver = text[m] /\ text[m] > 0
         /\ pc = "dropping" => ~Eligible(m)
         /\ exists[m] = "live" /\ pc = "inserting" =>
              chunks[m] = FirstParts(cur.ver, cur.part - 1, model)
         /\ exists[m] = "live" /\ pc = "done" => chunks[m] = FullIndex(cur.ver, model)

Agrees(m) ==
  race[m] # "read" =>
    /\ Eligible(m) => HasRow(m) \/ Indexed(m) \/ race[m] = "cloned"
    /\ ~Eligible(m) => chunks[m] = {}

OneText(m) ==
  \E v \in 0 .. MaxVersion, mod \in 0 .. MaxCrashes : chunks[m] \subseteq FullIndex(v, mod)

Message(m) == /\ Rows(m) /\ Owned(m) /\ Kept(m) /\ Counted(m)
              /\ Drained(m) /\ Agrees(m) /\ OneText(m)

IInv == Shape /\ Hands /\ \A m \in Messages : Message(m)

-----------------------------------------------------------------------------
(***************************************************************************)
(* What the operations change.                                             *)
(***************************************************************************)
\* The rows that the outbox writes.
LEMMA RowFacts ==
  /\ NoRow \in RowRec /\ NoRow.status = "none" /\ NoRow.attempts = 0
  /\ FreshRow \in RowRec /\ FreshRow.status = "pending" /\ FreshRow.attempts = 0
  BY EmbedAssumption DEF NoRow, FreshRow, RowRec, Statuses

\* The order of the rows stays an order of messages.
LEMMA FifoTyped ==
  ASSUME fifo \in Seq(Messages), NEW m \in Messages
  PROVE  Queued(m) \in Seq(Messages) /\ Dequeued(m) \in Seq(Messages)
<1>1. Queued(m) \in Seq(Messages)
  BY DEF Queued
<1>2. CASE \E i \in DOMAIN fifo : fifo[i] = m
  <2> DEFINE i == CHOOSE i \in DOMAIN fifo : fifo[i] = m
  <2>1. i \in DOMAIN fifo /\ DOMAIN fifo = 1 .. Len(fifo) /\ Len(fifo) \in Nat
    BY <1>2
  <2>2. Dequeued(m) = SubSeq(fifo, 1, i - 1) \o SubSeq(fifo, i + 1, Len(fifo))
    BY <1>2 DEF Dequeued
  <2> HIDE DEF i
  <2>3. /\ SubSeq(fifo, 1, i - 1) \in Seq(Messages)
        /\ SubSeq(fifo, i + 1, Len(fifo)) \in Seq(Messages)
    BY <2>1
  <2> QED
    BY <1>1, <2>2, <2>3
<1>3. CASE ~ \E i \in DOMAIN fifo : fifo[i] = m
  BY <1>1, <1>3 DEF Dequeued
<1> QED
  BY <1>2, <1>3

\* Message m is enqueued.
LEMMA EnqueueEffect ==
  ASSUME TablesOK, ObserversOK, NEW m \in Messages, enqueueEmbedJob(m)
  PROVE  /\ row' \in [Messages -> RowRec] /\ fifo' \in Seq(Messages)
         /\ tries' \in [Messages -> Nat] /\ tries'[m] = 0
         /\ row'[m].status = "pending" /\ row'[m].attempts = 0
         /\ \A n \in Messages : n # m => row'[n] = row[n] /\ tries'[n] = tries[n]
  BY RowFacts, FifoTyped DEF TablesOK, ObserversOK, enqueueEmbedJob

\* The row of message m is deleted.
LEMMA MarkDoneEffect ==
  ASSUME TablesOK, NEW m \in Messages, markDone(m)
  PROVE  /\ row' \in [Messages -> RowRec] /\ fifo' \in Seq(Messages)
         /\ row'[m].status = "none" /\ row'[m].attempts = 0
         /\ \A n \in Messages : n # m => row'[n] = row[n]
  BY RowFacts, FifoTyped DEF TablesOK, markDone

\* The row of message m is written back with one more attempt, if it exists.
LEMMA MarkFailedEffect ==
  ASSUME TablesOK, NEW m \in Messages, NEW a \in 0 .. MaxAttempts, markFailed(m, a)
  PROVE  /\ row' \in [Messages -> RowRec]
         /\ \A n \in Messages : n # m => row'[n] = row[n]
         /\ ~HasRow(m) => row'[m] = row[m]
         /\ HasRow(m) => /\ row'[m].attempts = a
                         /\ row'[m].status = IF a >= MaxAttempts THEN "failed" ELSE "pending"
<1> DEFINE r == IF ~HasRow(m) THEN row[m]
                ELSE [status |-> IF a >= MaxAttempts THEN "failed" ELSE "pending",
                      attempts |-> a, backoff |-> a < MaxAttempts]
<1>1. row' = [row EXCEPT ![m] = r]
  BY DEF markFailed, TablesOK
<1>2. r \in RowRec
  BY EmbedAssumption DEF TablesOK, RowRec, Statuses
<1>3. /\ ~HasRow(m) => r = row[m]
      /\ HasRow(m) => /\ r.attempts = a
                      /\ r.status = IF a >= MaxAttempts THEN "failed" ELSE "pending"
  OBVIOUS
<1> HIDE DEF r
<1> QED
  BY <1>1, <1>2, <1>3 DEF TablesOK

-----------------------------------------------------------------------------
(***************************************************************************)
(* What keeps the parts of the invariant.                                  *)
(***************************************************************************)
\* Nothing of message n changes, its backoff apart.
Same(n) == /\ exists'[n] = exists[n] /\ text'[n] = text[n]
           /\ row'[n].status = row[n].status /\ row'[n].attempts = row[n].attempts
           /\ chunks'[n] = chunks[n] /\ race'[n] = race[n] /\ tries'[n] = tries[n]

\* The worker's hands are left alone.
HandsRest == UNCHANGED <<pc, batch, cur, model, orphaned>>

\* A message that nothing happens to, while the worker rests.
LEMMA SameRests ==
  ASSUME IInv, NEW n \in Messages, Same(n), HandsRest
  PROVE  Message(n)'
<1>1. Message(n)
  BY DEF IInv
<1>2. Rows(n)' /\ Owned(n)' /\ Kept(n)'
  BY <1>1 DEF Message, Rows, Owned, Kept, Same, HandsRest, Claimed, Draining, HasRow
<1>3. Counted(n)'
  BY <1>1 DEF Message, Counted, Same, HandsRest, Draining
<1>4. Drained(n)'
  BY <1>1 DEF Message, Drained, Same, HandsRest, Draining, Eligible, FullIndex, FirstParts
<1>5. Agrees(n)' /\ OneText(n)'
  BY <1>1 DEF Message, Agrees, OneText, Same, Eligible, HasRow, Indexed, FullIndex
<1> QED
  BY <1>2, <1>3, <1>4, <1>5 DEF Message

\* A message that nothing happens to and that the worker does not drain after a
\* step that claims nothing.
LEMMA SameLeft ==
  ASSUME IInv, NEW n \in Messages, Same(n), ~Draining(n)',
         Claimed(n)' => Claimed(n), batch' \subseteq batch,
         Claimed(n) \/ pc = "down" \/ orphaned =>
           Claimed(n)' \/ pc' = "down" \/ orphaned' \/ row[n].status # "in_progress"
  PROVE  Message(n)'
<1>1. Message(n)
  BY DEF IInv
<1>2. Rows(n)' /\ Owned(n)' /\ Kept(n)'
  BY <1>1 DEF Message, Rows, Owned, Kept, Same, HasRow
<1>3. Counted(n)'
  BY <1>1 DEF Message, Counted, Same
<1>4. Drained(n)'
  BY DEF Drained
<1>5. Agrees(n)' /\ OneText(n)'
  BY <1>1 DEF Message, Agrees, OneText, Same, Eligible, HasRow, Indexed, FullIndex
<1> QED
  BY <1>2, <1>3, <1>4, <1>5 DEF Message

\* The hands stay as they are.
LEMMA HandsKept ==
  ASSUME IInv, HandsRest
  PROVE  Hands'
  BY DEF IInv, Hands, HandsRest

\* What is known of a message.
LEMMA MessageFacts ==
  ASSUME IInv, NEW m \in Messages
  PROVE  /\ row[m] \in RowRec /\ row[m].status \in Statuses /\ row[m].attempts \in Nat
         /\ row[m].attempts \in 0 .. MaxAttempts
         /\ exists[m] \in {"unborn", "live", "gone"} /\ text[m] \in 0 .. MaxVersion
         /\ text[m] \in Nat /\ tries[m] \in Nat
         /\ race[m] \in {"no", "claimed", "read", "cloned"}
         /\ Claimed(m) => race[m] \in {"no", "claimed", "read"}
         /\ chunks[m] \in SUBSET ChunkRec /\ Message(m)
<1>1. /\ row[m] \in RowRec /\ exists[m] \in {"unborn", "live", "gone"}
      /\ text[m] \in 0 .. MaxVersion /\ tries[m] \in Nat
      /\ race[m] \in {"no", "claimed", "read", "cloned"}
      /\ chunks[m] \in SUBSET ChunkRec /\ Message(m)
  BY DEF IInv, Shape, MessagesOK, TablesOK, ObserversOK
<1>2. row[m].status \in Statuses /\ row[m].attempts \in 0 .. MaxAttempts
  BY <1>1 DEF RowRec
<1>3. Claimed(m) => race[m] # "cloned"
  BY <1>1 DEF Message, Rows
<1> QED
  BY <1>1, <1>2, <1>3, EmbedAssumption

-----------------------------------------------------------------------------
(***************************************************************************)
(* Messages and the backfill script.                                       *)
(***************************************************************************)
\* Message m is enqueued while the worker rests: a claim of it, and the chunks
\* of an old text, are accounted for.
Enqueued(m) ==
  /\ HandsRest
  /\ row'[m].status = "pending" /\ row'[m].attempts = 0 /\ tries'[m] = 0
  /\ exists'[m] = "live" /\ chunks'[m] = chunks[m] /\ text'[m] \in Nat
  /\ race'[m] # "cloned" /\ (race'[m] = "no" => ~Claimed(m))
  /\ Draining(m) /\ race'[m] # "read" =>
       text'[m] = text[m] /\ race[m] # "read" /\ exists[m] = "live"
  /\ race'[m] # "read" /\ text'[m] = 0 => chunks[m] = {}

\* An enqueued message keeps its part of the invariant.
LEMMA EnqueuedKeeps ==
  ASSUME IInv, NEW m \in Messages, Enqueued(m)
  PROVE  Message(m)'
<1>0. Message(m) /\ MaxAttempts \in Nat \ {0}
  BY EmbedAssumption DEF IInv
<1>1. Claimed(m)' <=> Claimed(m)
  BY DEF Enqueued, HandsRest, Claimed, Draining
<1>2. Rows(m)' /\ Owned(m)' /\ Kept(m)'
  BY <1>0, <1>1 DEF Enqueued, Rows, Owned, Kept, HasRow
<1>3. Counted(m)'
  BY <1>1 DEF Enqueued, Counted, HandsRest, Claimed, Draining
<1>4. Drained(m)'
  <2>1. Drained(m)
    BY <1>0 DEF Message
  <2> QED
    BY <2>1 DEF Drained, Enqueued, HandsRest, Draining, Eligible, FullIndex, FirstParts
<1>5. Agrees(m)' /\ OneText(m)'
  BY <1>0 DEF Message, Agrees, OneText, Enqueued, HasRow, Eligible, FullIndex
<1> QED
  BY <1>2, <1>3, <1>4, <1>5 DEF Message

\* A message is created.
LEMMA CreateStep ==
  ASSUME IInv, NEW m \in Messages, NEW indexable \in BOOLEAN, CreateMessage(m, indexable)
  PROVE  IInv'
<1> USE EmbedAssumption DEF workerVars, scriptVars
<1>0. /\ Message(m) /\ MessagesOK /\ TablesOK /\ WorkerOK /\ ScriptOK /\ ObserversOK
      /\ exists[m] = "unborn"
  BY DEF IInv, Shape, CreateMessage
<1>1. /\ HandsRest /\ UNCHANGED <<chunks, ready, degraded, script, page, scripts, faults, crashes, race>>
      /\ exists' = [exists EXCEPT ![m] = "live"]
  BY DEF CreateMessage, HandsRest
<1>2. /\ ~Claimed(m) /\ text[m] = 0 /\ row[m].status = "none" /\ chunks[m] = {}
      /\ race[m] # "cloned"
  BY <1>0 DEF Message, Rows
<1>3. CASE indexable
  <2>1. /\ version < MaxVersion /\ version' = version + 1
        /\ text' = [text EXCEPT ![m] = version + 1]
        /\ enqueueEmbedJob(m) /\ UNCHANGED blanks
    BY <1>3 DEF CreateMessage
  <2>2. /\ row' \in [Messages -> RowRec] /\ fifo' \in Seq(Messages)
        /\ tries' \in [Messages -> Nat] /\ tries'[m] = 0
        /\ row'[m].status = "pending" /\ row'[m].attempts = 0
        /\ \A n \in Messages : n # m => row'[n] = row[n] /\ tries'[n] = tries[n]
    BY <1>0, <2>1, EnqueueEffect
  <2>3. version + 1 \in 0 .. MaxVersion
    BY <1>0, <2>1 DEF MessagesOK
  <2>4. Shape'
    BY <1>0, <1>1, <2>1, <2>2, <2>3
       DEF Shape, MessagesOK, TablesOK, WorkerOK, ScriptOK, ObserversOK, HandsRest
  <2>5. Message(m)'
    <3>1. Enqueued(m)
      BY <1>0, <1>1, <1>2, <2>1, <2>2, <2>3 DEF Enqueued, MessagesOK, Claimed
    <3> QED
      BY <3>1, EnqueuedKeeps
  <2>6. ASSUME NEW n \in Messages, n # m PROVE Message(n)'
    <3>1. Same(n)
      BY <1>0, <1>1, <2>1, <2>2, <2>6 DEF Same, MessagesOK
    <3> QED
      BY <1>1, <3>1, SameRests
  <2> QED
    BY <1>1, <2>4, <2>5, <2>6, HandsKept DEF IInv
<1>4. CASE ~indexable
  <2>1. /\ blanks < MaxBlanks /\ blanks' = blanks + 1
        /\ UNCHANGED <<text, version, row, fifo, tries>>
    BY <1>4 DEF CreateMessage
  <2>2. Shape'
    <3>1. MessagesOK'
      BY <1>0, <1>1, <2>1 DEF MessagesOK
    <3>2. TablesOK' /\ ScriptOK'
      BY <1>0, <1>1, <2>1 DEF TablesOK, ScriptOK
    <3>3. WorkerOK' /\ ObserversOK'
      BY <1>0, <1>1, <2>1 DEF WorkerOK, ObserversOK, HandsRest
    <3> QED
      BY <3>1, <3>2, <3>3 DEF Shape
  <2>3. Message(m)'
    <3>1. /\ UNCHANGED <<row, chunks, text, race, tries>> /\ exists'[m] = "live"
          /\ ~Claimed(m)' /\ ~Draining(m)' /\ UNCHANGED batch
      BY <1>0, <1>1, <1>2, <2>1 DEF HandsRest, Claimed, Draining, MessagesOK
    <3>2. Rows(m)' /\ Owned(m)' /\ Kept(m)' /\ Counted(m)' /\ Drained(m)'
      BY <1>0, <1>2, <3>1 DEF Message, Rows, Owned, Kept, Counted, Drained
    <3>3. Agrees(m)' /\ OneText(m)'
      BY <1>0, <1>2, <3>1 DEF Message, Agrees, OneText, Eligible, FullIndex
    <3> QED
      BY <3>2, <3>3 DEF Message
  <2>4. ASSUME NEW n \in Messages, n # m PROVE Message(n)'
    <3>1. Same(n)
      BY <1>0, <1>1, <2>1, <2>4 DEF Same, MessagesOK
    <3> QED
      BY <1>1, <3>1, SameRests
  <2> QED
    BY <1>1, <2>2, <2>3, <2>4, HandsKept DEF IInv
<1> QED
  BY <1>3, <1>4

\* A message is cloned.
LEMMA CloneStep ==
  ASSUME IInv, NEW m \in Messages, NEW indexable \in BOOLEAN, CloneTurn(m, indexable)
  PROVE  IInv'
<1> USE EmbedAssumption DEF workerVars, scriptVars, tableVars
<1>0. /\ Message(m) /\ MessagesOK /\ TablesOK /\ WorkerOK /\ ScriptOK /\ ObserversOK
      /\ exists[m] = "unborn"
  BY DEF IInv, Shape, CloneTurn
<1>1. /\ HandsRest
      /\ UNCHANGED <<row, fifo, chunks, ready, degraded, script, page, scripts, faults, crashes, tries>>
      /\ exists' = [exists EXCEPT ![m] = "live"]
  BY DEF CloneTurn, HandsRest
<1>2. ~Claimed(m) /\ row[m].status = "none" /\ chunks[m] = {} /\ text[m] = 0
  BY <1>0 DEF Message, Rows
<1>3. /\ MessagesOK' /\ race' \in [Messages -> {"no", "claimed", "read", "cloned"}]
      /\ \A n \in Messages : n # m =>
           exists'[n] = exists[n] /\ text'[n] = text[n] /\ race'[n] = race[n]
      /\ race'[m] = "cloned" \/ (race'[m] = race[m] /\ text'[m] = 0)
  BY <1>0, <1>2 DEF CloneTurn, MessagesOK, ObserversOK
<1>4. Shape'
  BY <1>0, <1>1, <1>3 DEF Shape, TablesOK, WorkerOK, ScriptOK, ObserversOK, HandsRest
<1>5. Message(m)'
  <2>1. ~Claimed(m)' /\ ~Draining(m)' /\ exists'[m] = "live"
    BY <1>0, <1>1, <1>2 DEF HandsRest, Claimed, Draining, MessagesOK
  <2>2. Rows(m)' /\ Owned(m)' /\ Kept(m)' /\ Drained(m)'
    BY <1>0, <1>1, <1>2, <1>3, <2>1 DEF Message, Rows, Owned, Kept, Drained
  <2>3. Counted(m)'
    BY <1>0, <1>1, <1>3, <2>1 DEF Message, Counted, HandsRest
  <2>4. Agrees(m)' /\ OneText(m)'
    BY <1>0, <1>1, <1>2, <1>3 DEF Message, Agrees, OneText, Eligible, FullIndex
  <2> QED
    BY <2>2, <2>3, <2>4 DEF Message
<1>6. ASSUME NEW n \in Messages, n # m PROVE Message(n)'
  <2>1. Same(n)
    BY <1>1, <1>3, <1>6 DEF Same
  <2> QED
    BY <1>1, <2>1, SameRests
<1> QED
  BY <1>1, <1>4, <1>5, <1>6, HandsKept DEF IInv

\* A message is edited.
LEMMA UpdateStep ==
  ASSUME IInv, NEW m \in Messages, NEW indexable \in BOOLEAN, UpdateMessageContent(m, indexable)
  PROVE  IInv'
<1> USE EmbedAssumption DEF workerVars, scriptVars
<1>0. /\ Message(m) /\ MessagesOK /\ TablesOK /\ WorkerOK /\ ScriptOK /\ ObserversOK
      /\ exists[m] = "live"
  BY DEF IInv, Shape, UpdateMessageContent
<1>1. HandsRest /\ UNCHANGED <<exists, ready, degraded, script, page, scripts, faults, crashes>>
  BY DEF UpdateMessageContent, HandsRest
<1>2. /\ race' \in [Messages -> {"no", "claimed", "read", "cloned"}]
      /\ \A n \in Messages : n # m => race'[n] = race[n]
      /\ race'[m] # "cloned" /\ (race'[m] = "no" => ~Claimed(m))
      /\ Draining(m) => race'[m] = "read"
  BY <1>0 DEF UpdateMessageContent, Raced, ObserversOK, Claimed
<1>3. CASE indexable
  <2>1. /\ version < MaxVersion /\ version' = version + 1
        /\ text' = [text EXCEPT ![m] = version + 1]
        /\ enqueueEmbedJob(m) /\ UNCHANGED <<chunks, blanks>>
    BY <1>3 DEF UpdateMessageContent
  <2>2. /\ row' \in [Messages -> RowRec] /\ fifo' \in Seq(Messages)
        /\ tries' \in [Messages -> Nat] /\ tries'[m] = 0
        /\ row'[m].status = "pending" /\ row'[m].attempts = 0
        /\ \A n \in Messages : n # m => row'[n] = row[n] /\ tries'[n] = tries[n]
    BY <1>0, <2>1, EnqueueEffect
  <2>3. version + 1 \in 0 .. MaxVersion /\ version + 1 # 0
    BY <1>0, <2>1 DEF MessagesOK
  <2>4. Shape'
    BY <1>0, <1>1, <1>2, <2>1, <2>2, <2>3
       DEF Shape, MessagesOK, TablesOK, WorkerOK, ScriptOK, ObserversOK, HandsRest
  <2>5. Message(m)'
    <3>1. Enqueued(m)
      BY <1>0, <1>1, <1>2, <2>1, <2>2, <2>3 DEF Enqueued, MessagesOK
    <3> QED
      BY <3>1, EnqueuedKeeps
  <2>6. ASSUME NEW n \in Messages, n # m PROVE Message(n)'
    <3>1. Same(n)
      BY <1>0, <1>1, <1>2, <2>1, <2>2, <2>6 DEF Same, MessagesOK
    <3> QED
      BY <1>1, <3>1, SameRests
  <2> QED
    BY <1>1, <2>4, <2>5, <2>6, HandsKept DEF IInv
<1>4. CASE ~indexable
  <2>1. /\ blanks < MaxBlanks /\ blanks' = blanks + 1
        /\ text' = [text EXCEPT ![m] = 0]
        /\ markDone(m) /\ chunks' = [chunks EXCEPT ![m] = {}]
        /\ UNCHANGED <<version, tries>>
    BY <1>4 DEF UpdateMessageContent, clearMessageEmbedState, markDone
  <2>2. /\ row' \in [Messages -> RowRec] /\ fifo' \in Seq(Messages)
        /\ row'[m].status = "none" /\ row'[m].attempts = 0
        /\ \A n \in Messages : n # m => row'[n] = row[n]
    BY <1>0, <2>1, MarkDoneEffect
  <2>3. 0 \in 0 .. MaxVersion /\ 0 \in 0 .. MaxCrashes
    OBVIOUS
  <2>4. Shape'
    <3>1. chunks' \in [Messages -> SUBSET ChunkRec]
      BY <1>0, <2>1 DEF TablesOK
    <3>2. text' \in [Messages -> 0 .. MaxVersion] /\ blanks' \in 0 .. MaxBlanks
      BY <1>0, <2>1, <2>3 DEF MessagesOK
    <3> QED
      BY <1>0, <1>1, <1>2, <2>1, <2>2, <3>1, <3>2
         DEF Shape, MessagesOK, TablesOK, WorkerOK, ScriptOK, ObserversOK, HandsRest
  <2>5. Message(m)'
    <3>1. /\ chunks'[m] = {} /\ text'[m] = 0 /\ exists'[m] = "live" /\ tries'[m] \in Nat
          /\ (Claimed(m)' <=> Claimed(m)) /\ (Draining(m)' <=> Draining(m))
          /\ UNCHANGED <<pc, cur, batch>>
      BY <1>0, <1>1, <2>1 DEF HandsRest, Claimed, Draining, MessagesOK, TablesOK, ObserversOK
    <3>2. Rows(m)' /\ Owned(m)' /\ Kept(m)'
      BY <1>0, <1>2, <2>2, <3>1 DEF Rows, Owned, Kept
    <3>3. Counted(m)'
      BY <1>2, <2>2, <3>1 DEF Counted, Claimed
    <3>4. Drained(m)'
      BY <1>2, <3>1 DEF Drained
    <3>5. Agrees(m)'
      BY <3>1 DEF Agrees, Eligible
    <3>6. OneText(m)'
      BY <2>3, <3>1 DEF OneText
    <3> QED
      BY <3>2, <3>3, <3>4, <3>5, <3>6 DEF Message
  <2>6. ASSUME NEW n \in Messages, n # m PROVE Message(n)'
    <3>1. Same(n)
      BY <1>0, <1>1, <1>2, <2>1, <2>2, <2>6 DEF Same, MessagesOK, TablesOK
    <3> QED
      BY <1>1, <3>1, SameRests
  <2> QED
    BY <1>1, <2>4, <2>5, <2>6, HandsKept DEF IInv
<1> QED
  BY <1>3, <1>4

\* The messages are deleted.
LEMMA DeleteStep ==
  ASSUME IInv, DeleteAllMessages
  PROVE  IInv'
<1> USE EmbedAssumption DEF workerVars, scriptVars, observers
<1>0. MessagesOK /\ TablesOK /\ WorkerOK /\ ScriptOK /\ ObserversOK
  BY DEF IInv, Shape
<1>1. /\ HandsRest /\ fifo' = << >>
      /\ UNCHANGED <<text, version, blanks, ready, degraded, script, page, scripts, faults, crashes,
                     race, tries>>
  BY DEF DeleteAllMessages, HandsRest
<1>2. \A m \in Messages :
        /\ exists[m] = "live" => exists'[m] = "gone" /\ row'[m] = NoRow /\ chunks'[m] = {}
        /\ exists[m] # "live" => exists'[m] = exists[m] /\ row'[m] = row[m] /\ chunks'[m] = chunks[m]
  BY DEF DeleteAllMessages
<1>3. Shape'
  <2>1. exists' \in [Messages -> {"unborn", "live", "gone"}]
    BY <1>0 DEF DeleteAllMessages, MessagesOK
  <2>2. row' \in [Messages -> RowRec]
    BY <1>0, RowFacts DEF DeleteAllMessages, TablesOK
  <2>3. chunks' \in [Messages -> SUBSET ChunkRec]
    BY <1>0 DEF DeleteAllMessages, TablesOK
  <2> QED
    BY <1>0, <1>1, <2>1, <2>2, <2>3
       DEF Shape, MessagesOK, TablesOK, WorkerOK, ScriptOK, ObserversOK, HandsRest
<1>4. ASSUME NEW m \in Messages PROVE Message(m)'
  <2>0. Message(m) /\ tries[m] \in Nat /\ 0 \in 0 .. MaxVersion /\ 0 \in 0 .. MaxCrashes
    BY <1>0 DEF IInv, ObserversOK
  <2>1. CASE exists[m] = "live"
    <3>1. /\ chunks'[m] = {} /\ UNCHANGED <<text, race, tries>> /\ exists'[m] = "gone"
          /\ row'[m].status = "none" /\ row'[m].attempts = 0
          /\ (Claimed(m)' <=> Claimed(m)) /\ (Draining(m)' <=> Draining(m))
          /\ UNCHANGED <<pc, cur, batch>>
      BY <1>1, <1>2, <2>1, RowFacts DEF HandsRest, Claimed, Draining
    <3>2. Rows(m)' /\ Owned(m)' /\ Kept(m)' /\ Counted(m)'
      BY <2>0, <3>1 DEF Message, Rows, Owned, Kept, Counted
    <3>4. Drained(m)' /\ Agrees(m)' /\ OneText(m)'
      BY <2>0, <3>1 DEF Message, Drained, Agrees, OneText, Eligible
    <3> QED
      BY <3>2, <3>4 DEF Message
  <2>2. CASE exists[m] # "live"
    <3>1. Same(m)
      BY <1>1, <1>2, <2>2 DEF Same
    <3> QED
      BY <1>1, <3>1, SameRests
  <2> QED
    BY <2>1, <2>2
<1> QED
  BY <1>1, <1>3, <1>4, HandsKept DEF IInv

\* The script selects a page or ends.
LEMMA SelectSteps ==
  ASSUME IInv, SelectGaps \/ SelectStale \/ ScriptEnds
  PROVE  IInv'
<1> USE EmbedAssumption DEF messageVars, tableVars, workerVars, scriptVars, observers
<1>0. MessagesOK /\ TablesOK /\ WorkerOK /\ ScriptOK /\ ObserversOK
  BY DEF IInv, Shape
<1>1. /\ HandsRest
      /\ UNCHANGED <<exists, text, version, blanks, row, fifo, chunks, ready, degraded, faults,
                     crashes, race, tries>>
  BY DEF SelectGaps, SelectStale, ScriptEnds, HandsRest
<1>2. ScriptOK'
  BY <1>0 DEF SelectGaps, SelectStale, ScriptEnds, ScriptOK, Gaps, Stale
<1>3. Shape'
  BY <1>0, <1>1, <1>2 DEF Shape, MessagesOK, TablesOK, WorkerOK, ObserversOK, HandsRest
<1>4. \A n \in Messages : Message(n)'
  BY <1>1, SameRests DEF Same
<1> QED
  BY <1>1, <1>3, <1>4, HandsKept DEF IInv

\* The script enqueues a message, or ends on one that is gone.
LEMMA EnqueueSteps ==
  ASSUME IInv, NEW m \in Messages, EnqueueGap(m) \/ EnqueueStale(m)
  PROVE  IInv'
<1> USE EmbedAssumption DEF messageVars, workerVars
<1>0. /\ MessagesOK /\ TablesOK /\ WorkerOK /\ ScriptOK /\ ObserversOK /\ Message(m)
      /\ text[m] \in Nat
  BY MessageFacts DEF IInv, Shape
<1>1. /\ HandsRest
      /\ UNCHANGED <<exists, text, version, blanks, chunks, ready, degraded, scripts, faults, crashes>>
  BY DEF EnqueueGap, EnqueueStale, HandsRest
<1>2. ScriptOK'
  BY <1>0, <1>1 DEF EnqueueGap, EnqueueStale, ScriptOK
<1>3. CASE UNCHANGED <<row, fifo, tries, race>>
  <2>1. Shape'
    BY <1>0, <1>1, <1>2, <1>3 DEF Shape, MessagesOK, TablesOK, WorkerOK, ObserversOK, HandsRest
  <2>2. \A n \in Messages : Message(n)'
    BY <1>1, <1>3, SameRests DEF Same
  <2> QED
    BY <1>1, <2>1, <2>2, HandsKept DEF IInv
<1>4. CASE /\ enqueueEmbedJob(m) /\ exists[m] = "live"
           /\ \/ /\ EnqueueGap(m) /\ ~HasRow(m)
                 /\ race' = [race EXCEPT ![m] = IF @ = "cloned" THEN "no" ELSE @]
              \/ race' = [race EXCEPT ![m] = IF @ = "read" THEN @
                                             ELSE IF Claimed(m) THEN "claimed" ELSE "no"]
  <2>1. /\ row' \in [Messages -> RowRec] /\ fifo' \in Seq(Messages)
        /\ tries' \in [Messages -> Nat] /\ tries'[m] = 0
        /\ row'[m].status = "pending" /\ row'[m].attempts = 0
        /\ \A n \in Messages : n # m => row'[n] = row[n] /\ tries'[n] = tries[n]
    BY <1>0, <1>4, EnqueueEffect
  <2>2. /\ race' \in [Messages -> {"no", "claimed", "read", "cloned"}]
        /\ \A n \in Messages : n # m => race'[n] = race[n]
        /\ race'[m] # "cloned" /\ (race'[m] = "no" => ~Claimed(m))
        /\ race'[m] # "read" => race[m] # "read"
    <3>1. CASE /\ EnqueueGap(m) /\ ~HasRow(m)
               /\ race' = [race EXCEPT ![m] = IF @ = "cloned" THEN "no" ELSE @]
      BY <1>0, <1>4, <3>1 DEF Message, Rows, Kept, ObserversOK
    <3>2. CASE race' = [race EXCEPT ![m] = IF @ = "read" THEN @
                                           ELSE IF Claimed(m) THEN "claimed" ELSE "no"]
      BY <1>0, <3>2 DEF ObserversOK
    <3> QED
      BY <1>4, <3>1, <3>2
  <2>3. Shape'
    BY <1>0, <1>1, <1>2, <2>1, <2>2
       DEF Shape, MessagesOK, TablesOK, WorkerOK, ObserversOK, HandsRest
  <2>4. Message(m)'
    <3>1. race'[m] # "read" /\ text'[m] = 0 => chunks[m] = {}
      BY <1>0, <1>1, <2>2 DEF Message, Agrees, Eligible
    <3>2. Enqueued(m)
      BY <1>0, <1>1, <1>4, <2>1, <2>2, <3>1 DEF Enqueued
    <3> QED
      BY <3>2, EnqueuedKeeps
  <2>5. ASSUME NEW n \in Messages, n # m PROVE Message(n)'
    <3>1. Same(n)
      BY <1>1, <2>1, <2>2, <2>5 DEF Same
    <3> QED
      BY <1>1, <3>1, SameRests
  <2> QED
    BY <1>1, <2>3, <2>4, <2>5, HandsKept DEF IInv
<1>5. HasRow(m) => race[m] # "cloned"
  BY <1>0 DEF Message, Rows, HasRow
<1>6. HasRow(m) => [race EXCEPT ![m] = IF @ = "cloned" THEN "no" ELSE @] = race
  BY <1>0, <1>5 DEF ObserversOK
<1> QED
  BY <1>3, <1>4, <1>6 DEF EnqueueGap, EnqueueStale, enqueueEmbedJobIfAbsent

\* A backoff ends.
LEMMA BackoffStep ==
  ASSUME IInv, NEW m \in Messages, BackoffElapses(m)
  PROVE  IInv'
<1> USE EmbedAssumption DEF messageVars, workerVars, scriptVars, observers
<1>0. MessagesOK /\ TablesOK /\ WorkerOK /\ ScriptOK /\ ObserversOK
  BY DEF IInv, Shape
<1>1. /\ HandsRest
      /\ UNCHANGED <<exists, text, version, blanks, fifo, chunks, ready, degraded, script, page,
                     scripts, faults, crashes, race, tries>>
  BY DEF BackoffElapses, HandsRest
<1>2. /\ row' \in [Messages -> RowRec]
      /\ \A n \in Messages : row'[n].status = row[n].status /\ row'[n].attempts = row[n].attempts
  BY <1>0 DEF BackoffElapses, TablesOK, RowRec
<1>3. Shape'
  BY <1>0, <1>1, <1>2 DEF Shape, MessagesOK, TablesOK, WorkerOK, ScriptOK, ObserversOK, HandsRest
<1>4. \A n \in Messages : Message(n)'
  BY <1>1, <1>2, SameRests DEF Same
<1> QED
  BY <1>1, <1>3, <1>4, HandsKept DEF IInv

-----------------------------------------------------------------------------
(***************************************************************************)
(* The worker.                                                             *)
(***************************************************************************)
\* The worker takes a step that leaves the messages, their texts and the script
\* alone.
WorkerGoes ==
  /\ UNCHANGED <<exists, text, version, blanks, script, page, scripts, race>>
  /\ row' \in [Messages -> RowRec] /\ fifo' \in Seq(Messages)
  /\ chunks' \in [Messages -> SUBSET ChunkRec]
  /\ WorkerOK' /\ tries' \in [Messages -> Nat] /\ orphaned' \in BOOLEAN

\* A step of the worker keeps the shape of the state.
LEMMA WorkerShape ==
  ASSUME IInv, WorkerGoes
  PROVE  Shape'
  BY DEF IInv, Shape, WorkerGoes, MessagesOK, TablesOK, ScriptOK, ObserversOK

\* The process ends, or a tick is aborted: the claims are forgotten.
LEMMA GiveUpSteps ==
  ASSUME IInv, Crash \/ TickAborts
  PROVE  IInv'
<1> USE EmbedAssumption DEF messageVars, tableVars, scriptVars, observers
<1>0. MessagesOK /\ TablesOK /\ WorkerOK /\ ScriptOK /\ ObserversOK /\ Hands
  BY DEF IInv, Shape
<1>1. /\ UNCHANGED <<exists, text, version, blanks, row, fifo, chunks, model, script, page, scripts,
                     race, tries>>
      /\ batch' = {} /\ cur' = NoJob /\ pc' \in {"down", "idle"}
      /\ orphaned' \in BOOLEAN
      /\ \/ pc' = "down" /\ UNCHANGED orphaned
         \/ orphaned' = TRUE
         \/ pc \in {"claim", "idle"} /\ UNCHANGED orphaned
  BY <1>0 DEF Crash, TickAborts, ObserversOK
<1>2. WorkerOK'
  <2>1. ready' \in BOOLEAN /\ degraded' \in BOOLEAN
    BY <1>0 DEF Crash, TickAborts, WorkerOK
  <2>2. faults' \in 0 .. MaxFaults /\ crashes' \in 0 .. MaxCrashes
    <3>1. MaxFaults \in Nat /\ MaxCrashes \in Nat
      OBVIOUS
    <3>2. CASE Crash
      BY <1>0, <3>1, <3>2 DEF Crash, WorkerOK
    <3>3. CASE TickAborts
      BY <1>0, <3>1, <3>3 DEF TickAborts, WorkerOK
    <3> QED
      BY <3>2, <3>3
  <2> QED
    BY <1>0, <1>1, <2>1, <2>2 DEF WorkerOK
<1>3. Shape'
  BY <1>0, <1>1, <1>2, WorkerShape DEF WorkerGoes, TablesOK, ObserversOK
<1>4. Hands'
  BY <1>1 DEF Hands, AfterRead
<1>5. ASSUME NEW n \in Messages PROVE Message(n)'
  <2>1. ~Claimed(n)' /\ ~Draining(n)'
    BY <1>1 DEF Claimed, Draining, AfterRead
  <2>2. pc \in {"claim", "idle"} => ~Claimed(n)
    BY <1>0 DEF Hands, Claimed, Draining, AfterRead
  <2>3. Claimed(n) \/ pc = "down" \/ orphaned => pc' = "down" \/ orphaned'
    BY <1>1, <2>2
  <2> QED
    BY <1>1, <2>1, <2>3, SameLeft DEF Same
<1> QED
  BY <1>3, <1>4, <1>5 DEF IInv

\* The model is loaded, or a tick finds that it is not.
LEMMA ReadySteps ==
  ASSUME IInv, Warm \/ TickDegraded
  PROVE  IInv'
<1> USE DEF messageVars, tableVars, scriptVars, observers
<1>0. MessagesOK /\ TablesOK /\ WorkerOK /\ ScriptOK /\ ObserversOK
  BY DEF IInv, Shape
<1>1. /\ HandsRest
      /\ UNCHANGED <<exists, text, version, blanks, row, fifo, chunks, script, page, scripts,
                     faults, crashes, race, tries>>
  BY DEF Warm, TickDegraded, HandsRest
<1>2. WorkerOK'
  <2>1. ready' \in BOOLEAN /\ degraded' \in BOOLEAN
    BY <1>0 DEF Warm, TickDegraded, WorkerOK
  <2> QED
    BY <1>0, <1>1, <2>1 DEF HandsRest, WorkerOK
<1>3. Shape'
  BY <1>0, <1>1, <1>2, WorkerShape DEF WorkerGoes, TablesOK, ObserversOK, HandsRest
<1>4. \A n \in Messages : Message(n)'
  BY <1>1, SameRests DEF Same
<1> QED
  BY <1>1, <1>3, <1>4, HandsKept DEF IInv

\* The worker starts and recovers the rows in flight, or resets the attempts of
\* the pending rows; it has nothing in its hands.
LEMMA StartSteps ==
  ASSUME IInv, Start \/ TickResets
  PROVE  IInv'
<1> USE EmbedAssumption DEF messageVars, scriptVars
<1>0. MessagesOK /\ TablesOK /\ WorkerOK /\ ScriptOK /\ ObserversOK /\ Hands
  BY DEF IInv, Shape
<1>1. /\ UNCHANGED <<exists, text, version, blanks, fifo, chunks, batch, cur, script, page, scripts,
                     crashes, race>>
      /\ pc \in {"down", "idle"} /\ pc' \in {"idle", "claim"} /\ batch = {} /\ cur = NoJob
      /\ pc = "down" /\ ~orphaned' => row' = Recovered /\ UNCHANGED tries
      /\ pc # "down" => UNCHANGED orphaned
  BY <1>0 DEF Start, TickResets, Hands, AfterRead
<1>2. \A n \in Messages : ~Claimed(n) /\ ~Claimed(n)' /\ ~Draining(n)'
  BY <1>1 DEF Claimed, Draining, AfterRead
<1>3. /\ row' \in [Messages -> RowRec] /\ tries' \in [Messages -> Nat]
      /\ \A n \in Messages :
           /\ row'[n].status = row[n].status \/ (row[n].status = "in_progress" /\ row'[n].status = "pending")
           /\ row'[n].status = "in_progress" => orphaned'
           /\ \/ row'[n].attempts = row[n].attempts /\ tries'[n] = tries[n]
              \/ row'[n].attempts = 0 /\ row[n].status = "pending"
  <2>0. \A n \in Messages : row[n] \in RowRec
    BY <1>0 DEF TablesOK
  <2>1. CASE Start /\ row' = Recovered
    <3>1. UNCHANGED tries
      BY <2>1 DEF Start
    <3>2. \A n \in Messages :
            /\ row[n].status = "in_progress" => row'[n] = [row[n] EXCEPT !.status = "pending"]
            /\ row[n].status # "in_progress" => row'[n] = row[n]
      BY <2>1 DEF Recovered
    <3>3. \A n \in Messages : /\ [row[n] EXCEPT !.status = "pending"] \in RowRec
                              /\ [row[n] EXCEPT !.status = "pending"].status = "pending"
                              /\ [row[n] EXCEPT !.status = "pending"].attempts = row[n].attempts
      BY <2>0 DEF RowRec, Statuses
    <3>4. row' \in [Messages -> RowRec]
      BY <2>0, <2>1, <3>3 DEF Recovered
    <3> QED
      BY <1>0, <3>1, <3>2, <3>3, <3>4 DEF ObserversOK
  <2>2. CASE Start /\ orphaned' = TRUE /\ UNCHANGED row
    BY <1>0, <2>2 DEF Start, TablesOK, ObserversOK
  <2>3. CASE TickResets
    <3>1. /\ row' \in [Messages -> RowRec] /\ tries' \in [Messages -> Nat]
          /\ \A n \in Messages :
               /\ row[n].status = "pending" => row'[n] = FreshRow
               /\ row[n].status # "pending" => row'[n] = row[n] /\ tries'[n] = tries[n]
      BY <1>0, <2>3, RowFacts DEF TickResets, TablesOK, ObserversOK
    <3>2. UNCHANGED orphaned /\ pc = "idle"
      BY <2>3 DEF TickResets
    <3>3. \A n \in Messages : row[n].status = "in_progress" => orphaned
      BY <1>2, <3>2 DEF IInv, Message, Owned
    <3> QED
      BY <3>1, <3>2, <3>3, RowFacts
  <2> QED
    BY <2>1, <2>2, <2>3 DEF Start
<1>4. Shape'
  <2>1. WorkerOK'
    <3>1. model' \in 0 .. MaxCrashes /\ faults' \in 0 .. MaxFaults
      BY <1>0 DEF Start, TickResets, WorkerOK
    <3>2. ready' \in BOOLEAN /\ degraded' \in BOOLEAN
      BY <1>0 DEF Start, TickResets, WorkerOK
    <3> QED
      BY <1>0, <1>1, <3>1, <3>2 DEF WorkerOK
  <2>2. orphaned' \in BOOLEAN
    BY <1>0 DEF Start, TickResets, ObserversOK
  <2> QED
    BY <1>0, <1>1, <1>3, <2>1, <2>2, WorkerShape DEF WorkerGoes, TablesOK
<1>5. Hands'
  BY <1>1 DEF Hands, AfterRead
<1>6. ASSUME NEW n \in Messages PROVE Message(n)'
  <2>0. /\ row[n].attempts \in Nat /\ tries[n] \in Nat /\ Message(n)
        /\ MaxAttempts \in Nat \ {0} /\ tries'[n] \in Nat
    BY <1>3, MessageFacts
  <2>1. Rows(n)'
    BY <1>1, <1>2, <1>3, <2>0 DEF Message, Rows
  <2>2. Owned(n)' /\ Kept(n)'
    BY <1>2, <1>3 DEF Owned, Kept
  <2>3. Counted(n)'
    BY <1>1, <1>2, <1>3, <2>0 DEF Message, Counted
  <2>4. Drained(n)'
    BY <1>2 DEF Drained
  <2>5. Agrees(n)' /\ OneText(n)'
    BY <1>1, <1>3, <2>0 DEF Message, Agrees, OneText, Eligible, HasRow, Indexed, FullIndex
  <2> QED
    BY <2>1, <2>2, <2>3, <2>4, <2>5 DEF Message
<1> QED
  BY <1>4, <1>5, <1>6 DEF IInv

\* A batch is claimed.
LEMMA ClaimStep ==
  ASSUME IInv, ClaimBatch
  PROVE  IInv'
<1> USE EmbedAssumption DEF messageVars, scriptVars, observers
<1>0. /\ MessagesOK /\ TablesOK /\ WorkerOK /\ ScriptOK /\ ObserversOK /\ Hands
      /\ \A n \in Messages : row[n] \in RowRec
  BY DEF IInv, Shape, TablesOK
<1>1. /\ UNCHANGED <<exists, text, version, blanks, fifo, chunks, ready, degraded, cur, model, script,
                     page, scripts, faults, crashes, race, tries, orphaned>>
      /\ pc \in {"claim", "idle"} /\ batch = {} /\ cur = NoJob
  BY <1>0 DEF ClaimBatch, Hands, AfterRead
<1>2. PICK B \in SUBSET Messages :
        /\ B \subseteq Due
        /\ row' = [m \in Messages |-> IF m \in B THEN [row[m] EXCEPT !.status = "in_progress"]
                                      ELSE row[m]]
        /\ batch' = {[message |-> m, attempts |-> row[m].attempts] : m \in B}
        /\ pc' = IF B = {} THEN "idle" ELSE "drain"
  BY DEF ClaimBatch, Oldest
<1>3. \A n \in Messages : ~Claimed(n) /\ ~Draining(n)'
  BY <1>1, <1>2 DEF Claimed, Draining, AfterRead
<1>4. \A n \in Messages : /\ [row[n] EXCEPT !.status = "in_progress"] \in RowRec
                          /\ [row[n] EXCEPT !.status = "in_progress"].status = "in_progress"
                          /\ [row[n] EXCEPT !.status = "in_progress"].attempts = row[n].attempts
  BY <1>0 DEF RowRec, Statuses
<1>5. /\ row' \in [Messages -> RowRec]
      /\ \A n \in Messages :
           /\ row'[n].attempts = row[n].attempts
           /\ n \in B => row'[n].status = "in_progress"
           /\ n \notin B => row'[n].status = row[n].status
  BY <1>0, <1>2, <1>4
<1>6. \A n \in Messages : n \in B => /\ row[n].status = "pending" /\ row[n].attempts < MaxAttempts
                                     /\ row[n].attempts \in 0 .. MaxAttempts
  <2>1. \A n \in Messages : n \in B => row[n].status = "pending"
    BY <1>2 DEF Due
  <2>2. \A n \in Messages : row[n].attempts \in 0 .. MaxAttempts
    BY <1>0 DEF RowRec
  <2>3. \A n \in Messages : row[n].status = "failed" <=> row[n].attempts >= MaxAttempts
    BY DEF IInv, Message, Rows
  <2> QED
    BY <2>1, <2>2, <2>3
<1>7. /\ batch' \in SUBSET JobRec
      /\ \A job \in batch' : /\ job.message \in B /\ job.attempts = row[job.message].attempts
                             /\ job.attempts < MaxAttempts
      /\ \A j, k \in batch' : j.message = k.message => j = k
  <2>1. \A job \in batch' : \E m \in B : job = [message |-> m, attempts |-> row[m].attempts]
    BY <1>2
  <2>2. \A m \in B : [message |-> m, attempts |-> row[m].attempts] \in JobRec
    BY <1>6 DEF JobRec
  <2> QED
    BY <1>6, <2>1, <2>2
<1>8. \A n \in Messages : (Claimed(n)' => n \in B) /\ (n \in B => Claimed(n)')
  <2>1. \A n \in Messages : n \in B =>
          /\ [message |-> n, attempts |-> row[n].attempts] \in batch'
          /\ [message |-> n, attempts |-> row[n].attempts].message = n
    BY <1>2
  <2>2. \A n \in Messages : (\E job \in batch' : job.message = n) <=> n \in B
    BY <1>7, <2>1
  <2> QED
    BY <1>3, <2>2 DEF Claimed
<1>9. Shape'
  <2>1. WorkerOK'
    BY <1>0, <1>1, <1>2, <1>7 DEF WorkerOK
  <2> QED
    BY <1>0, <1>1, <1>5, <2>1, WorkerShape DEF WorkerGoes, TablesOK, ObserversOK
<1>10. Hands'
  <2>1. batch' = {} \/ pc' = "drain"
    BY <1>2
  <2> QED
    BY <1>1, <1>2, <1>7, <2>1 DEF Hands, AfterRead
<1>11. ASSUME NEW n \in Messages PROVE Message(n)'
  <2>0. /\ row[n].attempts \in Nat /\ tries[n] \in Nat /\ Message(n)
        /\ MaxAttempts \in Nat \ {0}
    BY MessageFacts
  <2>1. Rows(n)'
    BY <1>1, <1>5, <1>6, <1>8, <2>0 DEF Message, Rows
  <2>2. Owned(n)'
    BY <1>1, <1>3, <1>5, <1>8, <2>0 DEF Message, Owned
  <2>3. Kept(n)'
    BY <1>5, <1>8 DEF Kept, HasRow
  <2>4. Counted(n)'
    BY <1>1, <1>3, <1>5, <1>7, <2>0 DEF Message, Counted
  <2>5. Drained(n)'
    BY <1>3 DEF Drained
  <2>6. Agrees(n)' /\ OneText(n)'
    BY <1>1, <1>5, <2>0 DEF Message, Agrees, OneText, Eligible, HasRow, Indexed, FullIndex
  <2> QED
    BY <2>1, <2>2, <2>3, <2>4, <2>5, <2>6 DEF Message
<1> QED
  BY <1>9, <1>10, <1>11 DEF IInv

\* The text of a claimed message is read.
LEMMA ReadStep ==
  ASSUME IInv, ReadMessage
  PROVE  IInv'
<1> USE EmbedAssumption DEF messageVars, tableVars, scriptVars, observers
<1>0. MessagesOK /\ TablesOK /\ WorkerOK /\ ScriptOK /\ ObserversOK /\ Hands
  BY DEF IInv, Shape
<1>1. /\ UNCHANGED <<exists, text, version, blanks, row, fifo, chunks, ready, degraded, model, script,
                     page, scripts, faults, crashes, race, tries, orphaned>>
      /\ pc = "drain"
  BY DEF ReadMessage
<1>2. PICK job \in batch :
        /\ batch' = batch \ {job}
        /\ cur' = [message |-> job.message, attempts |-> job.attempts,
                   ver |-> text[job.message], part |-> 1]
        /\ pc' = IF Eligible(job.message) THEN "embedding" ELSE "dropping"
  BY DEF ReadMessage
<1>3. DEFINE m == job.message
<1>4. /\ m \in Messages /\ job.attempts \in 0 .. MaxAttempts /\ job.attempts < MaxAttempts
      /\ \A k \in batch' : k.message # m
  BY <1>0, <1>2 DEF WorkerOK, Hands, JobRec
<1>5. /\ cur' \in CurRec /\ cur'.message = m /\ cur'.attempts = job.attempts
      /\ cur'.ver = text[m] /\ cur'.part = 1
  <2>1. text[m] \in 0 .. MaxVersion /\ 1 \in 1 .. Parts
    BY <1>0, <1>4 DEF MessagesOK
  <2> QED
    BY <1>2, <1>4, <2>1 DEF CurRec
<1>6. Shape'
  <2>1. WorkerOK'
    BY <1>0, <1>1, <1>2 DEF WorkerOK, AfterRead
  <2> QED
    BY <1>0, <1>1, <2>1, WorkerShape DEF WorkerGoes, TablesOK, ObserversOK
<1>7. Hands'
  BY <1>0, <1>2, <1>4, <1>5 DEF Hands, AfterRead
<1>8. Claimed(m) /\ ~Draining(m) /\ Claimed(m)'
  BY <1>1, <1>2, <1>5 DEF Claimed, Draining, AfterRead
<1>9. ASSUME NEW n \in Messages, n # m PROVE Message(n)'
  <2>1. ~Draining(n)' /\ ~Draining(n)
    BY <1>1, <1>5, <1>9 DEF Draining, AfterRead
  <2>2. (Claimed(n)' => Claimed(n)) /\ (Claimed(n) => Claimed(n)')
    BY <1>2, <1>9, <2>1 DEF Claimed
  <2> QED
    BY <1>1, <1>2, <2>1, <2>2, SameLeft DEF Same
<1>10. Message(m)'
  <2>0. Message(m)
    BY <1>4 DEF IInv
  <2>1. Rows(m)' /\ Owned(m)' /\ Kept(m)'
    BY <1>1, <1>8, <2>0 DEF Message, Rows, Owned, Kept, HasRow
  <2>2. Counted(m)'
    BY <1>1, <1>2, <1>4, <1>5, <2>0 DEF Message, Counted
  <2>3. Drained(m)'
    BY <1>1, <1>2, <1>5 DEF Drained, Eligible
  <2>4. Agrees(m)' /\ OneText(m)'
    BY <1>1, <2>0 DEF Message, Agrees, OneText, Eligible, HasRow, Indexed, FullIndex
  <2> QED
    BY <2>1, <2>2, <2>3, <2>4 DEF Message
<1> QED
  BY <1>6, <1>7, <1>9, <1>10 DEF IInv

\* A row is in the worker's hands after the read, and other messages are not.
LEMMA CurFacts ==
  ASSUME IInv, pc \in AfterRead
  PROVE  /\ cur \in CurRec /\ cur.message \in Messages /\ cur.attempts \in 0 .. MaxAttempts
         /\ cur.attempts < MaxAttempts /\ cur.ver \in 0 .. MaxVersion /\ cur.part \in 1 .. Parts
         /\ \A job \in batch : job.message # cur.message
         /\ Draining(cur.message) /\ Claimed(cur.message)
<1>1. /\ cur \in CurRec /\ cur.attempts < MaxAttempts
      /\ \A job \in batch : job.message # cur.message
  BY DEF IInv, Hands
<1> QED
  BY <1>1 DEF CurRec, Draining, Claimed

\* The row is drained, its step failed, or the old chunks are deleted: the row
\* stays in the worker's hands.
LEMMA DrainSteps ==
  ASSUME IInv, Embed \/ DeleteChunks \/ RowThrows
  PROVE  IInv'
<1> USE EmbedAssumption DEF messageVars, tableVars, scriptVars, observers
<1> DEFINE m == cur.message
<1>0. MessagesOK /\ TablesOK /\ WorkerOK /\ ScriptOK /\ ObserversOK /\ Hands
  BY DEF IInv, Shape
<1>1. /\ UNCHANGED <<exists, text, version, blanks, row, fifo, batch, cur, model, script,
                     page, scripts, race, tries, orphaned>>
      /\ pc \in AfterRead
      /\ \/ pc = "embedding" /\ pc' = "deleting" /\ UNCHANGED chunks
         \/ pc = "deleting" /\ pc' = "inserting" /\ chunks' = [chunks EXCEPT ![m] = {}]
         \/ pc' = "failing" /\ UNCHANGED chunks
  BY DEF Embed, DeleteChunks, RowThrows, AfterRead
<1>2. m \in Messages /\ Draining(m) /\ Claimed(m) /\ cur.part \in 1 .. Parts
  BY <1>1, CurFacts
<1>3. /\ chunks' \in [Messages -> SUBSET ChunkRec]
      /\ \A n \in Messages : n # m => chunks'[n] = chunks[n]
      /\ pc' # "inserting" => chunks'[m] = chunks[m]
      /\ pc' = "inserting" => chunks'[m] = {} /\ pc = "deleting"
  BY <1>0, <1>1, <1>2 DEF TablesOK
<1>4. pc' \in AfterRead
  BY <1>1 DEF AfterRead
<1>5. Shape'
  <2>1. ready' \in BOOLEAN /\ degraded' \in BOOLEAN /\ crashes' \in 0 .. MaxCrashes
    BY <1>0 DEF Embed, DeleteChunks, RowThrows, WorkerOK
  <2>2. faults' \in 0 .. MaxFaults
    BY <1>0 DEF Embed, DeleteChunks, RowThrows, WorkerOK
  <2>3. WorkerOK'
    BY <1>0, <1>1, <1>4, <2>1, <2>2 DEF WorkerOK
  <2> QED
    BY <1>0, <1>1, <1>3, <2>3, WorkerShape DEF WorkerGoes, TablesOK, ObserversOK
<1>6. Hands'
  BY <1>0, <1>1, <1>4 DEF Hands, AfterRead
<1>7. ASSUME NEW n \in Messages, n # m PROVE Message(n)'
  <2>1. ~Draining(n)' /\ ~Draining(n)
    BY <1>1, <1>7 DEF Draining
  <2>2. (Claimed(n)' => Claimed(n)) /\ (Claimed(n) => Claimed(n)')
    BY <1>1, <2>1 DEF Claimed
  <2> QED
    BY <1>1, <1>3, <1>7, <2>1, <2>2, SameLeft DEF Same, AfterRead
<1>8. Message(m)'
  <2>0. Message(m)
    BY <1>2 DEF IInv
  <2>1. Draining(m)' /\ Claimed(m)'
    BY <1>1, <1>4 DEF Draining, Claimed
  <2>2. Rows(m)' /\ Owned(m)' /\ Kept(m)'
    BY <1>1, <1>2, <1>3, <2>0, <2>1 DEF Message, Rows, Owned, Kept, HasRow
  <2>3. Counted(m)'
    BY <1>1, <1>2, <2>0 DEF Message, Counted
  <2>4. Drained(m)'
    <3>1. pc' = "inserting" =>
            chunks'[m] \subseteq FullIndex(cur.ver, model)
            /\ chunks'[m] = FirstParts(cur.ver, cur.part - 1, model)
      <4>1. 1 .. (1 - 1) = {}
        OBVIOUS
      <4>2. pc' = "inserting" => cur.part = 1
        BY <1>0, <1>3 DEF Hands
      <4> QED
        BY <1>3, <4>1, <4>2 DEF FirstParts
    <3>2. race[m] # "read" /\ pc' \in {"deleting", "inserting"} => cur.ver = text[m] /\ text[m] > 0
      BY <1>1, <1>2, <2>0 DEF Message, Drained
    <3>3. pc' \in {"deleting", "inserting", "failing"}
      BY <1>1
    <3> QED
      BY <1>1, <3>1, <3>2, <3>3 DEF Drained, FullIndex, FirstParts
  <2>5. Agrees(m)'
    <3>1. race[m] # "read" /\ Eligible(m) /\ pc' = "inserting" => HasRow(m)
      <4>1. race[m] \in {"no", "claimed", "read"}
        BY <1>2, MessageFacts DEF Claimed
      <4> QED
        BY <1>2, <2>0, <4>1 DEF Message, Kept, Eligible
    <3> QED
      BY <1>1, <1>3, <2>0, <3>1 DEF Message, Agrees, Eligible, HasRow, Indexed, FullIndex
  <2>6. OneText(m)'
    <3>1. 0 \in 0 .. MaxVersion /\ 0 \in 0 .. MaxCrashes
      OBVIOUS
    <3> QED
      BY <1>1, <1>3, <2>0, <3>1 DEF Message, OneText, FullIndex
  <2> QED
    BY <2>2, <2>3, <2>4, <2>5, <2>6 DEF Message
<1> QED
  BY <1>1, <1>5, <1>6, <1>7, <1>8 DEF IInv

\* One more chunk.
LEMMA PartsGrow ==
  ASSUME NEW v, NEW mod, NEW n \in Nat \ {0}
  PROVE  FirstParts(v, n - 1, mod) \cup {[ver |-> v, part |-> n, model |-> mod]}
           = FirstParts(v, n, mod)
<1> DEFINE c == [ver |-> v, part |-> n, model |-> mod]
<1>1. c \in FirstParts(v, n, mod)
  BY DEF FirstParts
<1>2. FirstParts(v, n - 1, mod) \subseteq FirstParts(v, n, mod)
  <2>1. 1 .. n - 1 \subseteq 1 .. n
    OBVIOUS
  <2> QED
    BY <2>1 DEF FirstParts
<1>3. ASSUME NEW d \in FirstParts(v, n, mod) PROVE d = c \/ d \in FirstParts(v, n - 1, mod)
  <2>1. /\ d = [ver |-> d.ver, part |-> d.part, model |-> d.model]
        /\ d.ver = v /\ d.part \in 1 .. n /\ d.model = mod
    BY <1>3 DEF FirstParts
  <2>2. d.part = n \/ d.part \in 1 .. n - 1
    BY <2>1
  <2> QED
    BY <2>1, <2>2 DEF FirstParts
<1> QED
  BY <1>1, <1>2, <1>3

\* A chunk is inserted, or the message is gone.
LEMMA InsertStep ==
  ASSUME IInv, InsertChunk
  PROVE  IInv'
<1> USE EmbedAssumption DEF messageVars, scriptVars, observers
<1>0. /\ MessagesOK /\ TablesOK /\ WorkerOK /\ ScriptOK /\ ObserversOK /\ Hands
      /\ pc = "inserting" /\ pc \in AfterRead
  BY DEF IInv, Shape, InsertChunk, AfterRead
<1>1. UNCHANGED <<exists, text, version, blanks, row, fifo, ready, degraded, batch, model, script,
                  page, scripts, faults, crashes, race, tries, orphaned>>
  BY DEF InsertChunk
<1>2. /\ cur \in CurRec /\ cur.message \in Messages /\ cur.attempts \in 0 .. MaxAttempts
      /\ cur.attempts < MaxAttempts /\ cur.ver \in 0 .. MaxVersion /\ cur.part \in 1 .. Parts
      /\ \A job \in batch : job.message # cur.message
      /\ Draining(cur.message) /\ Claimed(cur.message)
  BY <1>0, CurFacts
<1>3. PICK m \in Messages : m = cur.message
  BY <1>2
<1>4. PICK c : c = [ver |-> cur.ver, part |-> cur.part, model |-> model]
  OBVIOUS
<1>5. \/ /\ exists[m] = "live" /\ chunks' = [chunks EXCEPT ![m] = chunks[m] \cup {c}]
         /\ cur.part < Parts /\ cur' = [cur EXCEPT !.part = cur.part + 1] /\ pc' = "inserting"
      \/ /\ exists[m] = "live" /\ chunks' = [chunks EXCEPT ![m] = chunks[m] \cup {c}]
         /\ cur.part = Parts /\ cur' = cur /\ pc' = "done"
      \/ /\ exists[m] = "gone" /\ chunks' = chunks /\ cur' = cur /\ pc' = "failing"
  BY <1>0, <1>3, <1>4 DEF InsertChunk
<1>6. /\ cur' \in CurRec /\ cur'.message = m /\ cur'.attempts = cur.attempts /\ cur'.ver = cur.ver
      /\ pc' = "inserting" => cur'.part = cur.part + 1
  <2>1. cur.part < Parts => cur.part + 1 \in 1 .. Parts
    BY <1>2
  <2> QED
    BY <1>2, <1>3, <1>5, <2>1 DEF CurRec
<1>7. pc' \in {"inserting", "done", "failing"} /\ pc' \in AfterRead
  BY <1>5 DEF AfterRead
<1>8. c \in ChunkRec /\ c \in FullIndex(cur.ver, model)
  BY <1>0, <1>2, <1>4 DEF WorkerOK, ChunkRec, FullIndex
<1>9. /\ chunks' \in [Messages -> SUBSET ChunkRec]
      /\ \A n \in Messages : n # m => chunks'[n] = chunks[n]
      /\ pc' # "failing" => exists[m] = "live" /\ chunks'[m] = chunks[m] \cup {c}
      /\ pc' = "failing" => chunks'[m] = chunks[m]
  BY <1>0, <1>5, <1>8 DEF TablesOK
<1>10. Shape'
  <2>1. WorkerOK'
    BY <1>0, <1>1, <1>7 DEF WorkerOK
  <2> QED
    BY <1>0, <1>1, <1>9, <2>1, WorkerShape DEF WorkerGoes, TablesOK, ObserversOK
<1>11. Hands'
  BY <1>0, <1>1, <1>2, <1>3, <1>6, <1>7 DEF Hands, AfterRead
<1>12. ASSUME NEW n \in Messages, n # m PROVE Message(n)'
  <2>1. ~Draining(n)' /\ ~Draining(n)
    BY <1>3, <1>6, <1>12 DEF Draining
  <2>2. (Claimed(n)' => Claimed(n)) /\ (Claimed(n) => Claimed(n)')
    BY <1>1, <2>1 DEF Claimed
  <2> QED
    BY <1>0, <1>1, <1>9, <1>12, <2>1, <2>2, SameLeft DEF Same
<1>13. Message(m)'
  <2>0. Message(m) /\ Drained(m) /\ Draining(m) /\ Claimed(m)
    BY <1>2, <1>3 DEF IInv, Message
  <2>1. Draining(m)' /\ Claimed(m)'
    BY <1>6, <1>7 DEF Draining, Claimed
  <2>2. Rows(m)'
    BY <1>1, <1>9, <2>0 DEF Message, Rows
  <2>3. Owned(m)' /\ Kept(m)'
    BY <1>1, <2>0, <2>1 DEF Message, Owned, Kept, HasRow
  <2>4. Counted(m)'
    BY <1>1, <1>6, <2>0 DEF Message, Counted
  <2>5. pc' # "failing" => chunks'[m] \subseteq FullIndex(cur.ver, model)
    BY <1>0, <1>8, <1>9, <2>0 DEF Drained
  <2>6. race[m] # "read" => cur.ver = text[m] /\ text[m] > 0
    BY <1>0, <2>0 DEF Drained
  <2>7. race[m] # "read" /\ pc' # "failing" => chunks'[m] = FirstParts(cur.ver, cur.part, model)
    <3> SUFFICES ASSUME race[m] # "read", pc' # "failing"
                 PROVE  chunks'[m] = FirstParts(cur.ver, cur.part, model)
      OBVIOUS
    <3>1. chunks[m] = FirstParts(cur.ver, cur.part - 1, model)
      BY <1>0, <1>9, <2>0 DEF Drained
    <3>2. cur.part \in Nat \ {0}
      BY <1>2
    <3>3. FirstParts(cur.ver, cur.part - 1, model)
            \cup {[ver |-> cur.ver, part |-> cur.part, model |-> model]}
            = FirstParts(cur.ver, cur.part, model)
      BY <3>2, PartsGrow
    <3>4. chunks'[m] = chunks[m] \cup {c}
      BY <1>9
    <3> QED
      BY <1>4, <3>1, <3>3, <3>4, Zenon
  <2>8. Drained(m)'
    <3>1. CASE pc' = "inserting"
      <4>1. cur'.part - 1 = cur.part
        BY <1>2, <1>6, <3>1
      <4> QED
        BY <1>1, <1>6, <2>5, <2>6, <2>7, <3>1, <4>1 DEF Drained, FullIndex, FirstParts
    <3>2. CASE pc' = "done"
      <4>1. cur.part = Parts
        BY <1>5, <3>2
      <4> QED
        BY <1>1, <1>6, <2>5, <2>6, <2>7, <3>2, <4>1 DEF Drained, FullIndex, FirstParts
    <3>3. CASE pc' = "failing"
      BY <3>3 DEF Drained
    <3> QED
      BY <1>7, <3>1, <3>2, <3>3
  <2>9. Agrees(m)'
    <3>1. CASE pc' = "failing"
      BY <1>1, <1>9, <2>0, <3>1 DEF Message, Agrees, Eligible, HasRow, Indexed, FullIndex
    <3>2. CASE pc' # "failing"
      <4>1. race[m] \in {"no", "claimed", "read"}
        BY <2>0, MessageFacts
      <4>2. race[m] # "read" => Eligible(m) /\ HasRow(m)
        BY <1>9, <2>0, <2>6, <3>2, <4>1 DEF Message, Kept, Eligible
      <4> QED
        BY <1>1, <4>2 DEF Agrees, Eligible, HasRow
    <3> QED
      BY <3>1, <3>2
  <2>10. OneText(m)'
    <3>1. CASE pc' = "failing"
      BY <1>9, <2>0, <3>1 DEF Message, OneText, FullIndex
    <3>2. CASE pc' # "failing"
      BY <1>0, <1>2, <2>5, <3>2 DEF OneText, FullIndex, WorkerOK
    <3> QED
      BY <3>1, <3>2
  <2> QED
    BY <2>2, <2>3, <2>4, <2>8, <2>9, <2>10 DEF Message
<1> QED
  BY <1>10, <1>11, <1>12, <1>13 DEF IInv

\* The drain of a row ends, done or failed.
LEMMA EndSteps ==
  ASSUME IInv, Finish \/ MarkFailed
  PROVE  IInv'
<1> USE EmbedAssumption DEF messageVars, scriptVars, observers
<1>0. /\ MessagesOK /\ TablesOK /\ WorkerOK /\ ScriptOK /\ ObserversOK /\ Hands
      /\ pc \in {"done", "dropping", "failing"} /\ pc \in AfterRead
  BY DEF IInv, Shape, Finish, MarkFailed, AfterRead
<1>1. /\ UNCHANGED <<exists, text, version, blanks, chunks, ready, degraded, batch, model, script,
                     page, scripts, faults, crashes, race, orphaned>>
      /\ cur' = NoJob /\ ((pc' = "idle" /\ batch = {}) \/ pc' = "drain")
  BY DEF Finish, MarkFailed, NextRow
<1>2. /\ cur.message \in Messages /\ cur.attempts \in 0 .. MaxAttempts /\ cur.attempts < MaxAttempts
      /\ \A job \in batch : job.message # cur.message
      /\ Draining(cur.message) /\ Claimed(cur.message)
  BY <1>0, CurFacts
<1>3. PICK m \in Messages : m = cur.message
  BY <1>2
<1>4. Message(m) /\ row[m] \in RowRec /\ row[m].attempts \in Nat /\ tries[m] \in Nat
  BY MessageFacts
<1>5. cur.attempts + 1 \in 0 .. MaxAttempts
  BY <1>2
<1>6. /\ row' \in [Messages -> RowRec] /\ fifo' \in Seq(Messages) /\ tries' \in [Messages -> Nat]
      /\ \A n \in Messages : n # m => row'[n] = row[n] /\ tries'[n] = tries[n]
      /\ \/ /\ pc \in {"done", "dropping"} /\ UNCHANGED tries
            /\ row'[m].status = "none" /\ row'[m].attempts = 0
         \/ /\ ~HasRow(m) /\ row'[m] = row[m] /\ tries'[m] = tries[m] + 1
         \/ /\ HasRow(m) /\ tries'[m] = tries[m] + 1
            /\ row'[m].attempts = cur.attempts + 1
            /\ row'[m].status = IF cur.attempts + 1 >= MaxAttempts THEN "failed" ELSE "pending"
  <2>1. CASE Finish
    <3>1. markDone(m) /\ UNCHANGED tries /\ pc \in {"done", "dropping"}
      BY <1>3, <2>1 DEF Finish
    <3> QED
      BY <1>0, <3>1, MarkDoneEffect DEF ObserversOK
  <2>2. CASE MarkFailed
    <3>1. /\ markFailed(m, cur.attempts + 1) /\ UNCHANGED fifo
          /\ tries' = [tries EXCEPT ![m] = tries[m] + 1]
      BY <1>3, <2>2 DEF MarkFailed
    <3>2. /\ tries' \in [Messages -> Nat] /\ tries'[m] = tries[m] + 1
          /\ \A n \in Messages : n # m => tries'[n] = tries[n]
      BY <1>0, <1>4, <3>1 DEF ObserversOK
    <3>3. /\ row' \in [Messages -> RowRec]
          /\ \A n \in Messages : n # m => row'[n] = row[n]
          /\ ~HasRow(m) => row'[m] = row[m]
          /\ HasRow(m) =>
               /\ row'[m].attempts = cur.attempts + 1
               /\ row'[m].status = IF cur.attempts + 1 >= MaxAttempts THEN "failed" ELSE "pending"
      BY <1>0, <1>5, <3>1, MarkFailedEffect
    <3>4. fifo' \in Seq(Messages)
      BY <1>0, <3>1 DEF TablesOK
    <3> QED
      BY <3>2, <3>3, <3>4
  <2> QED
    BY <2>1, <2>2
<1>7. Shape'
  <2>1. WorkerOK'
    BY <1>0, <1>1 DEF WorkerOK
  <2> QED
    BY <1>0, <1>1, <1>6, <2>1, WorkerShape DEF WorkerGoes, TablesOK, ObserversOK
<1>8. Hands'
  BY <1>0, <1>1 DEF Hands, AfterRead
<1>9. \A n \in Messages : ~Draining(n)'
  BY <1>1 DEF Draining, AfterRead
<1>10. ASSUME NEW n \in Messages, n # m PROVE Message(n)'
  <2>1. (Claimed(n)' => Claimed(n)) /\ (Claimed(n) => Claimed(n)')
    BY <1>1, <1>3, <1>9, <1>10 DEF Claimed, Draining
  <2> QED
    BY <1>0, <1>1, <1>6, <1>9, <1>10, <2>1, SameLeft DEF Same
<1>11. Message(m)'
  <2>1. ~Claimed(m)'
    BY <1>1, <1>2, <1>3, <1>9 DEF Claimed
  <2>2. exists[m] # "live" => row[m].status = "none"
    BY <1>4 DEF Message, Rows
  <2>3. Rows(m)' /\ Owned(m)' /\ Kept(m)'
    <3>1. row[m].status # "none" <=> HasRow(m)
      BY DEF HasRow
    <3>2. Rows(m)'
      BY SMTT(20), <1>1, <1>2, <1>4, <1>6, <2>1, <2>2, <3>1 DEF Message, Rows
    <3>3. row'[m].status # "in_progress"
      BY <1>6, <3>1
    <3> QED
      BY <2>1, <3>2, <3>3 DEF Owned, Kept
  <2>4. Counted(m)'
    <3> SUFFICES ASSUME race[m] = "no" PROVE row'[m].attempts <= tries'[m]
      BY <1>1, <1>2, <1>3, <1>9 DEF Counted
    <3>1. row[m].attempts <= tries[m] /\ cur.attempts <= tries[m]
      BY <1>2, <1>3, <1>4 DEF Message, Counted
    <3> QED
      BY SMTT(20), <1>2, <1>4, <1>6, <3>1
  <2>5. Drained(m)'
    BY <1>9 DEF Drained
  <2>6. Agrees(m)'
    <3> SUFFICES ASSUME race[m] # "read"
                 PROVE  /\ Eligible(m) => HasRow(m)' \/ Indexed(m)'
                        /\ ~Eligible(m) => chunks[m] = {}
      BY <1>1 DEF Agrees, Eligible
    <3>1. ~Eligible(m) => chunks[m] = {}
      BY <1>4 DEF Message, Agrees
    <3>2. ASSUME Eligible(m) PROVE HasRow(m)' \/ Indexed(m)'
      <4>1. race[m] \in {"no", "claimed", "read"}
        BY <1>2, <1>3, MessageFacts
      <4>2. HasRow(m)
        BY <1>2, <1>3, <1>4, <3>2, <4>1 DEF Message, Kept, Eligible
      <4>3. CASE row'[m].status # "none"
        BY <4>3 DEF HasRow
      <4>4. CASE row'[m].status = "none"
        <5>1. pc = "done"
          BY <1>2, <1>3, <1>4, <1>6, <3>2, <4>2, <4>4 DEF Message, Drained
        <5>2. chunks[m] = FullIndex(text[m], model)
          BY <1>2, <1>3, <1>4, <3>2, <5>1 DEF Message, Drained, Eligible
        <5> QED
          BY <1>0, <1>1, <5>2 DEF Indexed, WorkerOK, FullIndex
      <4> QED
        BY <4>3, <4>4
    <3> QED
      BY <3>1, <3>2
  <2>7. OneText(m)'
    BY <1>1, <1>4 DEF Message, OneText, FullIndex
  <2> QED
    BY <2>3, <2>4, <2>5, <2>6, <2>7 DEF Message
<1> QED
  BY <1>7, <1>8, <1>10, <1>11 DEF IInv

-----------------------------------------------------------------------------
(***************************************************************************)
(* The theorems.                                                           *)
(***************************************************************************)
\* An empty outbox satisfies the invariant.
LEMMA InitHolds == Init => IInv
<1> USE EmbedAssumption
<1> SUFFICES ASSUME Init PROVE IInv
  OBVIOUS
<1>0. 0 \in 0 .. MaxVersion /\ 0 \in 0 .. MaxCrashes /\ 0 \in 0 .. MaxFaults /\ 0 \in 0 .. MaxBlanks
      /\ 0 \in 0 .. MaxScripts
  OBVIOUS
<1>1. Shape
  <2>1. MessagesOK
    BY <1>0 DEF Init, MessagesOK
  <2>2. TablesOK
    BY RowFacts DEF Init, TablesOK
  <2>3. WorkerOK
    BY <1>0 DEF Init, WorkerOK
  <2>4. ScriptOK /\ ObserversOK
    BY <1>0 DEF Init, ScriptOK, ObserversOK
  <2> QED
    BY <2>1, <2>2, <2>3, <2>4 DEF Shape
<1>2. Hands
  BY DEF Init, Hands, AfterRead
<1>3. ASSUME NEW m \in Messages PROVE Message(m)
  <2>1. ~Claimed(m) /\ ~Draining(m)
    BY DEF Init, Claimed, Draining, AfterRead
  <2>2. /\ exists[m] = "unborn" /\ text[m] = 0 /\ chunks[m] = {} /\ race[m] = "no" /\ tries[m] = 0
        /\ row[m].status = "none" /\ row[m].attempts = 0 /\ batch = {}
    BY RowFacts DEF Init
  <2>3. Rows(m) /\ Owned(m) /\ Kept(m) /\ Counted(m) /\ Drained(m)
    BY <2>1, <2>2 DEF Rows, Owned, Kept, Counted, Drained
  <2>4. Agrees(m) /\ OneText(m)
    BY <1>0, <2>2 DEF Agrees, OneText, Eligible
  <2> QED
    BY <2>3, <2>4 DEF Message
<1> QED
  BY <1>1, <1>2, <1>3 DEF IInv

\* Every step keeps the invariant.
LEMMA NextKeeps == IInv /\ [Next]_vars => IInv'
<1> SUFFICES ASSUME IInv, [Next]_vars PROVE IInv'
  OBVIOUS
<1>1. ASSUME NEW m \in Messages, NEW indexable \in BOOLEAN,
             \/ CreateMessage(m, indexable) \/ CloneTurn(m, indexable)
             \/ UpdateMessageContent(m, indexable)
      PROVE  IInv'
  BY <1>1, CreateStep, CloneStep, UpdateStep
<1>2. CASE DeleteAllMessages
  BY <1>2, DeleteStep
<1>3. CASE SelectGaps \/ SelectStale \/ ScriptEnds
  BY <1>3, SelectSteps
<1>4. ASSUME NEW m \in Messages, EnqueueGap(m) \/ EnqueueStale(m) PROVE IInv'
  BY <1>4, EnqueueSteps
<1>5. ASSUME NEW m \in Messages, BackoffElapses(m) PROVE IInv'
  BY <1>5, BackoffStep
<1>6. CASE Crash \/ TickAborts
  BY <1>6, GiveUpSteps
<1>7. CASE Warm \/ TickDegraded
  BY <1>7, ReadySteps
<1>8. CASE Start \/ TickResets
  BY <1>8, StartSteps
<1>9. CASE ClaimBatch
  BY <1>9, ClaimStep
<1>10. CASE ReadMessage
  BY <1>10, ReadStep
<1>11. CASE Embed \/ DeleteChunks \/ RowThrows
  BY <1>11, DrainSteps
<1>12. CASE InsertChunk
  BY <1>12, InsertStep
<1>13. CASE Finish \/ MarkFailed
  BY <1>13, EndSteps
<1>14. CASE UNCHANGED vars
  <2> USE DEF vars, messageVars, tableVars, workerVars, scriptVars, observers
  <2>1. HandsRest /\ \A n \in Messages : Same(n)
    BY <1>14 DEF HandsRest, Same
  <2>2. Shape'
    BY <1>14 DEF IInv, Shape, MessagesOK, TablesOK, WorkerOK, ScriptOK, ObserversOK
  <2> QED
    BY <2>1, <2>2, SameRests, HandsKept DEF IInv
<1> QED
  BY <1>1, <1>2, <1>3, <1>4, <1>5, <1>6, <1>7, <1>8, <1>9, <1>10, <1>11, <1>12, <1>13, <1>14
     DEF Next, User, Script, Tick

\* The invariant holds in every reachable state.
THEOREM Inductive == Spec => []IInv
  BY InitHolds, NextKeeps, PTL DEF Spec

\* Rows, chunks, claims and jobs keep their types: a drain works on a chunk its
\* text has, and a row never counts more attempts than MaxAttempts.
THEOREM TypeCorrect == Spec => []TypeOK
<1>1. IInv => TypeOK
  <2> SUFFICES ASSUME IInv PROVE TypeOK
    OBVIOUS
  <2>1. cur = NoJob \/ cur \in CurRec
    BY DEF IInv, Hands
  <2> QED
    BY <2>1 DEF IInv, Shape, MessagesOK, TablesOK, WorkerOK, ScriptOK, ObserversOK, TypeOK,
                RowRec, ChunkRec, JobRec, CurRec
<1> QED
  BY <1>1, Inductive, PTL

\* A row in progress is in the worker's hands, waits for the recovery of the
\* next start, or was stranded by a tick that was aborted.
THEOREM ClaimsAreOwned == Spec => []ClaimedRowOwned
<1>1. IInv => ClaimedRowOwned
  BY DEF IInv, Message, Owned, ClaimedRowOwned
<1> QED
  BY <1>1, Inductive, PTL

\* A message is given up only after MaxAttempts failed drains since it was
\* enqueued, unless it was written while its row was claimed.
THEOREM RetriesBeforeGivingUp == Spec => []GivenUpAfterRetries
<1>1. IInv => GivenUpAfterRetries
  <2> SUFFICES ASSUME IInv, NEW m \in Messages, row[m].status = "failed",
                      race[m] \notin {"claimed", "read"}
               PROVE  tries[m] >= MaxAttempts
    BY DEF GivenUpAfterRetries
  <2>1. row[m].attempts \in Nat /\ tries[m] \in Nat /\ Message(m)
    BY MessageFacts
  <2>2. race[m] = "no"
    BY <2>1, MessageFacts DEF Message, Rows
  <2>3. row[m].attempts >= MaxAttempts /\ row[m].attempts <= tries[m]
    BY <2>1, <2>2 DEF Message, Rows, Counted
  <2> QED
    BY <2>1, <2>3, EmbedAssumption
<1> QED
  BY <1>1, Inductive, PTL

\* The index agrees with the messages, or a row records the work that will make
\* it agree, except after a write that the worker's markDone overtook and for a
\* clone, which is a gap for the backfill.
THEOREM IndexAlwaysAgrees == Spec => []IndexAgrees
<1>1. IInv => IndexAgrees
  <2> SUFFICES ASSUME IInv, NEW m \in Messages, Message(m)
               PROVE  /\ race[m] # "read" =>
                           IF Eligible(m) THEN \/ HasRow(m) \/ Indexed(m)
                                               \/ race[m] = "cloned" /\ m \in Gaps
                           ELSE chunks[m] = {}
                      /\ OneText(m)
    BY DEF IInv, IndexAgrees, OneText
  <2>1. race[m] = "cloned" /\ Eligible(m) => m \in Gaps
    BY DEF Message, Rows, Gaps, HasRow
  <2> QED
    BY <2>1 DEF Message, Agrees
<1> QED
  BY <1>1, Inductive, PTL
=============================================================================
