---------------------------- MODULE EmbedOutbox ----------------------------
(***************************************************************************)
(* The search index of the messages: the outbox that messages, edits and    *)
(* the backfill script write (message-embed-outbox.ts), and the worker that *)
(* drains it into message_chunks (embed-worker.ts).  A fork of a            *)
(* conversation copies its messages past the outbox.  A text is a version   *)
(* number, 0 a text that is not indexable; it is cut into Parts chunks.     *)
(* One worker runs at a time (the lockfile); a crash ends its process.      *)
(***************************************************************************)
EXTENDS Naturals, Sequences, FiniteSets

CONSTANTS
  Messages,     \* messages of one conversation, which may be a fork
  Parts,        \* chunks of an indexable text
  BatchSize,    \* opts.batchSize
  MaxAttempts,  \* opts.maxAttempts
  MaxVersion,   \* bound: indexable texts
  MaxBlanks,    \* bound: edits to a text that is not indexable
  MaxFaults,    \* bound: embeddings that throw and statements that are rejected
  MaxCrashes,   \* bound: ends of the process
  MaxScripts    \* bound: runs of the backfill script

ASSUME EmbedAssumption ==
  /\ IsFiniteSet(Messages)
  /\ Parts \in Nat \ {0} /\ BatchSize \in Nat \ {0} /\ MaxAttempts \in Nat \ {0}
  /\ {MaxVersion, MaxBlanks, MaxFaults, MaxCrashes, MaxScripts} \subseteq Nat

VARIABLES
  exists,    \* "unborn", "live" or "gone": the row of `messages`
  text,      \* its content
  version,   \* indexable texts written so far, which gives each its number
  row,       \* message_embed_outbox
  fifo,      \* the messages that have a row, by created_at
  chunks,    \* message_chunks
  model,     \* EMBEDDING_MODEL_ID of the deployed build
  pc,        \* where the worker's tick is
  ready,     \* isEmbeddingReady()
  degraded,  \* _inDegradedMode
  batch,     \* the rows claimed and not yet drained, with their attempts
  cur,       \* the row being drained: message, text read, chunk to insert
  script,    \* the backfill script: "off", "gaps" or "stale"
  page,      \* the messages it has selected and not yet enqueued
  faults, crashes, blanks, scripts,
  race,      \* observer: the message was last written while its row was not
             \* claimed ("no"), before its text was read ("claimed"), or after ("read"),
             \* or was cloned and never enqueued since ("cloned")
  tries,     \* observer: drains of a message that failed since it was enqueued
  orphaned   \* observer: a tick was aborted, or a recovery failed, since the last recovery

messageVars == <<exists, text, version, blanks>>
tableVars   == <<row, fifo, chunks>>
workerVars  == <<pc, ready, degraded, batch, cur, model>>
scriptVars  == <<script, page, scripts>>
observers   == <<race, tries, orphaned>>
vars == <<messageVars, tableVars, workerVars, scriptVars, faults, crashes, observers>>

NoRow    == [status |-> "none", attempts |-> 0, backoff |-> FALSE]
FreshRow == [status |-> "pending", attempts |-> 0, backoff |-> FALSE]
Statuses == {"none", "pending", "in_progress", "failed"}

HasRow(m)   == row[m].status # "none"
Eligible(m) == exists[m] = "live" /\ text[m] > 0

\* The chunks a complete drain of text v writes.
FullIndex(v, mod) == [ver : {v}, part : 1 .. Parts, model : {mod}]

NoJob == [message |-> 0, attempts |-> 0, ver |-> 0, part |-> 0]

\* The steps of a drain at which the text has been read.
AfterRead == {"dropping", "embedding", "deleting", "inserting", "done", "failing"}

Draining(m) == pc \in AfterRead /\ cur.message = m
Claimed(m)  == Draining(m) \/ \E job \in batch : job.message = m

\* A drain works on a chunk its text has, and counts no more attempts than MaxAttempts.
TypeOK ==
  /\ exists \in [Messages -> {"unborn", "live", "gone"}]
  /\ text \in [Messages -> 0 .. MaxVersion] /\ version \in 0 .. MaxVersion
  /\ row \in [Messages -> [status : Statuses, attempts : 0 .. MaxAttempts, backoff : BOOLEAN]]
  /\ fifo \in Seq(Messages)
  /\ chunks \in [Messages -> SUBSET [ver : 0 .. MaxVersion, part : 1 .. Parts, model : 0 .. MaxCrashes]]
  /\ model \in 0 .. MaxCrashes
  /\ pc \in {"down", "idle", "claim", "drain"} \cup AfterRead
  /\ ready \in BOOLEAN /\ degraded \in BOOLEAN
  /\ batch \in SUBSET [message : Messages, attempts : 0 .. MaxAttempts]
  /\ cur = NoJob \/ cur \in [message : Messages, attempts : 0 .. MaxAttempts,
                            ver : 0 .. MaxVersion, part : 1 .. Parts]
  /\ script \in {"off", "gaps", "stale"} /\ page \in SUBSET Messages
  /\ race \in [Messages -> {"no", "claimed", "read", "cloned"}] /\ tries \in [Messages -> Nat] /\ orphaned \in BOOLEAN
  /\ faults \in 0 .. MaxFaults /\ crashes \in 0 .. MaxCrashes
  /\ blanks \in 0 .. MaxBlanks /\ scripts \in 0 .. MaxScripts

Init ==
  /\ exists = [m \in Messages |-> "unborn"]
  /\ text = [m \in Messages |-> 0] /\ version = 0
  /\ row = [m \in Messages |-> NoRow] /\ fifo = << >>
  /\ chunks = [m \in Messages |-> {}] /\ model = 0
  /\ pc = "down" /\ ready = FALSE /\ degraded = FALSE
  /\ batch = {} /\ cur = NoJob
  /\ script = "off" /\ page = {}
  /\ faults = 0 /\ crashes = 0 /\ blanks = 0 /\ scripts = 0
  /\ race = [m \in Messages |-> "no"] /\ tries = [m \in Messages |-> 0] /\ orphaned = FALSE

----------------------------------------------------------------------------
(* The outbox *)

Queued(m) == IF HasRow(m) THEN fifo ELSE Append(fifo, m)

\* fifo without m, which it holds at most once.
Dequeued(m) ==
  IF \E i \in DOMAIN fifo : fifo[i] = m
  THEN LET i == CHOOSE i \in DOMAIN fifo : fifo[i] = m
       IN  SubSeq(fifo, 1, i - 1) \o SubSeq(fifo, i + 1, Len(fifo))
  ELSE fifo

\* enqueueEmbedJob: upsert; created_at survives a conflict.
enqueueEmbedJob(m) ==
  /\ row' = [row EXCEPT ![m] = FreshRow]
  /\ fifo' = Queued(m)
  /\ tries' = [tries EXCEPT ![m] = 0]

\* enqueueEmbedJobIfAbsent.
enqueueEmbedJobIfAbsent(m) ==
  IF HasRow(m) THEN UNCHANGED <<row, fifo, tries>> ELSE enqueueEmbedJob(m)

\* clearMessageEmbedState.
clearMessageEmbedState(m) ==
  /\ row' = [row EXCEPT ![m] = NoRow]
  /\ fifo' = Dequeued(m)
  /\ chunks' = [chunks EXCEPT ![m] = {}]

\* markDone deletes the row whatever its status.
markDone(m) ==
  /\ row' = [row EXCEPT ![m] = NoRow]
  /\ fifo' = Dequeued(m)

\* Mutant: the last attempt is not made.
markFailedEarly(m, attempts) ==
  row' = [row EXCEPT ![m] =
            IF ~HasRow(m) THEN @
            ELSE [status |-> IF attempts + 1 >= MaxAttempts THEN "failed" ELSE "pending",
                  attempts |-> attempts,
                  backoff |-> attempts + 1 < MaxAttempts]]

\* markFailed writes the row whatever its status; no row, no effect.
markFailed(m, attempts) ==
  row' = [row EXCEPT ![m] =
            IF ~HasRow(m) THEN @
            ELSE [status |-> IF attempts >= MaxAttempts THEN "failed" ELSE "pending",
                  attempts |-> attempts,
                  backoff |-> attempts < MaxAttempts]]

----------------------------------------------------------------------------
(* Messages *)

Raced(m) ==
  race' = [race EXCEPT ![m] = IF Draining(m) THEN "read"
                              ELSE IF Claimed(m) THEN "claimed" ELSE "no"]

\* createMessage: the insert and the enqueue are one transaction.
CreateMessage(m, indexable) ==
  /\ exists[m] = "unborn"
  /\ exists' = [exists EXCEPT ![m] = "live"]
  /\ \/ /\ indexable /\ version < MaxVersion
        /\ version' = version + 1 /\ text' = [text EXCEPT ![m] = version + 1]
        /\ enqueueEmbedJob(m)
        /\ UNCHANGED blanks
     \/ /\ ~indexable /\ blanks < MaxBlanks
        /\ blanks' = blanks + 1
        /\ UNCHANGED <<text, version, row, fifo, tries>>
  /\ UNCHANGED <<chunks, workerVars, scriptVars, faults, crashes, race, orphaned>>

\* cloneTurnsIntoNewConversation, one message of the loop: a bare insert, of the
\* row alone.  A later statement that is rejected deletes the new conversation,
\* as DeleteAllMessages does.
CloneTurn(m, indexable) ==
  /\ exists[m] = "unborn"
  /\ exists' = [exists EXCEPT ![m] = "live"]
  /\ \/ /\ indexable /\ version < MaxVersion
        /\ version' = version + 1 /\ text' = [text EXCEPT ![m] = version + 1]
        /\ race' = [race EXCEPT ![m] = "cloned"]
        /\ UNCHANGED blanks
     \/ /\ ~indexable /\ blanks < MaxBlanks
        /\ blanks' = blanks + 1
        /\ UNCHANGED <<text, version, race>>
  /\ UNCHANGED <<tableVars, workerVars, scriptVars, faults, crashes, tries, orphaned>>

\* updateMessageContent: an indexable text is enqueued, another clears the
\* message's row and chunks.
UpdateMessageContent(m, indexable) ==
  /\ exists[m] = "live"
  /\ \/ /\ indexable /\ version < MaxVersion
        /\ version' = version + 1 /\ text' = [text EXCEPT ![m] = version + 1]
        /\ enqueueEmbedJob(m)
        /\ UNCHANGED <<chunks, blanks>>
     \/ /\ ~indexable /\ text[m] > 0 /\ blanks < MaxBlanks
        /\ blanks' = blanks + 1
        /\ text' = [text EXCEPT ![m] = 0]
        /\ clearMessageEmbedState(m)
        /\ UNCHANGED <<version, tries>>
  /\ Raced(m)
  /\ UNCHANGED <<exists, workerVars, scriptVars, faults, crashes, orphaned>>

\* deleteAllMessagesForConversation: rows and chunks go with the messages
\* (ON DELETE CASCADE).
DeleteAllMessages ==
  /\ \E m \in Messages : exists[m] = "live"
  /\ exists' = [m \in Messages |-> IF exists[m] = "live" THEN "gone" ELSE exists[m]]
  /\ row' = [m \in Messages |-> IF exists[m] = "live" THEN NoRow ELSE row[m]]
  /\ chunks' = [m \in Messages |-> IF exists[m] = "live" THEN {} ELSE chunks[m]]
  /\ fifo' = << >>
  /\ UNCHANGED <<text, version, blanks, workerVars, scriptVars, faults, crashes, observers>>

----------------------------------------------------------------------------
(* The backfill script, a process of its own *)

\* selectGapPage, selectStaleModelPage.
Gaps  == {m \in Messages : Eligible(m) /\ chunks[m] = {} /\ ~HasRow(m)}
Stale == {m \in Messages : Eligible(m) /\ \E c \in chunks[m] : c.model # model}

SelectGaps ==
  /\ script = "off" /\ scripts < MaxScripts
  /\ script' = "gaps" /\ page' = Gaps /\ scripts' = scripts + 1
  /\ UNCHANGED <<messageVars, tableVars, workerVars, faults, crashes, observers>>

\* The insert of a message that is gone violates the foreign key and ends the
\* script.
EnqueueGap(m) ==
  /\ script = "gaps" /\ m \in page
  /\ \/ /\ exists[m] = "live"
        /\ enqueueEmbedJobIfAbsent(m)
        /\ race' = [race EXCEPT ![m] = IF @ = "cloned" THEN "no" ELSE @]
        /\ page' = page \ {m} /\ UNCHANGED script
     \/ /\ exists[m] = "gone"
        /\ page' = {} /\ script' = "off"
        /\ UNCHANGED <<row, fifo, tries, race>>
  /\ UNCHANGED <<messageVars, chunks, workerVars, scripts, faults, crashes, orphaned>>

SelectStale ==
  /\ script = "gaps" /\ page = {}
  /\ script' = "stale" /\ page' = Stale
  /\ UNCHANGED <<messageVars, tableVars, workerVars, scripts, faults, crashes, observers>>

EnqueueStale(m) ==
  /\ script = "stale" /\ m \in page
  /\ \/ /\ exists[m] = "live"
        /\ enqueueEmbedJob(m)
        /\ race' = [race EXCEPT ![m] = IF @ = "read" THEN @
                                       ELSE IF Claimed(m) THEN "claimed" ELSE "no"]
        /\ page' = page \ {m} /\ UNCHANGED script
     \/ /\ exists[m] = "gone"
        /\ page' = {} /\ script' = "off"
        /\ UNCHANGED <<row, fifo, tries, race>>
  /\ UNCHANGED <<messageVars, chunks, workerVars, scripts, faults, crashes, orphaned>>

\* The second pass is an option (refreshStale).
ScriptEnds ==
  /\ script \in {"gaps", "stale"} /\ page = {}
  /\ script' = "off"
  /\ UNCHANGED <<messageVars, tableVars, workerVars, page, scripts, faults, crashes, observers>>

----------------------------------------------------------------------------
(* The worker *)

\* Mutant: start() does not recover the rows in flight.
NotRecovered == row

\* runBacklogRecovery.
Recovered ==
  [m \in Messages |-> IF row[m].status = "in_progress"
                      THEN [row[m] EXCEPT !.status = "pending"] ELSE row[m]]

\* start() by a fresh process, maybe of a build with another model; a recovery
\* that is rejected is logged.
Start ==
  /\ pc = "down"
  /\ pc' = "idle"
  /\ \/ row' = Recovered /\ orphaned' = FALSE /\ UNCHANGED faults
     \/ /\ faults < MaxFaults /\ faults' = faults + 1
        /\ orphaned' = TRUE /\ UNCHANGED row
  /\ model' \in {model, crashes}
  /\ UNCHANGED <<messageVars, fifo, chunks, ready, degraded, batch, cur, scriptVars,
                 crashes, race, tries>>

\* The process ends, at any point of a tick.
Crash ==
  /\ pc # "down" /\ crashes < MaxCrashes
  /\ pc' = "down" /\ crashes' = crashes + 1
  /\ ready' = FALSE /\ degraded' = FALSE /\ batch' = {} /\ cur' = NoJob
  /\ UNCHANGED <<messageVars, tableVars, model, scriptVars, faults, observers>>

\* warmupEmbeddings loads the model.
Warm ==
  /\ pc # "down" /\ ~ready
  /\ ready' = TRUE
  /\ UNCHANGED <<messageVars, tableVars, pc, degraded, batch, cur, model, scriptVars,
                 faults, crashes, observers>>

\* A tick before the model is loaded drains nothing.
TickDegraded ==
  /\ pc = "idle" /\ ~ready /\ ~degraded
  /\ degraded' = TRUE
  /\ UNCHANGED <<messageVars, tableVars, pc, ready, batch, cur, model, scriptVars,
                 faults, crashes, observers>>

\* The first ready tick after it: resetAttemptsForPending.
TickResets ==
  /\ pc = "idle" /\ ready /\ degraded
  /\ degraded' = FALSE
  /\ pc' = "claim"
  /\ row' = [m \in Messages |-> IF row[m].status = "pending" THEN FreshRow ELSE row[m]]
  /\ tries' = [m \in Messages |-> IF row[m].status = "pending" THEN 0 ELSE tries[m]]
  /\ UNCHANGED <<messageVars, fifo, chunks, ready, batch, cur, model, scriptVars, faults,
                 crashes, race, orphaned>>

Due == {m \in Messages : row[m].status = "pending" /\ ~row[m].backoff}

Older(m, n) ==
  \E i, j \in DOMAIN fifo : i < j /\ fifo[i] = m /\ fifo[j] = n

\* The rows claimBatch picks: the oldest BatchSize of the due ones.
Oldest(B) ==
  /\ B \subseteq Due
  /\ Cardinality(B) = IF Cardinality(Due) < BatchSize THEN Cardinality(Due) ELSE BatchSize
  /\ \A m \in B, n \in Due \ B : Older(m, n)

ClaimBatch ==
  /\ pc = "claim" \/ (pc = "idle" /\ ready /\ ~degraded)
  /\ \E B \in SUBSET Messages :
       /\ Oldest(B)
       /\ row' = [m \in Messages |-> IF m \in B THEN [row[m] EXCEPT !.status = "in_progress"]
                                     ELSE row[m]]
       /\ batch' = {[message |-> m, attempts |-> row[m].attempts] : m \in B}
       /\ pc' = IF B = {} THEN "idle" ELSE "drain"
  /\ UNCHANGED <<messageVars, fifo, chunks, ready, degraded, cur, model, scriptVars,
                 faults, crashes, observers>>

\* The SELECT of the loop's body; a message that is gone or not indexable is
\* dropped from the outbox.
ReadMessage ==
  /\ pc = "drain"
  /\ \E job \in batch :
       /\ batch' = batch \ {job}
       /\ cur' = [message |-> job.message, attempts |-> job.attempts,
                  ver |-> text[job.message], part |-> 1]
       /\ pc' = IF Eligible(job.message) THEN "embedding" ELSE "dropping"
  /\ UNCHANGED <<messageVars, tableVars, ready, degraded, model, scriptVars, faults,
                 crashes, observers>>

\* chunkByTokens and generateEmbedding.
Embed ==
  /\ pc = "embedding"
  /\ pc' = "deleting"
  /\ UNCHANGED <<messageVars, tableVars, ready, degraded, batch, cur, model, scriptVars,
                 faults, crashes, observers>>

\* Mutant: the old chunks are left in place.
KeepChunks ==
  /\ pc = "deleting"
  /\ pc' = "inserting"
  /\ UNCHANGED <<messageVars, tableVars, ready, degraded, batch, cur, model,
                 scriptVars, faults, crashes, observers>>

DeleteChunks ==
  /\ pc = "deleting"
  /\ chunks' = [chunks EXCEPT ![cur.message] = {}]
  /\ pc' = "inserting"
  /\ UNCHANGED <<messageVars, row, fifo, ready, degraded, batch, cur, model, scriptVars,
                 faults, crashes, observers>>

\* Mutant: the loop runs once too often.
InsertChunkBeyond ==
  /\ pc = "inserting"
  /\ exists[cur.message] = "live"
  /\ chunks' = [chunks EXCEPT ![cur.message] =
                   @ \cup {[ver |-> cur.ver, part |-> cur.part, model |-> model]}]
  /\ \/ cur.part <= Parts /\ cur' = [cur EXCEPT !.part = @ + 1] /\ UNCHANGED pc
     \/ cur.part > Parts /\ pc' = "done" /\ UNCHANGED cur
  /\ UNCHANGED <<messageVars, row, fifo, ready, degraded, batch, model, scriptVars,
                 faults, crashes, observers>>

\* One INSERT; a message that is gone violates the foreign key.
InsertChunk ==
  /\ pc = "inserting"
  /\ \/ /\ exists[cur.message] = "live"
        /\ chunks' = [chunks EXCEPT ![cur.message] =
                         @ \cup {[ver |-> cur.ver, part |-> cur.part, model |-> model]}]
        /\ \/ cur.part < Parts /\ cur' = [cur EXCEPT !.part = @ + 1] /\ UNCHANGED pc
           \/ cur.part = Parts /\ pc' = "done" /\ UNCHANGED cur
     \/ exists[cur.message] = "gone" /\ pc' = "failing" /\ UNCHANGED <<chunks, cur>>
  /\ UNCHANGED <<messageVars, row, fifo, ready, degraded, batch, model, scriptVars,
                 faults, crashes, observers>>

\* The loop goes on, or the tick ends (its probe and ANALYZE change nothing).
NextRow ==
  /\ pc' = IF batch = {} THEN "idle" ELSE "drain"
  /\ cur' = NoJob

\* Mutant: a message that is not indexable any more is skipped, its row kept.
FinishKeepsDropped ==
  /\ pc \in {"done", "dropping"}
  /\ IF pc = "done" THEN markDone(cur.message) ELSE UNCHANGED <<row, fifo>>
  /\ NextRow
  /\ UNCHANGED <<messageVars, chunks, ready, degraded, batch, model, scriptVars, faults,
                 crashes, observers>>

\* markDone, after the chunks or without them.
Finish ==
  /\ pc \in {"done", "dropping"}
  /\ markDone(cur.message)
  /\ NextRow
  /\ UNCHANGED <<messageVars, chunks, ready, degraded, batch, model, scriptVars, faults,
                 crashes, observers>>

\* The catch of the row: attempts as claimed, plus one.
MarkFailed ==
  /\ pc = "failing"
  /\ markFailed(cur.message, cur.attempts + 1)
  /\ tries' = [tries EXCEPT ![cur.message] = @ + 1]
  /\ NextRow
  /\ UNCHANGED <<messageVars, fifo, chunks, ready, degraded, batch, model, scriptVars,
                 faults, crashes, race, orphaned>>

\* An embedding throws or a statement of the row is rejected.
RowThrows ==
  /\ faults < MaxFaults /\ faults' = faults + 1
  /\ pc \in AfterRead \ {"failing"}
  /\ pc' = "failing"
  /\ UNCHANGED <<messageVars, tableVars, ready, degraded, batch, cur, model, scriptVars,
                 crashes, observers>>

\* markFailed, claimBatch or resetAttemptsForPending is rejected: the tick is
\* over, and the rows it had claimed stay in progress.
TickAborts ==
  /\ faults < MaxFaults /\ faults' = faults + 1
  /\ \/ pc = "failing" /\ orphaned' = TRUE
     \/ (pc = "claim" \/ (pc = "idle" /\ ready)) /\ UNCHANGED orphaned
  /\ pc' = "idle" /\ batch' = {} /\ cur' = NoJob
  /\ degraded' = IF ready THEN FALSE ELSE degraded
  /\ UNCHANGED <<messageVars, tableVars, ready, model, scriptVars, crashes, race, tries>>

\* next_attempt_after passes.
BackoffElapses(m) ==
  /\ row[m].backoff
  /\ row' = [row EXCEPT ![m].backoff = FALSE]
  /\ UNCHANGED <<messageVars, fifo, chunks, workerVars, scriptVars, faults, crashes,
                 observers>>

----------------------------------------------------------------------------
Tick == \/ TickDegraded \/ TickResets \/ ClaimBatch \/ ReadMessage \/ Embed
        \/ DeleteChunks \/ InsertChunk \/ Finish \/ MarkFailed

User == \/ \E m \in Messages, indexable \in BOOLEAN :
             \/ CreateMessage(m, indexable) \/ CloneTurn(m, indexable)
             \/ UpdateMessageContent(m, indexable)
        \/ DeleteAllMessages

Script == \/ SelectGaps \/ SelectStale \/ ScriptEnds
          \/ \E m \in Messages : EnqueueGap(m) \/ EnqueueStale(m)

Next ==
  \/ User \/ Script
  \/ Start \/ Crash \/ Warm \/ Tick \/ RowThrows \/ TickAborts
  \/ \E m \in Messages : BackoffElapses(m)

\* The event loop runs ticks and their awaits return; the process is restarted,
\* the model loads and backoffs end.
Fairness ==
  /\ WF_vars(Tick) /\ WF_vars(Start) /\ WF_vars(Warm)
  /\ \A m \in Messages : WF_vars(BackoffElapses(m))

Spec == Init /\ [][Next]_vars /\ Fairness

----------------------------------------------------------------------------
Indexed(m) == \E mod \in 0 .. MaxCrashes : chunks[m] = FullIndex(text[m], mod)

\* The index agrees with the messages or work is recorded that will make it
\* agree: an indexable message without a row has exactly the chunks of its
\* text, one that is gone or not indexable has none, and no message has
\* chunks of two texts.  There are two ways out: a write between the worker's
\* read of the text and its markDone, which deletes the row of the new text;
\* and a clone, which nothing enqueues and which stays a gap, without chunks,
\* until a backfill selects it or it is edited.
IndexAgrees ==
  \A m \in Messages :
    /\ race[m] # "read" =>
         IF Eligible(m) THEN \/ HasRow(m) \/ Indexed(m)
                             \/ race[m] = "cloned" /\ m \in Gaps
         ELSE chunks[m] = {}
    /\ \E v \in 0 .. MaxVersion, mod \in 0 .. MaxCrashes : chunks[m] \subseteq FullIndex(v, mod)

\* A message is given up only after MaxAttempts failed drains since it was
\* enqueued, crashes and backfills in between or not, unless it was written
\* while its row was claimed: markFailed then writes the old count.
GivenUpAfterRetries ==
  \A m \in Messages :
    row[m].status = "failed" => tries[m] >= MaxAttempts \/ race[m] \in {"claimed", "read"}

\* A row in progress is in the hands of the worker, waits for the recovery of
\* the next start, or was stranded by a tick that was aborted.
ClaimedRowOwned ==
  \A m \in Messages :
    row[m].status = "in_progress" => Claimed(m) \/ pc = "down" \/ orphaned

\* No job waits for ever: each ends drained, given up or dropped with its
\* message, or was stranded by an aborted tick.
JobsSettle ==
  \A m \in Messages :
    []<>(row[m].status \in {"none", "failed"} \/ (row[m].status = "in_progress" /\ orphaned))
============================================================================
