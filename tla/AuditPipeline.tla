--------------------------- MODULE AuditPipeline ----------------------------
(***************************************************************************)
(* The audit pipeline of internal/audit: handlers hand records to a        *)
(* bounded channel, one goroutine fans them out to the emitters, and main  *)
(* closes the pipeline when the transport's Run returns.  Of the emitters, *)
(* the file writes a line at once and the webhook batches: the batch is    *)
(* flushed by whoever fills it, by the ticker's goroutine and by main, and *)
(* a flush takes the batch under the lock but posts it outside.            *)
(***************************************************************************)
EXTENDS Naturals, Sequences, FiniteSets

CONSTANTS
    Records,    \* records the handlers will emit, each once
    Cap,        \* capacity of the channel (256 in NewPipeline)
    MaxBatch,   \* records that fill a batch (100 unless configured)
    Outputs,    \* the emitters in the order of the policy's audit outputs
    Outlive,    \* whether handlers may outlive Run (HTTP mode)
    Aborts,     \* whether Run may return an error, and main call os.Exit
    Faulty      \* whether a POST may fail

Kinds == {"file", "webhook"}

ASSUME PipelineAssumption ==
    /\ Cap \in Nat \ {0} /\ MaxBatch \in Nat \ {0}
    /\ Outputs \in Seq(Kinds) /\ Len(Outputs) > 0
    /\ \A i, j \in DOMAIN Outputs : Outputs[i] = Outputs[j] => i = j
    /\ Outlive \in BOOLEAN /\ Aborts \in BOOLEAN /\ Faulty \in BOOLEAN

VARIABLES
    held,       \* records not emitted yet
    accepted,   \* records the channel took, in that order
    refused,    \* records dropped on a full channel, or emitted after Close
    queue,      \* Pipeline.ch
    consumer,   \* where Pipeline.run is
    current,    \* the record it is handing to the emitters, in a sequence
    at,         \* the emitter it has reached
    file,       \* the lines of the audit log
    batch,      \* WebhookEmitter.batch
    inflight,   \* per goroutine, the batch it has taken and not yet posted
    posted,     \* the batches the endpoint received
    failed,     \* the records of batches whose POST failed
    ticker,     \* WebhookEmitter.flushLoop
    main        \* where main is

emitters == <<file, batch, inflight, posted, failed>>
run      == <<consumer, current, at>>
vars     == <<held, accepted, refused, queue, run, emitters, ticker, main>>

Flushers == {"consumer", "ticker", "main"}
Elems(s) == {s[i] : i \in DOMAIN s}
Webhook  == "webhook" \in Elems(Outputs)
Alive    == main \notin {"exited", "aborted"}
Open     == main = "running"       \* Close's first statement closes the channel

Init ==
    /\ held = Records /\ accepted = <<>> /\ refused = {}
    /\ queue = <<>> /\ consumer = "ranging" /\ current = <<>> /\ at = 0
    /\ file = <<>> /\ batch = <<>> /\ inflight = [f \in Flushers |-> <<>>]
    /\ posted = <<>> /\ failed = {}
    /\ ticker = "looping" /\ main = "running"

-----------------------------------------------------------------------------
\* Pipeline.Emit, called by a handler: a select that never blocks.  On a
\* closed channel it panics; net/http recovers the panic of a handler that
\* outlived Run, and the record is gone.
EmitUnbounded_(r) ==                       \* the channel grows with the load
    /\ Alive /\ r \in held /\ held' = held \ {r} /\ Open
    /\ queue' = Append(queue, r) /\ accepted' = Append(accepted, r)
    /\ UNCHANGED <<refused, run, emitters, ticker, main>>
EmitDropsOldest_(r) ==                     \* makes room instead of dropping r
    /\ Alive /\ r \in held /\ held' = held \ {r} /\ Open
    /\ queue' = Append(IF Len(queue) < Cap THEN queue ELSE Tail(queue), r)
    /\ accepted' = Append(accepted, r)
    /\ UNCHANGED <<refused, run, emitters, ticker, main>>
Emit(r) ==
    /\ Alive /\ r \in held /\ (Open \/ Outlive)
    /\ held' = held \ {r}
    /\ IF Open /\ Len(queue) < Cap
       THEN /\ queue' = Append(queue, r) /\ accepted' = Append(accepted, r)
            /\ UNCHANGED refused
       ELSE /\ refused' = refused \cup {r} /\ UNCHANGED <<queue, accepted>>
    /\ UNCHANGED <<run, emitters, ticker, main>>

\* Pipeline.run: the next record, and the end of the range loop when the
\* channel is closed and drained.
Dequeue ==
    /\ Alive /\ consumer = "ranging" /\ queue # <<>>
    /\ current' = <<Head(queue)>> /\ queue' = Tail(queue)
    /\ consumer' = "emitting" /\ at' = 1
    /\ UNCHANGED <<held, accepted, refused, emitters, ticker, main>>

Finish ==
    /\ Alive /\ consumer = "ranging" /\ queue = <<>> /\ ~ Open
    /\ consumer' = "done"
    /\ UNCHANGED <<held, accepted, refused, queue, current, at, emitters, ticker, main>>

\* The consumer has done with the emitter it was at.
NextOutput ==
    IF at = Len(Outputs) THEN consumer' = "ranging" /\ current' = <<>> /\ at' = 0
    ELSE consumer' = "emitting" /\ at' = at + 1 /\ UNCHANGED current

\* FileEmitter.Emit, on a file that rotates without error.
WriteLine ==
    /\ Alive /\ consumer = "emitting" /\ Outputs[at] = "file"
    /\ file' = file \o current
    /\ NextOutput
    /\ UNCHANGED <<held, accepted, refused, queue, batch, inflight, posted, failed,
                   ticker, main>>

\* WebhookEmitter.Emit: append under the lock, flush when the batch is full.
AddToBatchLate_ ==                         \* full is one too many
    /\ Alive /\ consumer = "emitting" /\ Outputs[at] = "webhook"
    /\ batch' = batch \o current
    /\ IF Len(batch) > MaxBatch THEN consumer' = "flushing" /\ UNCHANGED <<current, at>>
                                ELSE NextOutput
    /\ UNCHANGED <<held, accepted, refused, queue, file, inflight, posted, failed,
                   ticker, main>>
AddToBatch ==
    /\ Alive /\ consumer = "emitting" /\ Outputs[at] = "webhook"
    /\ batch' = batch \o current
    /\ IF Len(batch) + 1 >= MaxBatch
       THEN consumer' = "flushing" /\ UNCHANGED <<current, at>> ELSE NextOutput
    /\ UNCHANGED <<held, accepted, refused, queue, file, inflight, posted, failed,
                   ticker, main>>

-----------------------------------------------------------------------------
\* WebhookEmitter.Flush of goroutine f, in two steps: take the batch under
\* the lock, post it without.  An error of the POST loses the batch.
TakeCopy_(f) ==                            \* the batch is not reset
    inflight' = [inflight EXCEPT ![f] = batch] /\ UNCHANGED batch
Take(f) == inflight' = [inflight EXCEPT ![f] = batch] /\ batch' = <<>>
Post(f) ==
    /\ inflight' = [inflight EXCEPT ![f] = <<>>]
    /\ \/ posted' = Append(posted, inflight[f]) /\ UNCHANGED failed
       \/ Faulty /\ failed' = failed \cup Elems(inflight[f]) /\ UNCHANGED posted

ConsumerTakes ==
    /\ Alive /\ consumer = "flushing"
    /\ IF batch = <<>> THEN NextOutput /\ UNCHANGED <<batch, inflight>>
       ELSE Take("consumer") /\ consumer' = "posting" /\ UNCHANGED <<current, at>>
    /\ UNCHANGED <<held, accepted, refused, queue, file, posted, failed, ticker, main>>
ConsumerPosts ==
    /\ Alive /\ consumer = "posting"
    /\ Post("consumer") /\ NextOutput
    /\ UNCHANGED <<held, accepted, refused, queue, file, batch, ticker, main>>

\* flushLoop: a tick flushes; closing done ends the loop, though a select
\* that finds both ready may take the tick once more.
TickerTakesNever_ ==                       \* the loop waits for done only
    FALSE /\ UNCHANGED vars
TickerTakes ==
    /\ Alive /\ Webhook /\ ticker = "looping" /\ batch # <<>>
    /\ Take("ticker") /\ ticker' = "posting"
    /\ UNCHANGED <<held, accepted, refused, queue, run, file, posted, failed, main>>
TickerPosts ==
    /\ Alive /\ ticker = "posting"
    /\ Post("ticker") /\ ticker' = "looping"
    /\ UNCHANGED <<held, accepted, refused, queue, run, file, batch, main>>
TickerEnds ==
    /\ Alive /\ ticker = "looping" /\ main \in {"last", "lasting"}
    /\ ticker' = "ended"
    /\ UNCHANGED <<held, accepted, refused, queue, run, emitters, main>>

-----------------------------------------------------------------------------
\* main: Run returns and the deferred Close closes the channel; or Run
\* returns an error and os.Exit(1) skips the deferred calls.
CloseChannel ==
    /\ main = "running" /\ main' = "draining"
    /\ UNCHANGED <<held, accepted, refused, queue, run, emitters, ticker>>
Abort ==
    /\ Aborts /\ main = "running" /\ main' = "aborted"
    /\ UNCHANGED <<held, accepted, refused, queue, run, emitters, ticker>>

\* <-p.done, then Flush and Close of each emitter; the file's change nothing.
DrainedAtOnce_ ==                          \* Close does not wait for the consumer
    /\ main = "draining"
    /\ main' = IF Webhook THEN "flush" ELSE "exited"
    /\ UNCHANGED <<held, accepted, refused, queue, run, emitters, ticker>>
Drained ==
    /\ main = "draining" /\ consumer = "done"
    /\ main' = IF Webhook THEN "flush" ELSE "exited"
    /\ UNCHANGED <<held, accepted, refused, queue, run, emitters, ticker>>

\* The two flushes of main: Pipeline.Close calls Flush, and then Close, which
\* stops the ticker, closes done and flushes again.
MainTakes(from, posting, next) ==
    /\ main = from
    /\ IF batch = <<>> THEN main' = next /\ UNCHANGED <<batch, inflight>>
                       ELSE main' = posting /\ Take("main")
    /\ UNCHANGED <<held, accepted, refused, queue, run, file, posted, failed, ticker>>
MainPosts(posting, next) ==
    /\ main = posting /\ main' = next
    /\ Post("main")
    /\ UNCHANGED <<held, accepted, refused, queue, run, file, batch, ticker>>

Flush     == MainTakes("flush", "flushing", "last") \/ MainPosts("flushing", "last")
LastFlush == MainTakes("last", "lasting", "exited") \/ MainPosts("lasting", "exited")

Consume == Dequeue \/ Finish \/ WriteLine \/ AddToBatch \/ ConsumerTakes \/ ConsumerPosts
Tick    == TickerTakes \/ TickerPosts \/ TickerEnds
Close   == Drained \/ Flush \/ LastFlush

Gone == ~ Alive /\ UNCHANGED vars          \* the process has ended

Next == \/ \E r \in Records : Emit(r)
        \/ Consume \/ Tick \/ Close \/ CloseChannel \/ Abort \/ Gone

\* The goroutines are scheduled, the ticker ticks and the client's 10 s
\* timeout ends a POST.  Nothing makes a handler emit or Run return.
Fairness == WF_vars(Consume) /\ WF_vars(TickerTakes \/ TickerPosts) /\ WF_vars(Close)
Spec == Init /\ [][Next]_vars /\ Fairness

-----------------------------------------------------------------------------
TypeOK ==
    /\ held \subseteq Records /\ refused \subseteq Records /\ failed \subseteq Records
    /\ accepted \in Seq(Records)
    /\ queue \in Seq(Records) /\ Len(queue) <= Cap
    /\ consumer \in {"ranging", "emitting", "flushing", "posting", "done"}
    /\ current \in Seq(Records) /\ at \in 0 .. Len(Outputs)
    /\ file \in Seq(Records) /\ batch \in Seq(Records) /\ Len(batch) <= MaxBatch
    /\ inflight \in [Flushers -> Seq(Records)] /\ posted \in Seq(Seq(Records))
    /\ ticker \in {"looping", "posting", "ended"}
    /\ main \in {"running", "draining", "flush", "flushing", "last", "lasting",
                 "exited", "aborted"}

\* The record the consumer holds has not reached the output of that kind.
Ahead(kind) == IF \E i \in DOMAIN Outputs : Outputs[i] = kind
                     /\ (at < i \/ (at = i /\ consumer = "emitting"))
               THEN current ELSE <<>>

\* The log is the accepted records in the order of their acceptance, but for
\* those the consumer has still to write: nothing overtakes, repeats or is
\* lost between the channel and the file (Pipeline.run, FileEmitter.Emit).
LogInOrder ==
    "file" \in Elems(Outputs) => file \o Ahead("file") \o queue = accepted

\* For the webhook a record is in one place only, and is lost only with a
\* POST that failed: whatever order consumer, ticker and main take, post and
\* give up batches in, no record is sent twice or forgotten (Emit and Flush).
Places == <<Ahead("webhook"), queue, batch, inflight["consumer"], inflight["ticker"],
            inflight["main"]>> \o posted
Accounted ==
    Webhook =>
        /\ Elems(accepted) = failed \cup UNION {Elems(Places[i]) : i \in DOMAIN Places}
        /\ \A i, j \in DOMAIN Places : i # j => Elems(Places[i]) \cap Elems(Places[j]) = {}
        /\ \A i \in DOMAIN Places :
              /\ Cardinality(Elems(Places[i])) = Len(Places[i])
              /\ Elems(Places[i]) \cap failed = {}

\* A batch is a stretch of the accepted records without gaps, in their order
\* and no longer than max_size, though batches may overtake each other
\* (docs/audit.md "Records accumulate up to max_size").
Stretch(b) == \E k \in 0 .. Len(accepted) : b = SubSeq(accepted, k + 1, k + Len(b))
BatchesAreStretches ==
    \A i \in 3 .. Len(Places) : Stretch(Places[i]) /\ Len(Places[i]) <= MaxBatch

\* When Close has returned, everything accepted is in the log, and on its
\* way to the endpoint only what the ticker's goroutine had taken itself.
CloseKeepsAll ==
    main = "exited" =>
        /\ "file" \in Elems(Outputs) => file = accepted
        /\ Webhook => Elems(accepted) = failed \cup Elems(inflight["ticker"])
                                          \cup UNION {Elems(posted[i]) : i \in DOMAIN posted}

\* Close returns: the consumer drains what is left, whatever the endpoint does.
CloseReturns == main = "draining" ~> main = "exited"

\* A record does not linger in a batch that nothing fills: the ticker sends it.
NothingLingers == \A r \in Records : r \in Elems(batch) ~> r \notin Elems(batch) \/ ~ Alive

\* No accepted record waits for ever: the ticker and Close take them along.
RecordsMoveOn == CloseReturns /\ NothingLingers
=============================================================================
