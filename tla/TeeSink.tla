------------------------------ MODULE TeeSink ------------------------------
(***************************************************************************)
(* The tees of a run into a Python writer: PyWriterSink (src/convert.rs).  *)
(*                                                                         *)
(* The pump of a stream writes it to its sink chunk by chunk, and flushes  *)
(* at the end.  A poll of the sink starts the Python call on the blocking  *)
(* pool and keeps its handle in `pending` until the call is through.  The  *)
(* pool takes its calls in any order, and a call it has been given cannot  *)
(* be taken back.  write() may take less than it was given, and is then    *)
(* called again for the rest.                                              *)
(*                                                                         *)
(* Of the crate the module takes what the contract of AsyncWrite asks of a *)
(* pump: it does not poll another write before a write is through, but may *)
(* drop a flush it no longer waits for, and flush when it no longer waits  *)
(* for a write; it awaits the flush at the end; an error ends the tee, not *)
(* the run.                                                                *)
(***************************************************************************)
EXTENDS Naturals, Sequences

CONSTANTS
  Sinks,         \* The tees of the run; they may share a writer.
  Chunks,        \* Bound: the chunks of a stream are 1 .. Chunks.
  Size           \* The length of a chunk, in what its writer counts:
                 \* characters, or bytes for a raw tee.

ASSUME TeeAssumption == Chunks \in Nat /\ Size \in Nat \ {0}

Flush == 0       \* The call of flush(), among the calls for the chunks.
Ops   == 0 .. Chunks

VARIABLES
  tee,           \* How far the run's tees are.
  pump,          \* What the pump of a sink does.
  written,       \* How many chunks the pump has written.
  pending,       \* PyWriterSink.pending: nothing, or the call it waits for.
  call,          \* How far each Python call is.
  at,            \* How much of its chunk a call of write() has handed over.
  log            \* History: what the writer has got, the calls' pieces in order.

teeVars == <<tee, pump, written, pending, call, at, log>>

None == Chunks + 1   \* No call is pending.

TeeInit ==
  /\ tee     = "none"
  /\ pump    = [s \in Sinks |-> "idle"]
  /\ written = [s \in Sinks |-> 0]
  /\ pending = [s \in Sinks |-> None]
  /\ call    = [s \in Sinks |-> [i \in Ops |-> "none"]]
  /\ at      = [s \in Sinks |-> [i \in Ops |-> 0]]
  /\ log     = [s \in Sinks |-> <<>>]

Through(s, i) == call[s][i] \in {"ok", "failed"}
Ready(s)      == pending[s] # None /\ Through(s, pending[s])
Over(s)       == pump[s] \in {"closed", "disabled"}

-----------------------------------------------------------------------------
(* The polls.                                                              *)

\* spawn_blocking.
Spawn(s, i) ==
  /\ pending' = [pending EXCEPT ![s] = i]
  /\ call'    = [call EXCEPT ![s][i] = "queued"]

\* The pump goes on to write the next chunk, to flush, or to flush at the end of
\* the stream.  A call it no longer waits for may be pending.
StartWrite(s) ==
  /\ tee = "open"
  /\ pump[s] = "idle"
  /\ written[s] < Chunks
  /\ pending[s] \in {None, Flush}
  /\ pump' = [pump EXCEPT ![s] = "writing"]
  /\ IF pending[s] = None THEN Spawn(s, written[s] + 1) ELSE UNCHANGED <<pending, call>>
  /\ UNCHANGED <<tee, written, at, log>>

\* Mutant: poll_flush starts the call and does not wait for a pending write.
FlushingEagerly(s, p) ==
  /\ tee = "open"
  /\ pump[s] = "idle"
  /\ pump' = [pump EXCEPT ![s] = p]
  /\ Spawn(s, Flush)
  /\ UNCHANGED <<tee, written, at, log>>

Flushing(s, p) ==
  /\ tee = "open"
  /\ pump[s] = "idle"
  /\ pump' = [pump EXCEPT ![s] = p]
  /\ IF pending[s] = None THEN Spawn(s, Flush) ELSE UNCHANGED <<pending, call>>
  /\ UNCHANGED <<tee, written, at, log>>

StartFlush(s) == Flushing(s, "flushing")
EndStream(s)  == Flushing(s, "closing")

\* poll_write, the write is through: Ok(len), or an error that ends the tee.
WriteReady(s) ==
  /\ tee = "open"
  /\ pump[s] = "writing"
  /\ Ready(s)
  /\ pending[s] # Flush
  /\ pending' = [pending EXCEPT ![s] = None]
  /\ IF call[s][pending[s]] = "ok"
     THEN /\ pump' = [pump EXCEPT ![s] = "idle"]
          /\ written' = [written EXCEPT ![s] = @ + 1]
     ELSE /\ pump' = [pump EXCEPT ![s] = "disabled"]
          /\ UNCHANGED written
  /\ UNCHANGED <<tee, call, at, log>>

\* Mutant: poll_write returns when the flush is through, the write not begun.
WriteAfterFlushStalls(s) ==
  /\ tee = "open"
  /\ pump[s] = "writing"
  /\ Ready(s)
  /\ pending[s] = Flush
  /\ pending' = [pending EXCEPT ![s] = None]
  /\ UNCHANGED <<tee, pump, written, call, at, log>>

\* poll_write, a flush was pending and is through, whatever came of it.
WriteAfterFlush(s) ==
  /\ tee = "open"
  /\ pump[s] = "writing"
  /\ Ready(s)
  /\ pending[s] = Flush
  /\ Spawn(s, written[s] + 1)
  /\ UNCHANGED <<tee, pump, written, at, log>>

\* poll_flush, the flush is through.
FlushReady(s) ==
  /\ tee = "open"
  /\ pump[s] \in {"flushing", "closing"}
  /\ Ready(s)
  /\ pending[s] = Flush
  /\ pending' = [pending EXCEPT ![s] = None]
  /\ pump' = [pump EXCEPT ![s] =
                IF call[s][Flush] = "failed" THEN "disabled"
                ELSE IF @ = "closing" THEN "closed" ELSE "idle"]
  /\ UNCHANGED <<tee, written, call, at, log>>

\* poll_flush, a write was pending: its error is an error of the flush.
FlushAfterWrite(s) ==
  /\ tee = "open"
  /\ pump[s] \in {"flushing", "closing"}
  /\ Ready(s)
  /\ pending[s] # Flush
  /\ IF call[s][pending[s]] = "ok"
     THEN /\ Spawn(s, Flush)
          /\ written' = [written EXCEPT ![s] = pending[s]]
          /\ UNCHANGED pump
     ELSE /\ pending' = [pending EXCEPT ![s] = None]
          /\ pump' = [pump EXCEPT ![s] = "disabled"]
          /\ UNCHANGED <<written, call>>
  /\ UNCHANGED <<tee, at, log>>

\* The pump no longer waits.
Abandon(s) ==
  /\ tee = "open"
  /\ pump[s] \in {"writing", "flushing"}
  /\ pump' = [pump EXCEPT ![s] = "idle"]
  /\ UNCHANGED <<tee, written, pending, call, at, log>>

-----------------------------------------------------------------------------
(* The blocking pool.                                                      *)

Became(s, i, result) == call' = [call EXCEPT ![s][i] = result]

\* Mutant: the whole chunk is handed over again.
TakeAgain(s, i) ==
  /\ call[s][i] = "queued"
  /\ i # Flush
  /\ \E n \in 1 .. Size :
       /\ at'  = [at EXCEPT ![s][i] = 0]
       /\ log' = [log EXCEPT ![s] = Append(@, [chunk |-> i, from |-> 0, n |-> n])]
       /\ Became(s, i, IF n = Size THEN "ok" ELSE "queued")
  /\ UNCHANGED <<tee, pump, written, pending>>

\* call_py_write: write() takes n of what is left, by its count or, when it
\* returns no integer, all of it.
Take(s, i) ==
  /\ call[s][i] = "queued"
  /\ i # Flush
  /\ \E n \in 1 .. Size - at[s][i] :
       /\ at'  = [at EXCEPT ![s][i] = @ + n]
       /\ log' = [log EXCEPT ![s] = Append(@, [chunk |-> i, from |-> at[s][i], n |-> n])]
       /\ Became(s, i, IF at[s][i] + n = Size THEN "ok" ELSE "queued")
  /\ UNCHANGED <<tee, pump, written, pending>>

\* call_py_flush.
FlushWriter(s) ==
  /\ call[s][Flush] = "queued"
  /\ Became(s, Flush, "ok")
  /\ UNCHANGED <<tee, pump, written, pending, at, log>>

\* write() or flush() raises, or the count it returns is zero, negative, too
\* large or too long; the interpreter is finalizing; the task panics.
Break(s, i) ==
  /\ call[s][i] = "queued"
  /\ Became(s, i, "failed")
  /\ UNCHANGED <<tee, pump, written, pending, at, log>>

-----------------------------------------------------------------------------
(* The run.                                                                *)

Open ==
  /\ tee = "none"
  /\ tee' = "open"
  /\ UNCHANGED <<pump, written, pending, call, at, log>>

\* The run is through with its tees, and returns.
Close ==
  /\ tee = "open"
  /\ \A s \in Sinks : Over(s)
  /\ tee' = "closed"
  /\ UNCHANGED <<pump, written, pending, call, at, log>>

\* The run is dropped, with its pumps and sinks.
Drop ==
  /\ tee = "open"
  /\ tee' = "dropped"
  /\ UNCHANGED <<pump, written, pending, call, at, log>>

Poll(s) ==
  \/ StartWrite(s) \/ StartFlush(s) \/ EndStream(s) \/ WriteReady(s) \/ WriteAfterFlush(s)
  \/ FlushReady(s) \/ FlushAfterWrite(s)

Work(s) == FlushWriter(s) \/ \E i \in Ops : Take(s, i) \/ Break(s, i)

-----------------------------------------------------------------------------
TeeStep == \E s \in Sinks : Poll(s) \/ Abandon(s) \/ Work(s)

TeeNext == TeeStep \/ Open \/ Close \/ Drop

TeeSpec == TeeInit /\ [][TeeNext]_teeVars

\* Streams end, the runtime polls a future that is woken, and the Python calls
\* return.  A stream may be written and flushed for any time before it ends.
TeeFairness ==
  \A s \in Sinks :
    /\ SF_teeVars(EndStream(s))
    /\ WF_teeVars(WriteReady(s) \/ WriteAfterFlush(s))
    /\ WF_teeVars(FlushReady(s) \/ FlushAfterWrite(s))
    /\ \A i \in Ops : WF_teeVars(Take(s, i) \/ Break(s, i))

TeeTypeOK ==
  /\ tee     \in {"none", "open", "closed", "dropped"}
  /\ pump    \in [Sinks -> {"idle", "writing", "flushing", "closing", "closed", "disabled"}]
  /\ written \in [Sinks -> 0 .. Chunks]
  /\ pending \in [Sinks -> Ops \union {None}]
  /\ call    \in [Sinks -> [Ops -> {"none", "queued", "ok", "failed"}]]
  /\ at      \in [Sinks -> [Ops -> 0 .. Size]]
  /\ log     \in [Sinks -> Seq([chunk : 1 .. Chunks, from : 0 .. Size, n : 1 .. Size])]

First(e) == (e.chunk - 1) * Size + e.from
After(e) == First(e) + e.n

(***************************************************************************)
(* What the writer gets of a stream is the stream, from its beginning,     *)
(* each piece once and in order, however short its writes are and whatever *)
(* the pump no longer waits for; and it has got all that the pump was told *)
(* is written.                                                             *)
(***************************************************************************)
TeedInOrder ==
  \A s \in Sinks :
    /\ \A k \in DOMAIN log[s] :
         First(log[s][k]) = IF k = 1 THEN 0 ELSE After(log[s][k - 1])
    /\ written[s] > 0 => written[s] * Size <= After(log[s][Len(log[s])])

(***************************************************************************)
(* Once the run has returned, its tees no longer use the writer, which is  *)
(* the caller's again.                                                     *)
(***************************************************************************)
QuietAfterReturn ==
  tee = "closed" => \A s \in Sinks, i \in Ops : call[s][i] # "queued"

(***************************************************************************)
(* A writer that is slow, short or broken does not hang the run.           *)
(***************************************************************************)
TeesEnd == tee = "open" ~> tee # "open"
=============================================================================
