---------------------------- MODULE TeedRunProofs ----------------------------
(***************************************************************************)
(* Theorems about TeeSink, for any sinks and chunks of any number and      *)
(* size, and about TeedRun, which is CliClient and TeeSink in step.        *)
(***************************************************************************)
EXTENDS TeedRun, CliClientProofs

(***************************************************************************)
(* The inductive invariant, of one sink.  Only the call that is pending    *)
(* can be in the pool, and of the writes only that of the next chunk; so   *)
(* what the writer has got is the chunks that are written and what it has  *)
(* taken of the next.                                                      *)
(***************************************************************************)
Consecutive(l) ==
  \A k \in DOMAIN l : First(l[k]) = IF k = 1 THEN 0 ELSE After(l[k - 1])

Got(l) == IF l = <<>> THEN 0 ELSE After(l[Len(l)])

Given(s) == IF written[s] < Chunks THEN at[s][written[s] + 1] ELSE 0

SinkInv(s) ==
  /\ pending[s] \in {None, Flush, written[s] + 1}
  /\ \A i \in Ops : call[s][i] = "queued" => pending[s] = i
  /\ \A i \in 1 .. Chunks : /\ call[s][i] = "ok" => at[s][i] = Size
                            /\ i > written[s] + 1 => at[s][i] = 0
  /\ pump[s] = "writing" => pending[s] # None /\ written[s] < Chunks
  /\ pump[s] \in {"flushing", "closing"} => pending[s] # None
  /\ Over(s) => pending[s] = None
  /\ Got(log[s]) = written[s] * Size + Given(s)
  /\ Consecutive(log[s])

TeeInv ==
  /\ \A s \in Sinks : SinkInv(s)
  /\ tee = "closed" => \A s \in Sinks : Over(s)

Pieces == [chunk : 1 .. Chunks, from : 0 .. Size, n : 1 .. Size]

-----------------------------------------------------------------------------
(* Types.                                                                  *)

\* A call that is started, or through, is one there can be.
LEMMA CallTypes ==
  ASSUME TeeTypeOK, NEW s \in Sinks, NEW i \in Ops
  PROVE  /\ Spawn(s, i) => /\ pending' \in [Sinks -> Ops \union {None}]
                           /\ call' \in [Sinks -> [Ops -> {"none", "queued", "ok", "failed"}]]
         /\ \A a \in {"queued", "ok", "failed"} :
              Became(s, i, a) => call' \in [Sinks -> [Ops -> {"none", "queued", "ok", "failed"}]]
<1>1. call[s] \in [Ops -> {"none", "queued", "ok", "failed"}]
  BY DEF TeeTypeOK
<1>2. \A a \in {"queued", "ok", "failed"} :
        [call[s] EXCEPT ![i] = a] \in [Ops -> {"none", "queued", "ok", "failed"}]
  BY <1>1
<1>3. \A a \in {"queued", "ok", "failed"} :
        [call EXCEPT ![s] = [call[s] EXCEPT ![i] = a]]
          \in [Sinks -> [Ops -> {"none", "queued", "ok", "failed"}]]
  BY <1>2 DEF TeeTypeOK
<1>4. \A a \in {"queued", "ok", "failed"} :
        [call EXCEPT ![s][i] = a] \in [Sinks -> [Ops -> {"none", "queued", "ok", "failed"}]]
  BY <1>3
<1> QED BY <1>4, ZenonT(40) DEF Spawn, Became, TeeTypeOK

\* A step of the tees keeps their types.
LEMMA TeeTypeStep ==
  ASSUME TeeTypeOK, TeeInv, [TeeNext]_teeVars
  PROVE  TeeTypeOK'
<1>0. /\ Flush \in Ops /\ None \in Ops \union {None}
      /\ \A w \in 0 .. Chunks : w < Chunks => w + 1 \in Ops /\ w + 1 \in 0 .. Chunks
      /\ \A i \in Ops : i \in 0 .. Chunks
  BY TeeAssumption DEF Ops, Flush, None
<1>1. ASSUME NEW s \in Sinks, StartWrite(s) PROVE TeeTypeOK'
  <2>1. written[s] + 1 \in Ops
    BY <1>0, <1>1 DEF StartWrite, TeeTypeOK
  <2> QED BY <1>1, <2>1, CallTypes DEF StartWrite, TeeTypeOK
<1>2. ASSUME NEW s \in Sinks, StartFlush(s) \/ EndStream(s) PROVE TeeTypeOK'
  BY <1>0, <1>2, CallTypes DEF StartFlush, EndStream, Flushing, TeeTypeOK
<1>3. ASSUME NEW s \in Sinks, WriteReady(s) PROVE TeeTypeOK'
  <2>1. written' \in [Sinks -> 0 .. Chunks]
    <3>0. written[s] < Chunks
      BY <1>3 DEF WriteReady, TeeInv, SinkInv
    <3>1. CASE UNCHANGED written
      BY <3>1 DEF TeeTypeOK
    <3>2. CASE written' = [written EXCEPT ![s] = @ + 1]
      BY <1>0, <3>0, <3>2 DEF TeeTypeOK
    <3> QED BY <1>3, <3>1, <3>2 DEF WriteReady
  <2> QED BY <1>3, <2>1 DEF WriteReady, TeeTypeOK
<1>4. ASSUME NEW s \in Sinks, WriteAfterFlush(s) PROVE TeeTypeOK'
  <2>1. written[s] + 1 \in Ops
    BY <1>0, <1>4 DEF WriteAfterFlush, TeeTypeOK, TeeInv, SinkInv
  <2> QED BY <1>4, <2>1, CallTypes DEF WriteAfterFlush, TeeTypeOK
<1>5. ASSUME NEW s \in Sinks, FlushReady(s) PROVE TeeTypeOK'
  BY <1>5 DEF FlushReady, TeeTypeOK
<1>6. ASSUME NEW s \in Sinks, FlushAfterWrite(s) PROVE TeeTypeOK'
  <2>1. pending[s] \in 0 .. Chunks
    BY <1>0, <1>6 DEF FlushAfterWrite, Ready, TeeTypeOK
  <2>2. CASE call[s][pending[s]] = "ok"
    BY <1>0, <1>6, <2>1, <2>2, CallTypes DEF FlushAfterWrite, TeeTypeOK
  <2>3. CASE call[s][pending[s]] # "ok"
    BY <1>6, <2>3 DEF FlushAfterWrite, TeeTypeOK
  <2> QED BY <2>2, <2>3
<1>7. ASSUME NEW s \in Sinks, Abandon(s) PROVE TeeTypeOK'
  BY <1>7 DEF Abandon, TeeTypeOK
<1>8. ASSUME NEW s \in Sinks, NEW i \in Ops, Take(s, i) PROVE TeeTypeOK'
  <2>1. PICK n \in 1 .. Size - at[s][i] :
          /\ at'  = [at EXCEPT ![s][i] = @ + n]
          /\ log' = [log EXCEPT ![s] = Append(@, [chunk |-> i, from |-> at[s][i], n |-> n])]
          /\ Became(s, i, IF at[s][i] + n = Size THEN "ok" ELSE "queued")
    BY <1>8 DEF Take
  <2>2. /\ at[s][i] \in 0 .. Size /\ at[s][i] + n \in 0 .. Size
        /\ n \in 1 .. Size /\ i \in 1 .. Chunks
    <3>1. at[s][i] \in 0 .. Size /\ i # Flush
      BY <1>8 DEF Take, TeeTypeOK
    <3> QED BY <3>1, TeeAssumption DEF Ops, Flush
  <2>3. [chunk |-> i, from |-> at[s][i], n |-> n] \in Pieces
    BY <2>2 DEF Pieces
  <2>4. log' \in [Sinks -> Seq(Pieces)]
    <3>1. log \in [Sinks -> Seq(Pieces)] /\ log[s] \in Seq(Pieces)
      BY DEF Pieces, TeeTypeOK
    <3>2. Append(log[s], [chunk |-> i, from |-> at[s][i], n |-> n]) \in Seq(Pieces)
      BY <2>3, <3>1, AppendProperties
    <3> QED BY <2>1, <3>1, <3>2
  <2>5. at' \in [Sinks -> [Ops -> 0 .. Size]]
    BY <2>1, <2>2 DEF TeeTypeOK
  <2>6. call' \in [Sinks -> [Ops -> {"none", "queued", "ok", "failed"}]]
    BY <2>1, CallTypes
  <2> QED BY <1>8, <2>4, <2>5, <2>6 DEF Take, Pieces, TeeTypeOK
<1>9. ASSUME NEW s \in Sinks, NEW i \in Ops, FlushWriter(s) \/ Break(s, i) PROVE TeeTypeOK'
  BY <1>0, <1>9, CallTypes DEF FlushWriter, Break, TeeTypeOK
<1>10. CASE Open \/ Close \/ Drop
  BY <1>10 DEF Open, Close, Drop, TeeTypeOK
<1>11. CASE UNCHANGED teeVars
  BY <1>11 DEF teeVars, TeeTypeOK
<1> QED BY <1>0, <1>1, <1>2, <1>3, <1>4, <1>5, <1>6, <1>7, <1>8, <1>9, <1>10, <1>11
        DEF TeeNext, TeeStep, Poll, Work

-----------------------------------------------------------------------------
(* One sink.                                                               *)

\* A step that leaves alone what a sink has.
LEMMA SinkUntouched ==
  ASSUME NEW s \in Sinks, SinkInv(s),
         pump'[s] = pump[s], written'[s] = written[s], pending'[s] = pending[s],
         call'[s] = call[s], at'[s] = at[s], log'[s] = log[s]
  PROVE  SinkInv(s)'
BY DEF SinkInv, Given, Over

\* A step of a sink that hands nothing over and does not count a chunk as written.
LEMMA SinkPolls ==
  ASSUME TeeTypeOK, NEW s \in Sinks, SinkInv(s),
         written'[s] = written[s], at'[s] = at[s], log'[s] = log[s],
         pending'[s] \in {None, Flush, written[s] + 1},
         \A i \in Ops : call'[s][i] = "queued" => pending'[s] = i,
         \A i \in 1 .. Chunks : call'[s][i] = "ok" => call[s][i] = "ok",
         pump'[s] = "writing" => pending'[s] # None /\ written[s] < Chunks,
         pump'[s] \in {"flushing", "closing"} => pending'[s] # None,
         Over(s)' => pending'[s] = None
  PROVE  SinkInv(s)'
BY DEF SinkInv, Given

\* What a sink that writes has got, when it counts the chunk as written.
LEMMA Counted ==
  ASSUME TeeTypeOK, NEW s \in Sinks, SinkInv(s),
         pending[s] \in 1 .. Chunks, call[s][pending[s]] = "ok",
         written'[s] = written[s] + 1, at'[s] = at[s], log'[s] = log[s]
  PROVE  /\ pending[s] = written[s] + 1
         /\ \A i \in 1 .. Chunks : i > written'[s] + 1 => at'[s][i] = 0
         /\ Got(log'[s]) = written'[s] * Size + Given(s)'
         /\ Consecutive(log'[s])
<1> USE TeeAssumption
<1>1. pending[s] = written[s] + 1 /\ written[s] \in 0 .. Chunks - 1
  BY DEF SinkInv, TeeTypeOK, None, Flush
<1>2. Given(s) = Size /\ Given(s)' = 0
  BY <1>1 DEF SinkInv, Given
<1>3. (written[s] + 1) * Size = written[s] * Size + Size
  BY <1>1
<1> QED BY <1>1, <1>2, <1>3 DEF SinkInv

\* The pump polls its sink, or no longer waits for it.
LEMMA PollStep ==
  ASSUME TeeTypeOK, NEW s \in Sinks, SinkInv(s), Poll(s) \/ Abandon(s)
  PROVE  SinkInv(s)'
<1>0. /\ Flush \in Ops /\ None \notin Ops /\ Flush \notin 1 .. Chunks
      /\ written[s] \in 0 .. Chunks
      /\ written[s] < Chunks => written[s] + 1 \in Ops /\ written[s] + 1 # None
      /\ \A i \in Ops : i = Flush \/ i \in 1 .. Chunks
      /\ 1 .. Chunks \subseteq Ops
  BY TeeAssumption DEF Flush, None, Ops, TeeTypeOK
<1>1. CASE StartWrite(s)
  <2>1. /\ pump'[s] = "writing" /\ written[s] < Chunks /\ pending'[s] # None
        /\ pending'[s] \in {Flush, written[s] + 1}
    BY <1>0, <1>1 DEF StartWrite, Spawn, TeeTypeOK
  <2>2. \A i \in Ops : call'[s][i] = "queued" => pending'[s] = i
    BY <1>0, <1>1 DEF StartWrite, Spawn, TeeTypeOK, SinkInv
  <2>3. \A i \in Ops : call'[s][i] = "ok" => call[s][i] = "ok"
    BY <1>0, <1>1 DEF StartWrite, Spawn, TeeTypeOK
  <2>4. UNCHANGED <<written, at, log>>
    BY <1>1 DEF StartWrite
  <2> QED BY <1>0, <2>1, <2>2, <2>3, <2>4, SinkPolls DEF Over
<1>2. ASSUME NEW p \in {"flushing", "closing"}, Flushing(s, p)
      PROVE  SinkInv(s)'
  <2>1. /\ pump'[s] = p /\ pending'[s] # None
        /\ pending'[s] \in {Flush, pending[s]}
    BY <1>0, <1>2 DEF Flushing, Spawn, TeeTypeOK
  <2>2. \A i \in Ops : call'[s][i] = "queued" => pending'[s] = i
    BY <1>0, <1>2 DEF Flushing, Spawn, TeeTypeOK, SinkInv
  <2>3. \A i \in Ops : call'[s][i] = "ok" => call[s][i] = "ok"
    BY <1>0, <1>2 DEF Flushing, Spawn, TeeTypeOK
  <2>4. UNCHANGED <<written, at, log>>
    BY <1>2 DEF Flushing
  <2>5. pending'[s] \in {None, Flush, written[s] + 1}
    BY <2>1 DEF SinkInv
  <2> QED BY <1>0, <2>1, <2>2, <2>3, <2>4, <2>5, SinkPolls DEF Over
<1>3. CASE WriteReady(s) /\ call[s][pending[s]] = "ok"
  <2>1. /\ pending[s] \in 1 .. Chunks /\ pump[s] = "writing"
        /\ pending'[s] = None /\ pump'[s] = "idle" /\ written'[s] = written[s] + 1
        /\ UNCHANGED <<call, at, log>>
    BY <1>0, <1>3 DEF WriteReady, Ready, TeeTypeOK
  <2>2. /\ \A i \in 1 .. Chunks : i > written'[s] + 1 => at'[s][i] = 0
        /\ Got(log'[s]) = written'[s] * Size + Given(s)'
        /\ Consecutive(log'[s])
    BY <1>3, <2>1, Counted
  <2>3. \A i \in Ops : call'[s][i] # "queued"
    BY <1>3, <2>1 DEF SinkInv
  <2>4. \A i \in 1 .. Chunks : call'[s][i] = "ok" => at'[s][i] = Size
    BY <2>1 DEF SinkInv
  <2> QED BY <2>1, <2>2, <2>3, <2>4 DEF SinkInv, Over
<1>4. CASE WriteReady(s) /\ call[s][pending[s]] # "ok"
  <2>1. /\ pending'[s] = None /\ pump'[s] = "disabled"
        /\ UNCHANGED <<written, call, at, log>>
    BY <1>4 DEF WriteReady, TeeTypeOK
  <2>2. \A i \in Ops : call'[s][i] # "queued"
    BY <1>4, <2>1 DEF WriteReady, Ready, Through, SinkInv
  <2> QED BY <1>0, <2>1, <2>2, SinkPolls
<1>5. CASE WriteAfterFlush(s)
  <2>1. /\ pump'[s] = "writing" /\ pending'[s] = written[s] + 1 /\ written[s] < Chunks
        /\ UNCHANGED <<written, at, log>>
    BY <1>5 DEF WriteAfterFlush, Spawn, TeeTypeOK, SinkInv
  <2>2. \A i \in Ops : call'[s][i] = "queued" => i = written[s] + 1
    BY <1>0, <1>5, <2>1 DEF WriteAfterFlush, Ready, Through, Spawn, TeeTypeOK, SinkInv
  <2>3. \A i \in Ops : call'[s][i] = "ok" => call[s][i] = "ok"
    BY <1>0, <1>5, <2>1 DEF WriteAfterFlush, Spawn, TeeTypeOK
  <2> QED BY <1>0, <2>1, <2>2, <2>3, SinkPolls DEF Over
<1>6. CASE FlushReady(s)
  <2>1. /\ pending'[s] = None /\ pump'[s] \in {"disabled", "closed", "idle"}
        /\ UNCHANGED <<written, call, at, log>>
    BY <1>6 DEF FlushReady, TeeTypeOK
  <2>2. \A i \in Ops : call'[s][i] # "queued"
    BY <1>6, <2>1 DEF FlushReady, Ready, Through, SinkInv
  <2> QED BY <1>0, <2>1, <2>2, SinkPolls
<1>7. CASE FlushAfterWrite(s) /\ call[s][pending[s]] = "ok"
  <2>1. /\ pending[s] \in 1 .. Chunks /\ pump[s] \in {"flushing", "closing"}
        /\ pending'[s] = Flush /\ written'[s] = pending[s] /\ UNCHANGED <<pump, at, log>>
        /\ call' = [call EXCEPT ![s][Flush] = "queued"]
    BY <1>0, <1>7 DEF FlushAfterWrite, Ready, Spawn, TeeTypeOK
  <2>2. written'[s] = written[s] + 1
    BY <1>7, <2>1, <1>0 DEF SinkInv, TeeTypeOK, None
  <2>3. /\ \A i \in 1 .. Chunks : i > written'[s] + 1 => at'[s][i] = 0
        /\ Got(log'[s]) = written'[s] * Size + Given(s)'
        /\ Consecutive(log'[s])
    BY <1>7, <2>1, <2>2, Counted
  <2>4. \A i \in Ops : call'[s][i] = "queued" => i = Flush
    BY <1>0, <1>7, <2>1 DEF SinkInv, TeeTypeOK
  <2>5. \A i \in 1 .. Chunks : call'[s][i] = "ok" => at'[s][i] = Size
    BY <1>0, <2>1 DEF SinkInv, TeeTypeOK
  <2> QED BY <1>0, <2>1, <2>3, <2>4, <2>5 DEF SinkInv, Over
<1>8. CASE FlushAfterWrite(s) /\ call[s][pending[s]] # "ok"
  <2>1. /\ pending'[s] = None /\ pump'[s] = "disabled"
        /\ UNCHANGED <<written, call, at, log>>
    BY <1>8 DEF FlushAfterWrite, TeeTypeOK
  <2>2. \A i \in Ops : call'[s][i] # "queued"
    BY <1>8, <2>1 DEF FlushAfterWrite, Ready, Through, SinkInv
  <2> QED BY <1>0, <2>1, <2>2, SinkPolls
<1>9. CASE Abandon(s)
  <2>1. pump'[s] = "idle" /\ UNCHANGED <<written, pending, call, at, log>>
    BY <1>9 DEF Abandon, TeeTypeOK
  <2> QED BY <2>1 DEF SinkInv, Given, Over
<1> QED BY <1>1, <1>2, <1>3, <1>4, <1>5, <1>6, <1>7, <1>8, <1>9
        DEF Poll, StartFlush, EndStream

\* A call of the pool gets on.
LEMMA WorkStep ==
  ASSUME TeeTypeOK, NEW s \in Sinks, SinkInv(s), Work(s)
  PROVE  SinkInv(s)'
<1>0. /\ Flush \in Ops /\ Flush \notin 1 .. Chunks
      /\ \A i \in Ops : i = Flush \/ i \in 1 .. Chunks
      /\ 1 .. Chunks \subseteq Ops
      /\ written[s] \in 0 .. Chunks
  BY TeeAssumption DEF Flush, Ops, TeeTypeOK
<1>1. ASSUME NEW i \in Ops, NEW a \in {"ok", "failed"}, call[s][i] = "queued",
             Became(s, i, a), i = Flush \/ a = "failed",
             UNCHANGED <<tee, pump, written, pending, at, log>>
      PROVE  SinkInv(s)'
  <2>1. \A j \in Ops : call'[s][j] = IF j = i THEN a ELSE call[s][j]
    BY <1>1 DEF Became, TeeTypeOK
  <2> QED BY <1>0, <1>1, <2>1 DEF SinkInv, Given, Over
<1>2. ASSUME NEW i \in Ops, Take(s, i)
      PROVE  SinkInv(s)'
  <2> DEFINE l == log[s]
             w == written[s]
  <2>1. PICK n \in 1 .. Size - at[s][i] :
          /\ at'  = [at EXCEPT ![s][i] = @ + n]
          /\ log' = [log EXCEPT ![s] = Append(@, [chunk |-> i, from |-> at[s][i], n |-> n])]
          /\ Became(s, i, IF at[s][i] + n = Size THEN "ok" ELSE "queued")
    BY <1>2 DEF Take
  <2> DEFINE e == [chunk |-> i, from |-> at[s][i], n |-> n]
  <2>2. /\ i = pending[s] /\ i = w + 1 /\ i \in 1 .. Chunks /\ w < Chunks
        /\ at[s][i] \in 0 .. Size /\ n \in 1 .. Size
        /\ UNCHANGED <<pump, written, pending>>
    <3>1. i \in 1 .. Chunks /\ i = pending[s] /\ UNCHANGED <<pump, written, pending>>
      BY <1>0, <1>2 DEF Take, SinkInv
    <3>2. pending[s] = w + 1
      <4>1. pending[s] \in {None, Flush, w + 1}
        BY DEF SinkInv
      <4> QED BY <3>1, <4>1, TeeAssumption DEF None, Flush
    <3>3. at[s][i] \in 0 .. Size
      BY DEF TeeTypeOK
    <3> QED BY <1>0, <3>1, <3>2, <3>3, TeeAssumption
  <2>3. \A j \in Ops : /\ at'[s][j] = IF j = i THEN at[s][i] + n ELSE at[s][j]
                       /\ call'[s][j] = IF j = i THEN (IF at[s][i] + n = Size THEN "ok" ELSE "queued")
                                        ELSE call[s][j]
    BY <2>1 DEF TeeTypeOK, Became
  <2>4. First(e) = w * Size + at[s][i] /\ After(e) = w * Size + (at[s][i] + n)
    <3>1. w * Size \in Nat /\ (i - 1) * Size = w * Size
      BY <2>2, <1>0, TeeAssumption
    <3> QED BY <2>2, <3>1 DEF First, After
  <2>5. Got(l) = First(e)
    BY <2>2, <2>4 DEF SinkInv, Given
  <2>6. /\ l \in Seq(Pieces) /\ e \in Pieces /\ Len(l) \in Nat /\ DOMAIN l = 1 .. Len(l)
        /\ l = <<>> <=> Len(l) = 0
    <3>1. e \in Pieces
      BY <2>2 DEF Pieces
    <3>2. l \in Seq(Pieces)
      BY DEF TeeTypeOK, Pieces
    <3> HIDE DEF e, l
    <3> QED BY <3>1, <3>2, LenProperties, EmptySeq
  <2>7. /\ log'[s] = Append(l, e) /\ Len(log'[s]) = Len(l) + 1
        /\ log'[s] # <<>>
        /\ DOMAIN log'[s] = 1 .. Len(l) + 1
        /\ log'[s][Len(l) + 1] = e /\ \A k \in 1 .. Len(l) : log'[s][k] = l[k]
    <3>1. log'[s] = Append(l, e)
      BY <2>1 DEF TeeTypeOK
    <3> HIDE DEF e, l
    <3> QED BY <2>6, <3>1, AppendProperties, LenProperties
  <2> HIDE DEF e, l
  <2>8. Got(log'[s]) = w * Size + Given(s)'
    <3>1. Given(s)' = at[s][i] + n
      BY <1>0, <2>2, <2>3 DEF Given
    <3> QED BY <2>4, <2>7, <3>1 DEF Got
  <2>9. Consecutive(log'[s])
    <3>1. ASSUME NEW k \in 1 .. Len(l)
          PROVE  First(log'[s][k]) = IF k = 1 THEN 0 ELSE After(log'[s][k - 1])
      BY <2>6, <2>7, <3>1 DEF SinkInv, Consecutive, l
    <3>2. First(e) = IF Len(l) = 0 THEN 0 ELSE After(l[Len(l)])
      BY <2>5, <2>6 DEF Got
    <3>3. Len(l) # 0 => log'[s][Len(l)] = l[Len(l)]
      <4>1. Len(l) # 0 => Len(l) \in 1 .. Len(l)
        BY <2>6
      <4> QED BY <2>7, <4>1
    <3>4. ASSUME NEW k \in 1 .. Len(l) + 1
          PROVE  First(log'[s][k]) = IF k = 1 THEN 0 ELSE After(log'[s][k - 1])
      <4>1. CASE k \in 1 .. Len(l)
        BY <3>1, <4>1
      <4>2. CASE k = Len(l) + 1
        <5>1. k - 1 = Len(l) /\ (k = 1 <=> Len(l) = 0)
          BY <2>6, <4>2
        <5> QED BY <2>7, <3>2, <3>3, <4>2, <5>1
      <4> QED BY <2>6, <4>1, <4>2
    <3> QED BY <2>7, <3>4 DEF Consecutive
  <2>10. \A j \in Ops : call'[s][j] = "queued" => pending'[s] = j
    BY <2>2, <2>3 DEF SinkInv
  <2>11. \A j \in 1 .. Chunks : /\ call'[s][j] = "ok" => at'[s][j] = Size
                                /\ j > written'[s] + 1 => at'[s][j] = 0
    BY <1>0, <2>2, <2>3 DEF SinkInv
  <2> QED BY <2>2, <2>8, <2>9, <2>10, <2>11 DEF SinkInv, Over
<1> QED BY <1>0, <1>1, <1>2 DEF Work, FlushWriter, Break

\* A step of the tees keeps their invariant.
LEMMA TeeStepKeeps ==
  ASSUME TeeTypeOK, TeeInv, [TeeNext]_teeVars
  PROVE  TeeInv'
<1>1. ASSUME NEW s \in Sinks, Poll(s) \/ Abandon(s) \/ Work(s)
      PROVE  TeeInv'
  <2>1. SinkInv(s)'
    BY <1>1, PollStep, WorkStep DEF TeeInv
  <2>2. ASSUME NEW u \in Sinks, u # s
        PROVE  SinkInv(u)'
    <3>1. /\ pump'[u] = pump[u] /\ written'[u] = written[u] /\ pending'[u] = pending[u]
          /\ call'[u] = call[u] /\ at'[u] = at[u] /\ log'[u] = log[u]
      <4>1. CASE StartWrite(s) \/ StartFlush(s) \/ EndStream(s) \/ Abandon(s)
        BY <2>2, <4>1 DEF StartWrite, StartFlush, EndStream, Flushing, Spawn, Abandon, TeeTypeOK
      <4>2. CASE WriteReady(s) \/ WriteAfterFlush(s)
        BY <2>2, <4>2 DEF WriteReady, WriteAfterFlush, Spawn, TeeTypeOK
      <4>3. CASE FlushReady(s) \/ FlushAfterWrite(s)
        BY <2>2, <4>3 DEF FlushReady, FlushAfterWrite, Spawn, TeeTypeOK
      <4>4. CASE Work(s)
        BY <2>2, <4>4 DEF Work, FlushWriter, Take, Break, Became, TeeTypeOK
      <4> QED BY <1>1, <4>1, <4>2, <4>3, <4>4 DEF Poll
    <3> QED BY <3>1, SinkUntouched DEF TeeInv
  <2>3. tee' = "closed" => \A u \in Sinks : Over(u)'
    <3>1. CASE Work(s)
      BY <3>1 DEF Work, FlushWriter, Take, Break, TeeInv, Over
    <3>2. CASE Poll(s) \/ Abandon(s)
      BY <3>2 DEF Poll, StartWrite, StartFlush, EndStream, Flushing, WriteReady,
                  WriteAfterFlush, FlushReady, FlushAfterWrite, Abandon
    <3> QED BY <1>1, <3>1, <3>2
  <2> QED BY <2>1, <2>2, <2>3 DEF TeeInv
<1>2. CASE Open \/ Close \/ Drop \/ UNCHANGED teeVars
  <2>1. UNCHANGED <<pump, written, pending, call, at, log>>
    BY <1>2 DEF Open, Close, Drop, teeVars
  <2>2. \A s \in Sinks : SinkInv(s)'
    BY <2>1, SinkUntouched DEF TeeInv
  <2>3. tee' = "closed" => \A s \in Sinks : Over(s)'
    BY <1>2, <2>1 DEF Open, Close, Drop, teeVars, TeeInv, Over
  <2> QED BY <2>2, <2>3 DEF TeeInv
<1> QED BY <1>1, <1>2 DEF TeeNext, TeeStep

\* Every variable of the tees keeps its type, and only the call that is pending
\* is in the pool.
THEOREM TeesInductive == TeeSpec => [](TeeTypeOK /\ TeeInv)
<1>1. TeeInit => TeeTypeOK
  <2> SUFFICES ASSUME TeeInit PROVE TeeTypeOK
    OBVIOUS
  <2>1. <<>> \in Seq([chunk : 1 .. Chunks, from : 0 .. Size, n : 1 .. Size])
    BY EmptySeq
  <2> QED BY <2>1, TeeAssumption DEF TeeInit, TeeTypeOK, Ops, Flush, None
<1>2. TeeInit => TeeInv
  <2> SUFFICES ASSUME TeeInit, NEW s \in Sinks PROVE SinkInv(s)
    BY DEF TeeInv, TeeInit
  <2>1. /\ pump[s] = "idle" /\ written[s] = 0 /\ pending[s] = None /\ log[s] = <<>>
        /\ \A i \in Ops : call[s][i] = "none" /\ at[s][i] = 0
    BY DEF TeeInit
  <2>2. /\ 1 .. Chunks \subseteq Ops /\ 0 * Size = 0 /\ Given(s) = 0
    BY <2>1, TeeAssumption DEF Ops, Given
  <2>3. Consecutive(<<>>) /\ Got(<<>>) = 0
    BY DEF Consecutive, Got
  <2> QED BY <2>1, <2>2, <2>3 DEF SinkInv, Over
<1>3. TeeTypeOK /\ TeeInv /\ [TeeNext]_teeVars => TeeTypeOK' /\ TeeInv'
  BY TeeTypeStep, TeeStepKeeps
<1> QED BY <1>1, <1>2, <1>3, PTL DEF TeeSpec

-----------------------------------------------------------------------------
(* What a pump waits for, and what a writer is left with.                  *)

(***************************************************************************)
(* The safety half of TeesEnd: a pump that waits has a call pending, and   *)
(* the pool has been given that call; no poll leaves it to wait for a call *)
(* that nobody has started.                                                *)
(***************************************************************************)
NeverStalled ==
  \A s \in Sinks :
    pump[s] \in {"writing", "flushing", "closing"} =>
      pending[s] # None /\ call[s][pending[s]] # "none"

Started(s) == pending[s] # None => call[s][pending[s]] # "none"

(***************************************************************************)
(* A tee that ends in good order has handed over whole chunks: the writer  *)
(* has got just what the pump was told is written, and no part of a chunk  *)
(* that was given up, however short its writes are.                        *)
(***************************************************************************)
NothingTorn ==
  \A s \in Sinks : pump[s] = "closed" => Got(log[s]) = written[s] * Size

Whole(s) == pump[s] # "disabled" /\ pending[s] # written[s] + 1 => Given(s) = 0

\* A call that is pending has been given to the pool, and stays given to it.
LEMMA StartedStep ==
  ASSUME TeeTypeOK, TeeInv, NEW s \in Sinks, Started(s),
         NEW u \in Sinks, Poll(u) \/ Abandon(u) \/ Work(u)
  PROVE  Started(s)'
<1> USE DEF Started, TeeTypeOK
<1>0. /\ Flush \in Ops /\ None \notin Ops
      /\ written[u] < Chunks => written[u] + 1 \in Ops
  BY TeeAssumption, SMTT(20) DEF Flush, None, Ops
<1>1. CASE StartWrite(u)
  BY <1>0, <1>1 DEF StartWrite, Spawn
<1>2. CASE StartFlush(u) \/ EndStream(u)
  BY <1>0, <1>2 DEF StartFlush, EndStream, Flushing, Spawn
<1>3. CASE WriteReady(u) \/ FlushReady(u) \/ Abandon(u)
  BY <1>0, <1>3 DEF WriteReady, FlushReady, Abandon
<1>4. CASE WriteAfterFlush(u)
  BY <1>0, <1>4 DEF WriteAfterFlush, Spawn, TeeInv, SinkInv
<1>5. CASE FlushAfterWrite(u)
  <2>1. CASE call[u][pending[u]] = "ok"
    <3>1. /\ pending' = [pending EXCEPT ![u] = Flush]
          /\ call' = [call EXCEPT ![u][Flush] = "queued"]
      BY <1>5, <2>1 DEF FlushAfterWrite, Spawn
    <3> QED BY <1>0, <3>1
  <2>2. CASE call[u][pending[u]] # "ok"
    BY <1>0, <1>5, <2>2 DEF FlushAfterWrite
  <2> QED BY <2>1, <2>2
<1>6. ASSUME NEW i \in Ops, NEW a \in {"queued", "ok", "failed"}, Became(u, i, a),
             UNCHANGED pending
      PROVE  Started(s)'
  BY <1>6 DEF Became
<1>7. CASE Work(u)
  BY <1>0, <1>6, <1>7 DEF Work, FlushWriter, Take, Break
<1> QED BY <1>1, <1>2, <1>3, <1>4, <1>5, <1>7 DEF Poll

\* Only the write that is pending has been given part of a chunk, and the end
\* of it is an error or a whole chunk.
LEMMA WholeStep ==
  ASSUME TeeTypeOK, TeeInv, NEW s \in Sinks, Whole(s),
         NEW u \in Sinks, Poll(u) \/ Abandon(u) \/ Work(u)
  PROVE  Whole(s)'
<1> USE DEF TeeTypeOK
<1>0. /\ written[s] \in 0 .. Chunks /\ SinkInv(s) /\ Chunks \in Nat
      /\ \A k \in 0 .. Chunks : k < Chunks => k + 1 \in 1 .. Chunks /\ k + 1 # Flush /\ k + 1 # None
      /\ None \notin Ops /\ Flush \notin 1 .. Chunks
      /\ \A i \in Ops : i = Flush \/ i \in 1 .. Chunks
  BY TeeAssumption DEF Flush, None, Ops, TeeInv
<1>1. ASSUME pump'[s] # "disabled" => pump[s] # "disabled",
             pending'[s] = pending[s] \/ pending[s] # written[s] + 1 \/ pending'[s] = written[s] + 1,
             written'[s] = written[s], at'[s] = at[s]
      PROVE  Whole(s)'
  BY <1>1 DEF Whole, Given
<1>2. CASE StartWrite(u) \/ StartFlush(u) \/ EndStream(u) \/ Abandon(u)
  <2>1. None # written[s] + 1 \/ written[s] = Chunks
    BY <1>0
  <2>2. /\ pump'[s] # "disabled" => pump[s] # "disabled"
        /\ pending'[s] = pending[s] \/ pending[s] = None
        /\ UNCHANGED <<written, at>>
    BY <1>2 DEF StartWrite, StartFlush, EndStream, Flushing, Spawn, Abandon
  <2>3. CASE written[s] = Chunks
    BY <2>2, <2>3 DEF Whole, Given
  <2> QED BY <1>1, <2>1, <2>2, <2>3
<1>3. CASE u # s
  <2>1. /\ pump'[s] = pump[s] /\ written'[s] = written[s] /\ pending'[s] = pending[s]
        /\ at'[s] = at[s]
    <3>1. CASE Poll(u) \/ Abandon(u)
      BY <1>3, <3>1 DEF Poll, StartWrite, StartFlush, EndStream, Flushing, WriteReady,
                        WriteAfterFlush, FlushReady, FlushAfterWrite, Abandon, Spawn
    <3>2. CASE Work(u)
      BY <1>3, <3>2 DEF Work, FlushWriter, Take, Break
    <3> QED BY <3>1, <3>2
  <2> QED BY <1>1, <2>1
<1>4. CASE u = s /\ (WriteReady(s) \/ FlushAfterWrite(s))
  <2>1. CASE pump'[s] = "disabled"
    BY <2>1 DEF Whole
  <2>2. CASE pump'[s] # "disabled"
    <3>1. /\ pending[s] \in 1 .. Chunks /\ call[s][pending[s]] = "ok"
          /\ written'[s] \in {written[s] + 1, pending[s]} /\ UNCHANGED <<at, log>>
      BY <1>0, <1>4, <2>2 DEF WriteReady, FlushAfterWrite, Ready, SinkInv
    <3>2. pending[s] = written[s] + 1
      BY <1>0, <3>1 DEF SinkInv, None, Flush
    <3>3. \A i \in 1 .. Chunks : i > written'[s] => at'[s][i] = 0
      BY <1>0, <3>1, <3>2 DEF SinkInv
    <3> QED BY <1>0, <3>1, <3>2, <3>3 DEF Whole, Given
  <2> QED BY <2>1, <2>2
<1>5. CASE u = s /\ WriteAfterFlush(s)
  <2>1. pending'[s] = written[s] + 1 /\ UNCHANGED <<written, at, pump>>
    BY <1>5 DEF WriteAfterFlush, Spawn
  <2> QED BY <1>1, <2>1
<1>6. CASE u = s /\ FlushReady(s)
  <2>1. /\ pump'[s] # "disabled" => pump[s] # "disabled"
        /\ pending[s] = Flush /\ UNCHANGED <<written, at>>
    BY <1>6 DEF FlushReady
  <2>2. Flush # written[s] + 1
    BY <1>0 DEF Flush
  <2> QED BY <1>1, <2>1, <2>2
<1>7. ASSUME u = s, NEW i \in Ops, Take(s, i) PROVE Whole(s)'
  <2>1. call[s][i] = "queued" /\ i \in 1 .. Chunks /\ UNCHANGED <<pump, written, pending>>
    BY <1>0, <1>7 DEF Take
  <2>2. pending[s] = i
    BY <1>0, <1>7, <2>1 DEF SinkInv
  <2>3. pending[s] = written[s] + 1
    BY <1>0, <2>1, <2>2 DEF SinkInv, None
  <2> QED BY <2>1, <2>3 DEF Whole
<1>8. ASSUME u = s, FlushWriter(s) \/ \E i \in Ops : Break(s, i) PROVE Whole(s)'
  BY <1>1, <1>8 DEF FlushWriter, Break
<1> QED BY <1>2, <1>3, <1>4, <1>5, <1>6, <1>7, <1>8 DEF Poll, Work

-----------------------------------------------------------------------------
(* The composition.                                                        *)

\* A teed run is a run of the client.
THEOREM IsClient == TeedSpec => Spec
<1>1. TeedInit => Init
  BY DEF TeedInit
<1>2. [TeedNext]_<<vars, teeVars>> => [Next]_vars
  <2> SUFFICES ASSUME TeedNext PROVE Next \/ UNCHANGED vars
    BY DEF vars, teeVars
  <2>1. ASSUME NEW t \in Callers, LaunchTeed(t) \/ FinishTeed(t)
        PROVE  Next
    BY <2>1 DEF LaunchTeed, FinishTeed, Next, Threads
  <2>2. ASSUME NEW t \in Callers, Interrupt(t) PROVE Next
    <3>1. Finish(t)
      BY <2>2 DEF Interrupt, Finish
    <3> QED BY <3>1 DEF Next, Threads
  <2> QED BY <2>1, <2>2 DEF TeedNext
<1> QED BY <1>1, <1>2, PTL DEF TeedSpec, Spec

\* So what holds of the client's builds holds of a teed run's.
THEOREM BuildsHold == TeedSpec => [](FailClosed /\ RaisesItsOwn)
BY IsClient, FailClosedHolds, RaisesItsOwnHolds, PTL

\* Its tees are tees.
THEOREM IsTee == TeedSpec => TeeSpec
<1>1. TeedInit => TeeInit
  BY DEF TeedInit
<1>2. [TeedNext]_<<vars, teeVars>> => [TeeNext]_teeVars
  <2> SUFFICES ASSUME TeedNext PROVE TeeNext \/ UNCHANGED teeVars
    BY DEF vars, teeVars
  <2>1. ASSUME NEW t \in Callers, LaunchTeed(t) \/ FinishTeed(t) \/ Interrupt(t)
        PROVE  TeeNext
    BY <2>1 DEF LaunchTeed, FinishTeed, Interrupt, TeeNext
  <2> QED BY <2>1 DEF TeedNext, TeeNext
<1> QED BY <1>1, <1>2, PTL DEF TeedSpec, TeeSpec

\* What a writer gets is the stream, from its beginning, each piece once and in
\* order, and no less than the pump was told.
THEOREM TeedInOrderHolds == TeedSpec => []TeedInOrder
<1>1. TeeTypeOK /\ TeeInv => TeedInOrder
  <2> SUFFICES ASSUME TeeTypeOK, TeeInv, NEW s \in Sinks
               PROVE  /\ Consecutive(log[s])
                      /\ written[s] > 0 => written[s] * Size <= After(log[s][Len(log[s])])
    BY DEF TeedInOrder, Consecutive
  <2>1. Consecutive(log[s]) /\ Got(log[s]) = written[s] * Size + Given(s)
    BY DEF TeeInv, SinkInv
  <2>2. Given(s) \in Nat
    <3>1. written[s] \in 0 .. Chunks /\ \A i \in Ops : at[s][i] \in 0 .. Size
      BY DEF TeeTypeOK
    <3> QED BY <3>1, TeeAssumption DEF Given, Ops
  <2>3. ASSUME written[s] > 0 PROVE written[s] * Size <= After(log[s][Len(log[s])])
    <3>1. written[s] * Size > 0 /\ written[s] * Size \in Nat
      BY <2>3, TeeAssumption DEF TeeTypeOK
    <3>2. Got(log[s]) > 0
      BY <2>1, <2>2, <3>1
    <3>3. Got(log[s]) = After(log[s][Len(log[s])])
      BY <3>2 DEF Got
    <3> QED BY <2>1, <2>2, <3>1, <3>3
  <2> QED BY <2>1, <2>3
<1> QED BY <1>1, IsTee, TeesInductive, PTL

\* Once the run has returned, no call is left in the pool to use the writer.
THEOREM QuietAfterReturnHolds == TeedSpec => []QuietAfterReturn
<1>1. TeeInv => QuietAfterReturn
  <2> SUFFICES ASSUME TeeInv, tee = "closed", NEW s \in Sinks, NEW i \in Ops,
                      call[s][i] = "queued"
               PROVE  FALSE
    BY DEF QuietAfterReturn
  <2>1. pending[s] = None /\ pending[s] = i
    BY DEF TeeInv, SinkInv
  <2> QED BY <2>1, TeeAssumption DEF Ops, None
<1> QED BY <1>1, IsTee, TeesInductive, PTL

\* A pump never waits for a call that was not started.
THEOREM NeverStalledHolds == TeedSpec => []NeverStalled
<1>1. TeeInit => \A s \in Sinks : Started(s)
  BY DEF TeeInit, Started
<1>2. TeeTypeOK /\ TeeInv /\ (\A s \in Sinks : Started(s)) /\ [TeeNext]_teeVars
        => (\A s \in Sinks : Started(s))'
  <2> SUFFICES ASSUME TeeTypeOK, TeeInv, \A s \in Sinks : Started(s), [TeeNext]_teeVars,
                      NEW s \in Sinks
               PROVE  Started(s)'
    OBVIOUS
  <2>1. CASE TeeStep
    BY <2>1, StartedStep DEF TeeStep
  <2>2. CASE Open \/ Close \/ Drop \/ UNCHANGED teeVars
    BY <2>2 DEF Open, Close, Drop, teeVars, Started
  <2> QED BY <2>1, <2>2 DEF TeeNext
<1>3. TeeInv /\ (\A s \in Sinks : Started(s)) => NeverStalled
  BY DEF TeeInv, SinkInv, Started, NeverStalled
<1> QED BY <1>1, <1>2, <1>3, IsTee, TeesInductive, PTL DEF TeeSpec

\* A tee that ends without an error has torn no chunk.
THEOREM NothingTornHolds == TeedSpec => []NothingTorn
<1>1. TeeInit => \A s \in Sinks : Whole(s)
  <2> SUFFICES ASSUME TeeInit, NEW s \in Sinks PROVE Given(s) = 0
    BY DEF Whole
  <2> QED BY TeeAssumption DEF TeeInit, Given, Ops
<1>2. TeeTypeOK /\ TeeInv /\ (\A s \in Sinks : Whole(s)) /\ [TeeNext]_teeVars
        => (\A s \in Sinks : Whole(s))'
  <2> SUFFICES ASSUME TeeTypeOK, TeeInv, \A s \in Sinks : Whole(s), [TeeNext]_teeVars,
                      NEW s \in Sinks
               PROVE  Whole(s)'
    OBVIOUS
  <2>1. CASE TeeStep
    BY <2>1, WholeStep DEF TeeStep
  <2>2. CASE Open \/ Close \/ Drop \/ UNCHANGED teeVars
    BY <2>2 DEF Open, Close, Drop, teeVars, Whole, Given
  <2> QED BY <2>1, <2>2 DEF TeeNext
<1>3. TeeTypeOK /\ TeeInv /\ (\A s \in Sinks : Whole(s)) => NothingTorn
  <2> SUFFICES ASSUME TeeTypeOK, TeeInv, \A s \in Sinks : Whole(s),
                      NEW s \in Sinks, pump[s] = "closed"
               PROVE  Got(log[s]) = written[s] * Size
    BY DEF NothingTorn
  <2>1. pending[s] = None /\ Got(log[s]) = written[s] * Size + Given(s)
    BY DEF TeeInv, SinkInv, Over
  <2>2. Given(s) = 0
    <3>1. CASE written[s] < Chunks
      <4>1. written[s] \in 0 .. Chunks
        BY DEF TeeTypeOK
      <4>2. pending[s] # written[s] + 1 /\ pump[s] # "disabled" /\ Whole(s)
        BY <2>1, <3>1, <4>1, TeeAssumption DEF None
      <4> QED BY <4>2 DEF Whole
    <3>2. CASE ~ (written[s] < Chunks)
      BY <3>2 DEF Given
    <3> QED BY <3>1, <3>2
  <2>3. written[s] * Size \in Int
    BY TeeAssumption DEF TeeTypeOK
  <2> QED BY <2>1, <2>2, <2>3
<1> QED BY <1>1, <1>2, <1>3, IsTee, TeesInductive, PTL DEF TeeSpec

=============================================================================
