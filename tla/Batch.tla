------------------------------- MODULE Batch -------------------------------
(***************************************************************************)
(* Calls that share one ScriptedRunner: its own verbs, batches over it     *)
(* (src/batch.rs), and builders that reconfigure it meanwhile              *)
(* (src/runner.rs).                                                        *)
(*                                                                         *)
(* A rule's match predicate is a Python callable behind a crate hook that  *)
(* cannot fail.  What it raises goes into the sink of the verb it runs     *)
(* under, a task-local; the verb hands it to its caller.  A batch polls    *)
(* all its commands on one task, so every command has a sink of its own    *)
(* and leaves its error, when it is through, in a cell that the batch      *)
(* empties into the command's slot.                                        *)
(*                                                                         *)
(* Of the crate, batch.rs relies on this: output_stream keeps at most      *)
(* `concurrency` commands going, polls them in any order, and yields the   *)
(* index and result of one as soon as it is through, before it polls       *)
(* another.                                                                *)
(***************************************************************************)
EXTENDS Naturals, FiniteSets

CONSTANTS
  Calls,         \* Verbs and batches run through the runner.
  Builders,      \* Calls of on, fallback, when, on_sequence.
  Size,          \* The commands of a batch are 1 .. Size.
  NoError,       \* What a sink or a cell holds that is empty; in a slot: a result.
  Empty          \* What a slot holds that is empty.

ASSUME SizeAssumption == Size \in Nat \ {0}

Commands == 1 .. Size
Errors   == Calls \X Commands     \* an error, named for where it was raised

ASSUME NoErrorAssumption == NoError \notin Errors /\ Empty \notin Errors \union {NoError}

VARIABLES
  rules,         \* The rules of the runner in the slot: the builders that made them.
  original,      \* What a builder has swapped out.
  builder,       \* How far each builder is.
  clone,         \* The rules of the clone a call holds.
  call,          \* How far each call is.
  kind,          \* A verb of the runner, or a batch.
  size,          \* How many commands it has; a verb has one.
  cap,           \* Its concurrency.
  command,       \* How far each of its commands is.
  sink,          \* WHEN_PREDICATE_ERROR, while the command runs.
  completed,     \* WhenCaptureRunner.completed.
  yielded,       \* The item the batch has received and not yet stored, or 0.
  slot,          \* The results the call returns.
  raised         \* History: the commands, of calls not abandoned, whose predicate
                 \* has raised.

runnerVars == <<rules, original, builder>>
shape      == <<kind, size, cap>>
runVars    == <<command, sink, completed, yielded, slot, raised>>
vars       == <<runnerVars, clone, call, shape, runVars>>

Init ==
  /\ rules     = {}
  /\ original  = {}
  /\ builder   = [b \in Builders |-> "idle"]
  /\ clone     = [c \in Calls |-> {}]
  /\ call      = [c \in Calls |-> "idle"]
  /\ kind      = [c \in Calls |-> "none"]
  /\ size      = [c \in Calls |-> 0]
  /\ cap       = [c \in Calls |-> 0]
  /\ command   = [c \in Calls |-> [i \in Commands |-> "queued"]]
  /\ sink      = [c \in Calls |-> [i \in Commands |-> NoError]]
  /\ completed = [c \in Calls |-> NoError]
  /\ yielded   = [c \in Calls |-> 0]
  /\ slot      = [c \in Calls |-> [i \in Commands |-> Empty]]
  /\ raised    = {}

-----------------------------------------------------------------------------
(* Builders.                                                               *)

Unlocked == \A b \in Builders : builder[b] # "swapped"

\* Who has a clone: a call from its beginning, awaited or not, to its end.
Holders == {c \in Calls : call[c] \in {"lazy", "running"}}

\* reconfigure locks the slot and puts an empty runner in it for the time being.
Swap(b) ==
  /\ Unlocked /\ builder[b] = "idle"
  /\ builder'  = [builder EXCEPT ![b] = "swapped"]
  /\ original' = rules
  /\ rules'    = {}
  /\ UNCHANGED <<clone, call, shape, runVars>>

\* Arc::try_unwrap succeeds for a sole owner: the rule is added.
Configure(b) ==
  /\ builder[b] = "swapped" /\ Holders = {}
  /\ builder'  = [builder EXCEPT ![b] = "ok"]
  /\ rules'    = original \union {b}
  /\ original' = {}
  /\ UNCHANGED <<clone, call, shape, runVars>>

\* Mutant: the original is not put back.
RefuseBareRunner(b) ==
  /\ builder[b] = "swapped" /\ Holders # {}
  /\ builder'  = [builder EXCEPT ![b] = "refused"]
  /\ original' = {}
  /\ UNCHANGED <<rules, clone, call, shape, runVars>>

\* It fails for anyone else: the original goes back.
RefuseBuilder(b) ==
  /\ builder[b] = "swapped" /\ Holders # {}
  /\ builder'  = [builder EXCEPT ![b] = "refused"]
  /\ rules'    = original
  /\ original' = {}
  /\ UNCHANGED <<clone, call, shape, runVars>>

-----------------------------------------------------------------------------
(* Calls.                                                                  *)

\* c begins as a k of n commands, w at once, with a clone of the runner; it runs,
\* or hands out an awaitable that will.
Opens(c, k, n, w) ==
  /\ call[c] = "idle"
  /\ kind' = [kind EXCEPT ![c] = k]
  /\ size' = [size EXCEPT ![c] = n]
  /\ cap'  = [cap EXCEPT ![c] = w]
  /\ \E lazy \in BOOLEAN :
       call' = [call EXCEPT ![c] = IF lazy THEN "lazy" ELSE "running"]
  /\ clone' = [clone EXCEPT ![c] = rules]
  /\ UNCHANGED <<runnerVars, runVars>>

\* Mutant: the clone is taken without the lock.
BeginVerbUnlocked(c) == Opens(c, "verb", 1, 1)

\* A verb of the runner.
BeginVerb(c) == Unlocked /\ Opens(c, "verb", 1, 1)

\* output_all and its kin, which resolve their concurrency and extract the runner.
BeginBatch(c) ==
  /\ Unlocked
  /\ \E n \in 0 .. Size, w \in Commands : Opens(c, "batch", n, w)

\* A concurrency below one is refused before the runner is looked at.
RefuseConcurrency(c) ==
  /\ call[c] = "idle"
  /\ call' = [call EXCEPT ![c] = "ended"]
  /\ UNCHANGED <<runnerVars, clone, shape, runVars>>

Await(c) ==
  /\ call[c] = "lazy"
  /\ call' = [call EXCEPT ![c] = "running"]
  /\ UNCHANGED <<runnerVars, clone, shape, runVars>>

\* The commands of c that are under way.
Live(c) == {i \in 1 .. size[c] : command[c][i] = "live"}

\* The driver goes on to its commands once the item it has yielded is stored.
Driven(c) == call[c] = "running" /\ yielded[c] = 0

\* Mutant: one sink around the whole batch.
BatchSink(c, i) == 1

\* scope_when: the sink a command's predicates raise into.
ActiveSink(c, i) == i

\* stash_when_error: the first error stays.
Stash(c, i) ==
  sink' = [sink EXCEPT ![c][ActiveSink(c, i)] = IF @ = NoError THEN <<c, i>> ELSE @]

\* The first poll of a command calls the verb, and the verb the predicate.
Start(c, i) ==
  /\ Driven(c)
  /\ i \in 1 .. size[c] /\ command[c][i] = "queued"
  /\ Cardinality(Live(c)) < cap[c]
  /\ command' = [command EXCEPT ![c][i] = "live"]
  /\ \/ raised' = raised \union {<<c, i>>} /\ Stash(c, i)
     \/ UNCHANGED <<raised, sink>>
  /\ UNCHANGED <<runnerVars, clone, call, shape, completed, yielded, slot>>

\* with_when_capture: a verb of the runner is through and looks into its sink.
Answer(c) ==
  /\ Driven(c) /\ kind[c] = "verb" /\ 1 \in Live(c)
  /\ command' = [command EXCEPT ![c][1] = "over"]
  /\ slot' = [slot EXCEPT ![c][1] = sink[c][1]]
  /\ sink' = [sink EXCEPT ![c][1] = NoError]
  /\ UNCHANGED <<runnerVars, clone, call, shape, completed, yielded, raised>>

\* A batch's verb is through: its error goes from the sink into the cell, and the
\* command's item to the batch.
Resolve(c, i) ==
  /\ Driven(c) /\ kind[c] = "batch" /\ i \in Live(c)
  /\ command' = [command EXCEPT ![c][i] = "over"]
  /\ completed' = [completed EXCEPT ![c] = IF sink[c][i] # NoError THEN sink[c][i] ELSE @]
  /\ sink' = [sink EXCEPT ![c][i] = NoError]
  /\ yielded' = [yielded EXCEPT ![c] = i]
  /\ UNCHANGED <<runnerVars, clone, call, shape, slot, raised>>

\* collect_in_input_order takes what the cell holds for the item it received.
Store(c) ==
  /\ yielded[c] # 0
  /\ slot' = [slot EXCEPT ![c][yielded[c]] = completed[c]]
  /\ completed' = [completed EXCEPT ![c] = NoError]
  /\ yielded'   = [yielded EXCEPT ![c] = 0]
  /\ UNCHANGED <<runnerVars, clone, call, shape, command, sink, raised>>

\* The stream has ended: the call returns its slots and drops its clone.
Return(c) ==
  /\ Driven(c)
  /\ \A i \in 1 .. size[c] : command[c][i] = "over"
  /\ call' = [call EXCEPT ![c] = "ended"]
  /\ UNCHANGED <<runnerVars, clone, shape, runVars>>

\* Ctrl+C, cancellation, or an awaitable dropped: the future goes, with every
\* command under way, its sinks, its cell and its slots.
Abandon(c) ==
  /\ c \in Holders
  /\ call'      = [call EXCEPT ![c] = "abandoned"]
  /\ command'   = [command EXCEPT ![c] = [i \in Commands |-> "over"]]
  /\ sink'      = [sink EXCEPT ![c] = [i \in Commands |-> NoError]]
  /\ completed' = [completed EXCEPT ![c] = NoError]
  /\ yielded'   = [yielded EXCEPT ![c] = 0]
  /\ slot'      = [slot EXCEPT ![c] = [i \in Commands |-> Empty]]
  /\ raised'    = {e \in raised : e[1] # c}
  /\ UNCHANGED <<runnerVars, clone, shape>>

-----------------------------------------------------------------------------

Next ==
  \/ \E b \in Builders : Swap(b) \/ Configure(b) \/ RefuseBuilder(b)
  \/ \E c \in Calls :
       \/ BeginVerb(c) \/ BeginBatch(c) \/ RefuseConcurrency(c) \/ Await(c)
       \/ Answer(c) \/ Store(c) \/ Return(c) \/ Abandon(c)
       \/ \E i \in Commands : Start(c, i) \/ Resolve(c, i)

Spec == Init /\ [][Next]_vars

-----------------------------------------------------------------------------
(* Safety.                                                                 *)

TypeOK ==
  /\ rules     \in SUBSET Builders
  /\ original  \in SUBSET Builders
  /\ builder   \in [Builders -> {"idle", "swapped", "ok", "refused"}]
  /\ clone     \in [Calls -> SUBSET Builders]
  /\ call      \in [Calls -> {"idle", "lazy", "running", "ended", "abandoned"}]
  /\ kind      \in [Calls -> {"none", "verb", "batch"}]
  /\ size      \in [Calls -> 0 .. Size]
  /\ cap       \in [Calls -> 0 .. Size]
  /\ command   \in [Calls -> [Commands -> {"queued", "live", "over"}]]
  /\ sink      \in [Calls -> [Commands -> Errors \union {NoError}]]
  /\ completed \in [Calls -> Errors \union {NoError}]
  /\ yielded   \in [Calls -> 0 .. Size]
  /\ slot      \in [Calls -> [Commands -> Errors \union {NoError, Empty}]]
  /\ raised    \in SUBSET Errors

\* What a call returns for a command is that command's own: the error its
\* predicate raised, or its result, and never another's, of the same batch or of
\* a call on another thread (WhenCaptureRunner, collect_in_input_order).
EachItsOwn ==
  \A c \in Calls : call[c] = "ended" =>
    \A i \in 1 .. size[c] :
      slot[c][i] = IF <<c, i>> \in raised THEN <<c, i>> ELSE NoError

\* While nobody has the slot locked, the runner has the rule of every builder
\* that returned, and no other: a refused one leaves no trace.
RulesKept == Unlocked => rules = {b \in Builders : builder[b] = "ok"}

\* A call never runs under the empty runner that a builder puts in for a moment,
\* and no rule changes under a call: those it holds are all there are.
CallSeesRules ==
  \A c \in Holders : clone[c] = {b \in Builders : builder[b] = "ok"}

=============================================================================
