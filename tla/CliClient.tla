----------------------------- MODULE CliClient -----------------------------
(***************************************************************************)
(* The verbs of CliClient (src/cli.rs) and the hand-off of what a          *)
(* default_env_fn resolver raises.                                         *)
(*                                                                         *)
(* Every verb first builds its command, and the crate calls the client's   *)
(* resolvers while it does.  A resolver is a Python callable behind a hook *)
(* that cannot fail: what it raises is parked in RESOLVER_ERROR, a slot of *)
(* the thread, the build goes on with an empty string, and build_command   *)
(* looks into the slot when the build is through.  A resolver may call a   *)
(* client itself, so builds nest on a thread; each brackets the slot with  *)
(* a ResolverErrorScope.  The match predicate of an injected runner, which *)
(* runs while the verb waits, may call a client as well.                   *)
(*                                                                         *)
(* An awaited verb builds where its future is polled, on a worker of the   *)
(* runtime.  A worker, and a thread that waits in block_on, may not block  *)
(* on the runtime again: block_on_interruptible refuses (src/runtime.rs).  *)
(***************************************************************************)
EXTENDS Naturals, Sequences, FiniteSets

CONSTANTS
  Callers,       \* Python threads that call the synchronous verbs.
  Workers,       \* Threads of the runtime, which poll the awaited verbs.
  Keys,          \* The environment variables that have a resolver.
  MaxDepth,      \* Bound: how deep verbs nest on a thread.
  Verb,          \* Where an error comes from that no resolver raised.
  NoError        \* What an empty slot holds.

ASSUME ThreadsAssumption == Callers \cap Workers = {}
ASSUME DepthAssumption == MaxDepth \in Nat \ {0}

Threads == Callers \union Workers
\* An error, named for the depth and the resolver that raised it first.
Errors  == (1 .. MaxDepth) \X (Keys \union {Verb})

ASSUME ErrorsAssumption == Verb \notin Keys /\ NoError \notin Errors

VARIABLES
  finalizing,    \* The interpreter is; a worker can no longer attach to it.
  slot,          \* RESOLVER_ERROR of each thread.
  stack,         \* The verbs each thread is in, the outermost first.
  last           \* History: of the build that the last step ended, what its first
                 \* resolver to fail had raised, and what the build raised.

vars == <<finalizing, slot, stack, last>>

Maybe  == Errors \union {NoError}

\* Which verb it is shows when the build is through.
Frames == [phase : {"build", "run"},
           todo  : SUBSET Keys,   \* the variables whose resolver is still to be called
           outer : Maybe,         \* ResolverErrorScope.outer
           first : Maybe,         \* history: what its first resolver to fail raised
           heard : Maybe]         \* what the verb called inside it last raised

NoBuild == [first |-> NoError, raised |-> NoError]

Init ==
  /\ finalizing = FALSE
  /\ slot  = [t \in Threads |-> NoError]
  /\ stack = [t \in Threads |-> <<>>]
  /\ last  = NoBuild

-----------------------------------------------------------------------------
Depth(t)  == Len(stack[t])
Top(t)    == stack[t][Depth(t)]

Building(t) == Depth(t) > 0 /\ Top(t).phase = "build"
Calling(t)  == Building(t) /\ Top(t).todo # {}       \* a resolver runs
Waiting(t)  == Depth(t) > 0 /\ Top(t).phase = "run"    \* the runtime is driven

\* try_attach succeeds.
Attached(t) == ~ finalizing \/ t \in Callers

\* reject_reentrant_runtime.
Reentrant(t) == t \in Workers \/ \E i \in 1 .. Depth(t) : stack[t][i].phase = "run"

\* The top of the stack of t becomes f.
Becomes(t, f) == stack' = [stack EXCEPT ![t][Depth(t)] = f]

\* The verb on top of the stack of t is through and raises e, unless that is
\* NoError, into whatever called it.
Returns(t, e) ==
  stack' = [stack EXCEPT ![t] =
              [i \in 1 .. Depth(t) - 1 |->
                 IF i = Depth(t) - 1 /\ stack[t][i].phase = "build"
                 THEN [stack[t][i] EXCEPT !.heard = e] ELSE stack[t][i]]]

\* Mutant: the bracket puts nothing back.
Forget(t) == slot' = [slot EXCEPT ![t] = NoError]

\* Drop of ResolverErrorScope.
Restore(t) == slot' = [slot EXCEPT ![t] = Top(t).outer]

\* The build of t is over and raises e.
Left(t, e) == last' = [first |-> Top(t).first, raised |-> e]
NoneLeft   == last' = NoBuild

-----------------------------------------------------------------------------
(* A verb and its build.                                                   *)

\* Who calls verbs: Python code between verbs, inside a resolver, or inside a
\* predicate; the runtime, which polls an awaited verb.
MayCall(t) ==
  /\ Depth(t) < MaxDepth
  /\ \/ Depth(t) = 0
     \/ Attached(t) /\ (Calling(t) \/ Waiting(t))

\* The variables are those that the client has a resolver for and the command
\* does not have already.
Begin(t, variables) ==
  /\ MayCall(t)
  /\ stack' = [stack EXCEPT ![t] = Append(@,
                 [phase |-> "build",
                  todo |-> variables,
                  outer |-> slot[t], first |-> NoError, heard |-> NoError])]
  /\ slot' = [slot EXCEPT ![t] = NoError]
  /\ NoneLeft
  /\ UNCHANGED finalizing

\* A client takes its resolvers out of a hash map, and they are called in any
\* order; which one it was shows when it is through.
Called(t, k) == [Top(t) EXCEPT !.todo = @ \ {k}, !.heard = NoError]

Resolve(t) ==
  /\ Calling(t)
  /\ Attached(t)
  /\ \E k \in Top(t).todo : Becomes(t, Called(t, k))
  /\ NoneLeft
  /\ UNCHANGED <<finalizing, slot>>

\* Mutant: one slot for all threads.
FailShared(t) ==
  /\ Calling(t)
  /\ Attached(t)
  /\ \E k \in Top(t).todo : \E e \in {<<Depth(t), k>>, Top(t).heard} \ {NoError} :
       /\ Becomes(t, [Called(t, k) EXCEPT !.first = IF @ = NoError THEN e ELSE @])
       /\ slot' = [u \in Threads |-> IF slot[u] = NoError THEN e ELSE slot[u]]
  /\ NoneLeft
  /\ UNCHANGED finalizing

\* The resolver raises: an error of its own, or what a verb it called raised.
\* The first failure of a build is kept.
Fail(t) ==
  /\ Calling(t)
  /\ Attached(t)
  /\ \E k \in Top(t).todo : \E e \in {<<Depth(t), k>>, Top(t).heard} \ {NoError} :
       /\ Becomes(t, [Called(t, k) EXCEPT !.first = IF @ = NoError THEN e ELSE @])
       /\ slot' = [slot EXCEPT ![t] = IF @ = NoError THEN e ELSE @]
  /\ NoneLeft
  /\ UNCHANGED finalizing

\* The interpreter is finalizing: try_attach fails, the resolver is not called.
Skip(t) ==
  /\ Calling(t)
  /\ ~ Attached(t)
  /\ \E k \in Top(t).todo : Becomes(t, Called(t, k))
  /\ NoneLeft
  /\ UNCHANGED <<finalizing, slot>>

\* build_command takes the error of its own build, and raises it.
Abort(t) ==
  /\ Building(t)
  /\ ~ Calling(t)
  /\ slot[t] # NoError
  /\ Returns(t, slot[t])
  /\ Left(t, slot[t])
  /\ Restore(t)
  /\ UNCHANGED finalizing

Built(t) ==
  /\ Building(t)
  /\ ~ Calling(t)
  /\ slot[t] = NoError
  /\ Left(t, NoError)
  /\ Restore(t)
  /\ UNCHANGED finalizing

\* command() returns the command; an awaited verb hands it to the runner, on
\* the task it is polled on.
Hand(t) ==
  /\ Built(t)
  /\ Returns(t, NoError)

\* The program is looked up, and found or not.
LookUp(t) ==
  /\ Built(t)
  /\ \E e \in {NoError, <<Depth(t), Verb>>} : Returns(t, e)

\* The command goes to the runner, and the thread waits for it.
Launch(t) ==
  /\ Built(t)
  /\ ~ Reentrant(t)
  /\ Becomes(t, [Top(t) EXCEPT !.phase = "run", !.outer = NoError, !.heard = NoError])

Refuse(t) ==
  /\ Built(t)
  /\ Reentrant(t)
  /\ Returns(t, <<Depth(t), Verb>>)

\* The build panics, out of a verb the resolver called or in the crate.
Unwind(t) ==
  /\ Building(t)
  /\ Returns(t, <<Depth(t), Verb>>)
  /\ Restore(t)
  /\ NoneLeft
  /\ UNCHANGED finalizing

\* The run is through: a result, an error of the crate or of a predicate, or
\* output that run_json cannot parse.
Finish(t) ==
  /\ Waiting(t)
  /\ \E e \in {NoError, <<Depth(t), Verb>>} : Returns(t, e)
  /\ NoneLeft
  /\ UNCHANGED <<finalizing, slot>>

Finalize ==
  /\ ~ finalizing
  /\ finalizing' = TRUE
  /\ NoneLeft
  /\ UNCHANGED <<slot, stack>>

Next ==
  \/ \E t \in Threads : \/ \E variables \in SUBSET Keys : Begin(t, variables)
                        \/ Resolve(t) \/ Fail(t) \/ Skip(t)
                        \/ Abort(t) \/ Hand(t) \/ LookUp(t) \/ Launch(t) \/ Refuse(t)
                        \/ Unwind(t) \/ Finish(t)
  \/ Finalize

Spec == Init /\ [][Next]_vars

-----------------------------------------------------------------------------
TypeOK ==
  /\ finalizing \in BOOLEAN
  /\ slot  \in [Threads -> Maybe]
  /\ stack \in [Threads -> Seq(Frames)]
  /\ last  \in [first : Maybe, raised : Maybe]
  /\ \A t \in Threads : Depth(t) <= MaxDepth

(***************************************************************************)
(* A command whose resolvers did not all succeed reaches neither the       *)
(* runner nor the caller: a build that raised nothing had no failure, and  *)
(* no failure is left behind in a verb that runs, whatever its resolvers   *)
(* called in between.                                                      *)
(***************************************************************************)
FailClosed ==
  /\ last.first # NoError => last.raised # NoError
  /\ \A t \in Threads : \A i \in 1 .. Depth(t) : stack[t][i].phase = "run" => stack[t][i].first = NoError

(***************************************************************************)
(* A build that raises, raises what the first of its own resolvers to fail *)
(* raised, and no error of a build that it runs inside of, that ran inside *)
(* of it and was caught, or of another thread.                             *)
(***************************************************************************)
RaisesItsOwn == last.raised # NoError => last.raised = last.first

(***************************************************************************)
(* RESOLVER_ERROR is empty on a thread that is in no build, so that a      *)
(* verb, a predicate and the next call start from nothing.                 *)
(***************************************************************************)
EmptyBetween ==
  \A t \in Threads :
    (\A i \in 1 .. Depth(t) : stack[t][i].phase = "run") => slot[t] = NoError
=============================================================================
