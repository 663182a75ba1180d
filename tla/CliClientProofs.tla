--------------------------- MODULE CliClientProofs ---------------------------
(***************************************************************************)
(* Theorems about CliClient, for any threads and resolvers and any depth   *)
(* of nesting.                                                             *)
(***************************************************************************)
EXTENDS CliClient, SequenceTheorems, TLAPS

(***************************************************************************)
(* The inductive invariant.  RESOLVER_ERROR holds the first failure of the *)
(* innermost build of its thread, or nothing when the thread is in none;   *)
(* and a build has put by what the slot is to hold when it is left, the    *)
(* first failure of the build around it.  Below s stands for the stack of  *)
(* a thread, and n for how many of its frames there are.                   *)
(***************************************************************************)
Innermost(s, n, e) ==
  \/ e = NoError /\ \A j \in 1 .. n : s[j].phase = "run"
  \/ \E i \in 1 .. n : /\ s[i].phase = "build"
                       /\ s[i].first = e
                       /\ \A j \in i + 1 .. n : s[j].phase = "run"

Bracketed(s, held) ==
  /\ Innermost(s, Len(s), held)
  /\ \A i \in 1 .. Len(s) :
       IF s[i].phase = "build" THEN Innermost(s, i - 1, s[i].outer) ELSE s[i].first = NoError

IInv ==
  /\ \A t \in Threads : Bracketed(stack[t], slot[t])
  /\ last.raised = last.first

-----------------------------------------------------------------------------
(* Stacks.                                                                 *)

\* A changed frame does not change the rest of a stack.
LEMMA ChangedTop ==
  ASSUME NEW s \in Seq(Frames), Len(s) > 0, NEW f \in Frames
  PROVE  LET r == [s EXCEPT ![Len(s)] = f]
         IN  /\ r \in Seq(Frames) /\ Len(r) = Len(s) /\ r[Len(s)] = f
             /\ \A i \in 1 .. Len(s) - 1 : r[i] = s[i]
<1>1. Len(s) \in 1 .. Len(s) /\ Len(s) \in Nat
  BY LenProperties
<1> QED BY <1>1, ExceptSeq, LenProperties

\* What is innermost is up to the phases and first failures.
LEMMA InnermostSame ==
  ASSUME NEW s, NEW r, NEW n, NEW e, Innermost(s, n, e),
         \A j \in 1 .. n : r[j].phase = s[j].phase /\ r[j].first = s[j].first
  PROVE  Innermost(r, n, e)
<1>1. CASE e = NoError /\ \A j \in 1 .. n : s[j].phase = "run"
  BY <1>1 DEF Innermost
<1>2. ASSUME NEW i \in 1 .. n, s[i].phase = "build", s[i].first = e,
             \A j \in i + 1 .. n : s[j].phase = "run"
      PROVE  Innermost(r, n, e)
  <2>1. \A j \in i + 1 .. n : j \in 1 .. n
    OBVIOUS
  <2> QED BY <1>2, <2>1 DEF Innermost
<1> QED BY <1>1, <1>2 DEF Innermost

\* The frames below the top are bracketed as they were.
LEMMA BelowTop ==
  ASSUME NEW s \in Seq(Frames), NEW r, NEW n \in Nat, n <= Len(s),
         \A i \in 1 .. Len(s) :
           IF s[i].phase = "build" THEN Innermost(s, i - 1, s[i].outer)
           ELSE s[i].first = NoError,
         \A i \in 1 .. n : /\ r[i].phase = s[i].phase /\ r[i].first = s[i].first
                           /\ r[i].outer = s[i].outer
  PROVE  \A i \in 1 .. n :
           IF r[i].phase = "build" THEN Innermost(r, i - 1, r[i].outer)
           ELSE r[i].first = NoError
<1> TAKE i \in 1 .. n
<1>1. i \in 1 .. Len(s) /\ \A j \in 1 .. i - 1 : j \in 1 .. n
  BY LenProperties
<1>2. CASE s[i].phase = "build"
  <2>1. Innermost(s, i - 1, s[i].outer)
    BY <1>1, <1>2
  <2>2. Innermost(r, i - 1, s[i].outer)
    BY <1>1, <2>1, InnermostSame
  <2> QED BY <1>2, <2>2
<1>3. CASE s[i].phase # "build"
  BY <1>1, <1>3
<1> QED BY <1>2, <1>3

\* While a build is on top the slot holds its first failure.
LEMMA TopHolds ==
  ASSUME NEW s \in Seq(Frames), Len(s) > 0, NEW held, Bracketed(s, held),
         s[Len(s)].phase = "build"
  PROVE  held = s[Len(s)].first /\ Innermost(s, Len(s) - 1, s[Len(s)].outer)
<1>1. Len(s) \in 1 .. Len(s) /\ Len(s) \in Nat
  BY LenProperties
<1> QED BY <1>1 DEF Bracketed, Innermost

\* A build begins.
LEMMA Push ==
  ASSUME NEW s \in Seq(Frames), NEW held, Bracketed(s, held),
         NEW f \in Frames, f.phase = "build", f.first = NoError, f.outer = held
  PROVE  Bracketed(Append(s, f), NoError)
<1> DEFINE r == Append(s, f)
           n == Len(s)
<1>1. /\ n \in Nat /\ r \in Seq(Frames) /\ Len(r) = n + 1 /\ r[n + 1] = f
      /\ \A i \in 1 .. n : r[i] = s[i]
  BY AppendProperties, LenProperties
<1> HIDE DEF r
<1>2. Innermost(r, n + 1, NoError)
  BY <1>1 DEF Innermost
<1>3. Innermost(r, n, held)
  BY <1>1, InnermostSame DEF Bracketed
<1>4. ASSUME NEW i \in 1 .. n + 1
      PROVE  IF r[i].phase = "build" THEN Innermost(r, i - 1, r[i].outer)
             ELSE r[i].first = NoError
  <2>1. CASE i \in 1 .. n
    BY <1>1, <2>1, BelowTop, SMTT(20) DEF Bracketed
  <2>2. CASE i = n + 1
    BY <1>1, <1>3, <2>2
  <2> QED BY <1>1, <2>1, <2>2
<1>5. Bracketed(r, NoError)
  BY <1>1, <1>2, <1>4 DEF Bracketed
<1> QED BY <1>5 DEF r

\* A build goes on, perhaps with a failure.
LEMMA GoesOn ==
  ASSUME NEW s \in Seq(Frames), Len(s) > 0, NEW held, Bracketed(s, held),
         s[Len(s)].phase = "build",
         NEW f \in Frames, f.phase = "build", f.outer = s[Len(s)].outer
  PROVE  Bracketed([s EXCEPT ![Len(s)] = f], f.first)
<1> DEFINE r == [s EXCEPT ![Len(s)] = f]
           n == Len(s)
<1>1. /\ n \in Nat /\ r \in Seq(Frames) /\ Len(r) = n /\ r[n] = f
      /\ \A i \in 1 .. n - 1 : r[i] = s[i]
  BY ChangedTop, LenProperties
<1> HIDE DEF r
<1>2. Innermost(r, n, f.first)
  BY <1>1 DEF Innermost
<1>3. Innermost(r, n - 1, f.outer)
  BY <1>1, TopHolds, InnermostSame
<1>4. ASSUME NEW i \in 1 .. n
      PROVE  IF r[i].phase = "build" THEN Innermost(r, i - 1, r[i].outer)
             ELSE r[i].first = NoError
  <2>1. CASE i \in 1 .. n - 1
    <3>1. \A j \in 1 .. n - 1 : IF r[j].phase = "build" THEN Innermost(r, j - 1, r[j].outer)
                                ELSE r[j].first = NoError
      <4>1. \A j \in 1 .. Len(s) :
              IF s[j].phase = "build" THEN Innermost(s, j - 1, s[j].outer)
              ELSE s[j].first = NoError
        BY DEF Bracketed
      <4>2. \A j \in 1 .. n - 1 : /\ r[j].phase = s[j].phase /\ r[j].first = s[j].first
                                  /\ r[j].outer = s[j].outer
        BY <1>1
      <4>3. n - 1 \in Nat /\ n - 1 <= Len(s)
        BY <1>1
      <4> HIDE DEF n
      <4> QED BY <4>1, <4>2, <4>3, BelowTop
    <3> QED BY <2>1, <3>1
  <2>2. CASE i = n
    BY <1>1, <1>3, <2>2
  <2> QED BY <1>1, <2>1, <2>2
<1>5. Bracketed(r, f.first)
  BY <1>1, <1>2, <1>4 DEF Bracketed
<1> QED BY <1>5 DEF r

\* A build that succeeded is followed by its run.
LEMMA RunsOn ==
  ASSUME NEW s \in Seq(Frames), Len(s) > 0, NEW held, Bracketed(s, held),
         s[Len(s)].phase = "build",
         NEW f \in Frames, f.phase = "run", f.first = NoError
  PROVE  Bracketed([s EXCEPT ![Len(s)] = f], s[Len(s)].outer)
<1> DEFINE r == [s EXCEPT ![Len(s)] = f]
           n == Len(s)
           e == s[Len(s)].outer
<1>1. /\ n \in Nat /\ r \in Seq(Frames) /\ Len(r) = n /\ r[n] = f
      /\ \A i \in 1 .. n - 1 : r[i] = s[i]
  BY ChangedTop, LenProperties
<1> HIDE DEF r, e
<1>3. Innermost(r, n - 1, e)
  BY <1>1, TopHolds, InnermostSame DEF e
<1>2. Innermost(r, n, e)
  BY <1>1, <1>3 DEF Innermost
<1>4. ASSUME NEW i \in 1 .. n
      PROVE  IF r[i].phase = "build" THEN Innermost(r, i - 1, r[i].outer)
             ELSE r[i].first = NoError
  <2>1. CASE i \in 1 .. n - 1
    <3>1. \A j \in 1 .. n - 1 : IF r[j].phase = "build" THEN Innermost(r, j - 1, r[j].outer)
                                ELSE r[j].first = NoError
      <4>1. \A j \in 1 .. Len(s) :
              IF s[j].phase = "build" THEN Innermost(s, j - 1, s[j].outer)
              ELSE s[j].first = NoError
        BY DEF Bracketed
      <4>2. \A j \in 1 .. n - 1 : /\ r[j].phase = s[j].phase /\ r[j].first = s[j].first
                                  /\ r[j].outer = s[j].outer
        BY <1>1
      <4>3. n - 1 \in Nat /\ n - 1 <= Len(s)
        BY <1>1
      <4> HIDE DEF n
      <4> QED BY <4>1, <4>2, <4>3, BelowTop
    <3> QED BY <2>1, <3>1
  <2>2. CASE i = n
    BY <1>1, <2>2
  <2> QED BY <1>1, <2>1, <2>2
<1>5. Bracketed(r, e)
  BY <1>1, <1>2, <1>4 DEF Bracketed
<1> QED BY <1>5 DEF r, e

\* The verb on top is through.  If it was in its build, the slot is restored.
LEMMA Pop ==
  ASSUME NEW s \in Seq(Frames), Len(s) > 0, NEW held, Bracketed(s, held),
         NEW r \in Seq(Frames), Len(r) = Len(s) - 1,
         \A i \in 1 .. Len(s) - 1 : /\ r[i].phase = s[i].phase /\ r[i].first = s[i].first
                                    /\ r[i].outer = s[i].outer
  PROVE  Bracketed(r, IF s[Len(s)].phase = "build" THEN s[Len(s)].outer ELSE held)
<1> DEFINE n == Len(s)
           e == IF s[Len(s)].phase = "build" THEN s[Len(s)].outer ELSE held
<1>1. n \in Nat /\ n > 0 /\ n \in 1 .. n
  BY LenProperties
<1>2. Innermost(s, n - 1, e)
  <2>1. CASE s[n].phase = "build"
    BY <2>1, TopHolds
  <2>2. CASE s[n].phase # "build"
    <3>1. Innermost(s, n, held)
      BY DEF Bracketed
    <3> QED BY <1>1, <2>2, <3>1, SMTT(20) DEF Innermost
  <2> QED BY <2>1, <2>2
<1>3. Innermost(r, n - 1, e)
  BY <1>2, InnermostSame
<1>4. \A i \in 1 .. n - 1 : IF r[i].phase = "build" THEN Innermost(r, i - 1, r[i].outer)
                            ELSE r[i].first = NoError
  <2>1. /\ n - 1 \in Nat /\ n - 1 <= Len(s)
        /\ \A i \in 1 .. Len(s) :
             IF s[i].phase = "build" THEN Innermost(s, i - 1, s[i].outer)
             ELSE s[i].first = NoError
        /\ \A i \in 1 .. n - 1 : /\ r[i].phase = s[i].phase /\ r[i].first = s[i].first
                                 /\ r[i].outer = s[i].outer
    BY <1>1, SMTT(20) DEF Bracketed
  <2> HIDE DEF n
  <2> QED BY <2>1, BelowTop, ZenonT(40)
<1> QED BY <1>1, <1>3, <1>4 DEF Bracketed

-----------------------------------------------------------------------------
(* Types.                                                                  *)

\* A verb that is through leaves what called it, which may hear its error.
LEMMA ReturnsPop ==
  ASSUME TypeOK, NEW t \in Threads, Depth(t) > 0, NEW e \in Maybe, Returns(t, e)
  PROVE  /\ stack' \in [Threads -> Seq(Frames)]
         /\ \A u \in Threads : u # t => stack'[u] = stack[u]
         /\ Len(stack'[t]) = Depth(t) - 1
         /\ \A i \in 1 .. Depth(t) - 1 : /\ stack'[t][i].phase = stack[t][i].phase
                                         /\ stack'[t][i].first = stack[t][i].first
                                         /\ stack'[t][i].outer = stack[t][i].outer
<1> DEFINE s == stack[t]
           n == Depth(t) - 1
           r == [i \in 1 .. n |-> IF i = n /\ s[i].phase = "build"
                                   THEN [s[i] EXCEPT !.heard = e] ELSE s[i]]
<1>1. s \in Seq(Frames) /\ Len(s) = n + 1 /\ n \in Nat
  BY LenProperties DEF TypeOK, Depth
<1>2. \A i \in 1 .. n : s[i] \in Frames
  BY <1>1, ElementOfSeq
<1>3. \A i \in 1 .. n : /\ r[i] \in Frames
                        /\ r[i].phase = s[i].phase /\ r[i].first = s[i].first
                        /\ r[i].outer = s[i].outer
  BY <1>2 DEF Frames
<1>4. r \in [1 .. n -> Frames]
  BY <1>3
<1>5. r \in Seq(Frames) /\ Len(r) = n
  <2> HIDE DEF r
  <2>1. r \in Seq(Frames)
    BY <1>1, <1>4, SeqDef
  <2>2. 1 .. n = 1 .. Len(r) /\ Len(r) \in Nat
    BY <1>4, <2>1, LenProperties
  <2> QED BY <1>1, <2>1, <2>2
<1>6. stack' = [stack EXCEPT ![t] = r]
  BY DEF Returns
<1>7. stack'[t] = r /\ \A u \in Threads : u # t => stack'[u] = stack[u]
  BY <1>6 DEF TypeOK
<1>8. stack' \in [Threads -> Seq(Frames)]
  BY <1>5, <1>6 DEF TypeOK
<1> HIDE DEF r
<1> QED BY <1>3, <1>5, <1>7, <1>8 DEF n

\* The top of a stack changes.
LEMMA BecomesTop ==
  ASSUME TypeOK, NEW t \in Threads, Depth(t) > 0, NEW f \in Frames, Becomes(t, f)
  PROVE  /\ stack' \in [Threads -> Seq(Frames)]
         /\ \A u \in Threads : u # t => stack'[u] = stack[u]
         /\ stack'[t] = [stack[t] EXCEPT ![Len(stack[t])] = f]
         /\ Len(stack'[t]) = Depth(t)
<1>1. stack' = [stack EXCEPT ![t] = [stack[t] EXCEPT ![Len(stack[t])] = f]]
  BY DEF Becomes, Depth
<1>2. stack[t] \in Seq(Frames)
  BY DEF TypeOK
<1>3. /\ [stack[t] EXCEPT ![Len(stack[t])] = f] \in Seq(Frames)
      /\ Len([stack[t] EXCEPT ![Len(stack[t])] = f]) = Len(stack[t])
  BY <1>2, ChangedTop DEF Depth
<1> QED BY <1>1, <1>3 DEF TypeOK, Depth

\* Of the top of a stack.
LEMMA TopType ==
  ASSUME TypeOK, NEW t \in Threads, Depth(t) > 0
  PROVE  Top(t) \in Frames /\ Depth(t) \in 1 .. MaxDepth
<1>1. stack[t] \in Seq(Frames) /\ Depth(t) <= MaxDepth
  BY DEF TypeOK
<1>2. Len(stack[t]) \in Nat /\ Len(stack[t]) \in 1 .. Len(stack[t])
  BY <1>1, LenProperties DEF Depth
<1> QED BY <1>1, <1>2, ElementOfSeq, DepthAssumption DEF Top, Depth

\* A step keeps the types, and the depth within its bound.
LEMMA TypeStep ==
  ASSUME TypeOK, [Next]_vars
  PROVE  TypeOK'
<1>1. ASSUME NEW t \in Threads, NEW variables \in SUBSET Keys, Begin(t, variables)
      PROVE  TypeOK'
  <2> DEFINE f == [phase |-> "build", todo |-> variables,
                   outer |-> slot[t], first |-> NoError, heard |-> NoError]
  <2>1. f \in Frames /\ stack[t] \in Seq(Frames) /\ Len(stack[t]) \in Nat
    BY LenProperties DEF TypeOK, Frames, Maybe
  <2>2. stack' = [stack EXCEPT ![t] = Append(stack[t], f)] /\ Depth(t) < MaxDepth
    BY <1>1 DEF Begin, MayCall
  <2> HIDE DEF f
  <2>3. stack' \in [Threads -> Seq(Frames)] /\ \A u \in Threads : Len(stack'[u]) <= MaxDepth
    BY <2>1, <2>2, AppendProperties, DepthAssumption DEF TypeOK, Depth
  <2>4. /\ slot' \in [Threads -> Maybe] /\ last' \in [first : Maybe, raised : Maybe]
        /\ finalizing' \in BOOLEAN
    BY <1>1 DEF Begin, NoneLeft, NoBuild, TypeOK, Maybe
  <2> QED BY <2>3, <2>4 DEF TypeOK, Depth
<1>2. ASSUME NEW t \in Threads, Resolve(t) \/ Skip(t) \/ Fail(t)
      PROVE  TypeOK'
  <2>1. Depth(t) > 0 /\ Top(t) \in Frames /\ Depth(t) \in 1 .. MaxDepth
    BY <1>2, TopType DEF Resolve, Skip, Fail, Calling, Building
  <2>2. PICK f \in Frames : Becomes(t, f)
    <3>1. ASSUME NEW k \in Top(t).todo PROVE Called(t, k) \in Frames
      BY <2>1 DEF Called, Frames, Maybe
    <3>2. CASE Resolve(t) \/ Skip(t)
      BY <3>1, <3>2 DEF Resolve, Skip
    <3>3. CASE Fail(t)
      <4>1. PICK k \in Top(t).todo :
              \E e \in {<<Depth(t), k>>, Top(t).heard} \ {NoError} :
                Becomes(t, [Called(t, k) EXCEPT !.first = IF @ = NoError THEN e ELSE @])
        BY <3>3 DEF Fail
      <4>2. {<<Depth(t), k>>, Top(t).heard} \subseteq Maybe
        BY <2>1 DEF Frames, Maybe, Errors
      <4> QED BY <3>1, <4>1, <4>2 DEF Frames
    <3> QED BY <1>2, <3>2, <3>3
  <2>3. stack' \in [Threads -> Seq(Frames)] /\ \A u \in Threads : Len(stack'[u]) <= MaxDepth
    BY <2>1, <2>2, BecomesTop DEF TypeOK, Depth
  <2>4. slot' \in [Threads -> Maybe]
    <3>1. CASE Resolve(t) \/ Skip(t)
      BY <3>1 DEF Resolve, Skip, TypeOK
    <3>2. CASE Fail(t)
      <4>1. PICK k \in Top(t).todo :
              \E e \in {<<Depth(t), k>>, Top(t).heard} \ {NoError} :
                slot' = [slot EXCEPT ![t] = IF @ = NoError THEN e ELSE @]
        BY <3>2 DEF Fail
      <4>2. {<<Depth(t), k>>, Top(t).heard} \subseteq Maybe
        BY <2>1 DEF Frames, Maybe, Errors
      <4> QED BY <4>1, <4>2 DEF TypeOK
    <3> QED BY <1>2, <3>1, <3>2
  <2>5. last' \in [first : Maybe, raised : Maybe] /\ finalizing' \in BOOLEAN
    BY <1>2 DEF Resolve, Skip, Fail, NoneLeft, NoBuild, TypeOK, Maybe
  <2> QED BY <2>3, <2>4, <2>5 DEF TypeOK, Depth
<1>3. ASSUME NEW t \in Threads,
             Abort(t) \/ Hand(t) \/ LookUp(t) \/ Refuse(t) \/ Unwind(t) \/ Finish(t)
      PROVE  TypeOK'
  <2>1. Depth(t) > 0 /\ Top(t) \in Frames /\ Depth(t) \in 1 .. MaxDepth
    BY <1>3, TopType
    DEF Abort, Hand, LookUp, Refuse, Unwind, Finish, Built, Building, Waiting
  <2>2. PICK e \in Maybe : Returns(t, e)
    <3>1. <<Depth(t), Verb>> \in Maybe /\ NoError \in Maybe /\ slot[t] \in Maybe
      BY <2>1 DEF Maybe, Errors, TypeOK
    <3>2. CASE Abort(t)
      BY <3>1, <3>2 DEF Abort
    <3>3. CASE Hand(t)
      BY <3>1, <3>3 DEF Hand
    <3>4. CASE LookUp(t) \/ Finish(t)
      BY <3>1, <3>4 DEF LookUp, Finish
    <3>5. CASE Refuse(t) \/ Unwind(t)
      BY <3>1, <3>5 DEF Refuse, Unwind
    <3> QED BY <1>3, <3>2, <3>3, <3>4, <3>5
  <2>3. stack' \in [Threads -> Seq(Frames)] /\ \A u \in Threads : Len(stack'[u]) <= MaxDepth
    <3>1. /\ stack' \in [Threads -> Seq(Frames)]
          /\ \A u \in Threads : u # t => stack'[u] = stack[u]
          /\ Len(stack'[t]) = Depth(t) - 1
      BY <2>1, <2>2, ReturnsPop
    <3>2. \A u \in Threads : Len(stack[u]) <= MaxDepth
      BY DEF TypeOK, Depth
    <3> QED BY <2>1, <3>1, <3>2, DepthAssumption
  <2>4. slot' \in [Threads -> Maybe]
    <3>1. CASE Finish(t)
      BY <3>1 DEF Finish, TypeOK
    <3>2. CASE ~ Finish(t)
      <4>1. Restore(t)
        BY <1>3, <3>2 DEF Abort, Hand, LookUp, Refuse, Unwind, Built
      <4> QED BY <2>1, <4>1 DEF Restore, TypeOK, Frames
    <3> QED BY <3>1, <3>2
  <2>5. last' \in [first : Maybe, raised : Maybe]
    <3>1. Left(t, slot[t]) \/ Left(t, NoError) \/ NoneLeft
      BY <1>3 DEF Abort, Hand, LookUp, Refuse, Unwind, Finish, Built
    <3>2. Top(t).first \in Maybe /\ slot[t] \in Maybe /\ NoError \in Maybe
      BY <2>1 DEF Frames, TypeOK, Maybe
    <3> QED BY <3>1, <3>2 DEF Left, NoneLeft, NoBuild
  <2>6. finalizing' \in BOOLEAN
    BY <1>3 DEF Abort, Hand, LookUp, Refuse, Unwind, Finish, Built, TypeOK
  <2> QED BY <2>3, <2>4, <2>5, <2>6 DEF TypeOK, Depth
<1>4. ASSUME NEW t \in Threads, Launch(t) PROVE TypeOK'
  <2> DEFINE f == [Top(t) EXCEPT !.phase = "run", !.outer = NoError, !.heard = NoError]
  <2>1. Depth(t) > 0 /\ Top(t) \in Frames /\ Depth(t) \in 1 .. MaxDepth
    BY <1>4, TopType DEF Launch, Built, Building
  <2>2. f \in Frames /\ Becomes(t, f)
    BY <1>4, <2>1 DEF Launch, Frames, Maybe
  <2> HIDE DEF f
  <2>3. stack' \in [Threads -> Seq(Frames)] /\ \A u \in Threads : Len(stack'[u]) <= MaxDepth
    BY <2>1, <2>2, BecomesTop DEF TypeOK, Depth
  <2>4. /\ slot' \in [Threads -> Maybe] /\ last' \in [first : Maybe, raised : Maybe]
        /\ finalizing' \in BOOLEAN
    BY <1>4, <2>1 DEF Launch, Built, Restore, Left, TypeOK, Frames, Maybe
  <2> QED BY <2>3, <2>4 DEF TypeOK, Depth
<1>5. CASE Finalize \/ UNCHANGED vars
  <2>1. /\ UNCHANGED <<slot, stack>> /\ finalizing' \in BOOLEAN
        /\ last' \in [first : Maybe, raised : Maybe]
    <3>1. CASE Finalize
      BY <3>1 DEF Finalize, NoneLeft, NoBuild, TypeOK, Maybe
    <3>2. CASE UNCHANGED vars
      BY <3>2 DEF TypeOK, vars
    <3> QED BY <1>5, <3>1, <3>2
  <2> QED BY <2>1 DEF TypeOK, Depth
<1> QED BY <1>1, <1>2, <1>3, <1>4, <1>5 DEF Next

\* Every variable keeps its type, and no thread nests deeper than the bound.
THEOREM TypeCorrect == Spec => []TypeOK
<1>1. Init => TypeOK
  <2> SUFFICES ASSUME Init PROVE TypeOK
    OBVIOUS
  <2>1. <<>> \in Seq(Frames) /\ Len(<<>>) = 0
    BY EmptySeq
  <2>2. \A t \in Threads : stack[t] = <<>>
    BY DEF Init
  <2>3. stack \in [Threads -> Seq(Frames)]
    BY <2>1 DEF Init
  <2>4. \A t \in Threads : Depth(t) <= MaxDepth
    BY <2>1, <2>2, DepthAssumption DEF Depth
  <2> QED BY <2>3, <2>4 DEF Init, TypeOK, NoBuild, Maybe
<1> QED BY <1>1, TypeStep, PTL DEF Spec

-----------------------------------------------------------------------------
(* The slot.                                                               *)

\* A step leaves every thread's slot with what its innermost build is to raise.
LEMMA InvStep ==
  ASSUME TypeOK, IInv, [Next]_vars
  PROVE  IInv'
<1> SUFFICES ASSUME NEW u \in Threads, last'.raised = last'.first
             PROVE  Bracketed(stack[u], slot[u])'
  <2> SUFFICES last'.raised = last'.first
    BY DEF IInv
  <2>1. ASSUME NEW t \in Threads, Abort(t) \/ Built(t)
        PROVE  slot[t] = Top(t).first
    <3>1. /\ stack[t] \in Seq(Frames) /\ Len(stack[t]) > 0
          /\ stack[t][Len(stack[t])].phase = "build" /\ Bracketed(stack[t], slot[t])
      BY <2>1 DEF Abort, Built, Building, Top, Depth, TypeOK, IInv
    <3> QED BY <3>1, TopHolds DEF Top, Depth
  <2>2. ASSUME NEW t \in Threads, Abort(t) \/ Built(t)
        PROVE  last'.raised = last'.first
    BY <2>1, <2>2 DEF Abort, Built, Left
  <2>3. CASE NoneLeft
    BY <2>3 DEF NoneLeft, NoBuild
  <2>4. CASE UNCHANGED vars
    BY <2>4 DEF IInv, vars
  <2> QED
    BY <2>2, <2>3, <2>4
    DEF Next, Begin, Resolve, Fail, Skip, Hand, LookUp, Launch, Refuse, Unwind, Finish, Finalize
<1>0. stack[u] \in Seq(Frames) /\ Bracketed(stack[u], slot[u])
  BY DEF TypeOK, IInv
<1>1. ASSUME NEW t \in Threads, NEW variables \in SUBSET Keys, Begin(t, variables)
      PROVE  Bracketed(stack[u], slot[u])'
  <2> DEFINE f == [phase |-> "build", todo |-> variables,
                   outer |-> slot[t], first |-> NoError, heard |-> NoError]
  <2>1. /\ f \in Frames /\ f.phase = "build" /\ f.first = NoError /\ f.outer = slot[t]
    BY DEF TypeOK, Frames, Maybe
  <2>2. /\ stack' = [stack EXCEPT ![t] = Append(stack[t], f)]
        /\ slot' = [slot EXCEPT ![t] = NoError]
    BY <1>1 DEF Begin
  <2> HIDE DEF f
  <2>3. CASE u = t
    BY <1>0, <2>1, <2>2, <2>3, Push DEF TypeOK
  <2>4. CASE u # t
    BY <1>0, <2>2, <2>4
  <2> QED BY <2>3, <2>4
<1>2. ASSUME NEW t \in Threads, Resolve(t) \/ Skip(t) \/ Fail(t)
      PROVE  Bracketed(stack[u], slot[u])'
  <2> DEFINE s == stack[t]
  <2>1. /\ Depth(t) > 0 /\ Len(s) > 0 /\ Top(t) = s[Len(s)]
        /\ Top(t) \in Frames /\ Top(t).phase = "build" /\ Depth(t) \in 1 .. MaxDepth
    BY <1>2, TopType DEF Resolve, Skip, Fail, Calling, Building, Top, Depth
  <2>2. slot[t] = Top(t).first /\ s \in Seq(Frames) /\ Bracketed(s, slot[t])
    BY <2>1, TopHolds DEF TypeOK, IInv
  <2>3. PICK f \in Frames : /\ Becomes(t, f) /\ f.phase = "build" /\ f.outer = Top(t).outer
                            /\ slot' = [slot EXCEPT ![t] = f.first]
    <3>1. ASSUME NEW k \in Top(t).todo
          PROVE  /\ Called(t, k) \in Frames /\ Called(t, k).phase = "build"
                 /\ Called(t, k).outer = Top(t).outer /\ Called(t, k).first = Top(t).first
      BY <2>1 DEF Called, Frames, Maybe
    <3>2. CASE Resolve(t) \/ Skip(t)
      <4>1. slot' = [slot EXCEPT ![t] = slot[t]]
        BY <3>2 DEF Resolve, Skip, TypeOK
      <4> QED BY <2>2, <3>1, <3>2, <4>1 DEF Resolve, Skip
    <3>3. CASE Fail(t)
      <4>1. PICK k \in Top(t).todo :
              \E e \in {<<Depth(t), k>>, Top(t).heard} \ {NoError} :
                /\ Becomes(t, [Called(t, k) EXCEPT !.first = IF @ = NoError THEN e ELSE @])
                /\ slot' = [slot EXCEPT ![t] = IF @ = NoError THEN e ELSE @]
        BY <3>3 DEF Fail
      <4>2. PICK e \in {<<Depth(t), k>>, Top(t).heard} :
                /\ Becomes(t, [Called(t, k) EXCEPT !.first = IF @ = NoError THEN e ELSE @])
                /\ slot' = [slot EXCEPT ![t] = IF @ = NoError THEN e ELSE @]
        BY <4>1
      <4> DEFINE g == [Called(t, k) EXCEPT !.first = IF @ = NoError THEN e ELSE @]
      <4>3. e \in Maybe
        BY <2>1 DEF Frames, Maybe, Errors
      <4>4. /\ g \in Frames /\ g.phase = "build" /\ g.outer = Top(t).outer
            /\ g.first = IF Top(t).first = NoError THEN e ELSE Top(t).first
        BY <3>1, <4>3 DEF Frames
      <4>5. slot' = [slot EXCEPT ![t] = g.first]
        BY <2>2, <4>2, <4>4 DEF TypeOK
      <4> QED BY <4>2, <4>4, <4>5
    <3> QED BY <1>2, <3>2, <3>3
  <2>4. /\ stack'[t] = [s EXCEPT ![Len(s)] = f]
        /\ \A v \in Threads : v # t => stack'[v] = stack[v]
    BY <2>1, <2>3, BecomesTop
  <2>5. CASE u = t
    <3>1. Bracketed([s EXCEPT ![Len(s)] = f], f.first)
      BY <2>1, <2>2, <2>3, GoesOn
    <3> QED BY <2>3, <2>4, <2>5, <3>1 DEF TypeOK
  <2>6. CASE u # t
    BY <1>0, <2>3, <2>4, <2>6 DEF TypeOK
  <2> QED BY <2>5, <2>6
<1>3. ASSUME NEW t \in Threads,
             Abort(t) \/ Hand(t) \/ LookUp(t) \/ Refuse(t) \/ Unwind(t) \/ Finish(t)
      PROVE  Bracketed(stack[u], slot[u])'
  <2> DEFINE s == stack[t]
             held == IF s[Len(s)].phase = "build" THEN s[Len(s)].outer ELSE slot[t]
  <2>1. /\ Depth(t) > 0 /\ Len(s) > 0 /\ Top(t) = s[Len(s)] /\ Depth(t) = Len(s)
        /\ Top(t) \in Frames /\ Depth(t) \in 1 .. MaxDepth
    BY <1>3, TopType
    DEF Abort, Hand, LookUp, Refuse, Unwind, Finish, Built, Building, Waiting, Top, Depth
  <2>2. PICK e \in Maybe : Returns(t, e)
    <3>1. <<Depth(t), Verb>> \in Maybe /\ NoError \in Maybe /\ slot[t] \in Maybe
      BY <2>1 DEF Maybe, Errors, TypeOK
    <3>2. CASE Abort(t)
      BY <3>1, <3>2 DEF Abort
    <3>3. CASE Hand(t)
      BY <3>1, <3>3 DEF Hand
    <3>4. CASE LookUp(t) \/ Finish(t)
      BY <3>1, <3>4 DEF LookUp, Finish
    <3>5. CASE Refuse(t) \/ Unwind(t)
      BY <3>1, <3>5 DEF Refuse, Unwind
    <3> QED BY <1>3, <3>2, <3>3, <3>4, <3>5
  <2>3. slot' = [slot EXCEPT ![t] = held]
    <3>1. CASE Finish(t)
      <4>1. held = slot[t]
        BY <2>1, <3>1 DEF Finish, Waiting
      <4> QED BY <3>1, <4>1 DEF Finish, TypeOK
    <3>2. CASE ~ Finish(t)
      <4>1. Building(t) /\ Restore(t)
        BY <1>3, <3>2 DEF Abort, Hand, LookUp, Refuse, Unwind, Built
      <4> QED BY <2>1, <4>1 DEF Restore, Building
    <3> QED BY <3>1, <3>2
  <2> HIDE DEF held
  <2>4. /\ stack' \in [Threads -> Seq(Frames)]
        /\ \A v \in Threads : v # t => stack'[v] = stack[v]
        /\ Len(stack'[t]) = Len(s) - 1
        /\ \A i \in 1 .. Len(s) - 1 : /\ stack'[t][i].phase = s[i].phase
                                       /\ stack'[t][i].first = s[i].first
                                       /\ stack'[t][i].outer = s[i].outer
    BY <2>1, <2>2, ReturnsPop
  <2>5. CASE u = t
    <3>1. Bracketed(stack'[t], held)
      <4>1. stack'[t] \in Seq(Frames) /\ s \in Seq(Frames) /\ Bracketed(s, slot[t])
        BY <2>4 DEF TypeOK, IInv
      <4> QED BY <2>1, <2>4, <4>1, Pop DEF held
    <3> QED BY <2>3, <2>5, <3>1 DEF TypeOK
  <2>6. CASE u # t
    BY <1>0, <2>3, <2>4, <2>6 DEF TypeOK
  <2> QED BY <2>5, <2>6
<1>4. ASSUME NEW t \in Threads, Launch(t)
      PROVE  Bracketed(stack[u], slot[u])'
  <2> DEFINE s == stack[t]
             f == [Top(t) EXCEPT !.phase = "run", !.outer = NoError, !.heard = NoError]
  <2>1. /\ Depth(t) > 0 /\ Len(s) > 0 /\ Top(t) = s[Len(s)] /\ Top(t) \in Frames
        /\ Top(t).phase = "build" /\ slot[t] = NoError
    BY <1>4, TopType DEF Launch, Built, Building, Top, Depth
  <2>2. slot[t] = Top(t).first /\ s \in Seq(Frames) /\ Bracketed(s, slot[t])
    BY <2>1, TopHolds DEF TypeOK, IInv
  <2>3. f \in Frames /\ f.phase = "run" /\ f.first = NoError
    BY <2>1, <2>2 DEF Frames, Maybe
  <2>4. Becomes(t, f) /\ slot' = [slot EXCEPT ![t] = s[Len(s)].outer]
    BY <1>4, <2>1 DEF Launch, Built, Restore
  <2> HIDE DEF f
  <2>5. /\ stack'[t] = [s EXCEPT ![Len(s)] = f]
        /\ \A v \in Threads : v # t => stack'[v] = stack[v]
    BY <2>1, <2>3, <2>4, BecomesTop
  <2>6. CASE u = t
    <3>1. Bracketed([s EXCEPT ![Len(s)] = f], s[Len(s)].outer)
      BY <2>1, <2>2, <2>3, RunsOn
    <3> QED BY <2>4, <2>5, <2>6, <3>1 DEF TypeOK
  <2>7. CASE u # t
    BY <1>0, <2>4, <2>5, <2>7 DEF TypeOK
  <2> QED BY <2>6, <2>7
<1>5. CASE Finalize \/ UNCHANGED vars
  BY <1>0, <1>5 DEF Finalize, vars
<1> QED BY <1>1, <1>2, <1>3, <1>4, <1>5 DEF Next

\* The slot of a thread holds the first failure of its innermost build, and a
\* build that is left raises just that.
THEOREM Inductive == Spec => []IInv
<1>1. Init => IInv
  <2> SUFFICES ASSUME Init PROVE IInv
    OBVIOUS
  <2>1. \A t \in Threads : stack[t] = <<>> /\ slot[t] = NoError
    BY DEF Init
  <2>2. Bracketed(<<>>, NoError)
    BY EmptySeq DEF Bracketed, Innermost
  <2> QED BY <2>1, <2>2 DEF Init, IInv, NoBuild
<1>2. TypeOK /\ IInv /\ [Next]_vars => IInv'
  BY InvStep
<1> QED BY <1>1, <1>2, TypeCorrect, PTL DEF Spec

-----------------------------------------------------------------------------
(* What follows from it.                                                   *)

\* No build with a failed resolver goes on, and none that runs had one.
THEOREM FailClosedHolds == Spec => []FailClosed
<1>1. IInv => FailClosed
  BY DEF IInv, FailClosed, Bracketed, Depth
<1> QED BY <1>1, Inductive, PTL

\* A build raises what the first of its own resolvers to fail raised.
THEOREM RaisesItsOwnHolds == Spec => []RaisesItsOwn
<1>1. IInv => RaisesItsOwn
  BY DEF IInv, RaisesItsOwn
<1> QED BY <1>1, Inductive, PTL

\* On a thread that is in no build the slot is empty.
THEOREM EmptyBetweenHolds == Spec => []EmptyBetween
<1>1. IInv => EmptyBetween
  BY DEF IInv, EmptyBetween, Bracketed, Innermost, Depth
<1> QED BY <1>1, Inductive, PTL

=============================================================================
