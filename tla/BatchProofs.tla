----------------------------- MODULE BatchProofs -----------------------------
(***************************************************************************)
(* Theorems about Batch, for any calls and builders and any size.          *)
(***************************************************************************)
EXTENDS Batch, TLAPS

(***************************************************************************)
(* The inductive invariant, in two parts that do not need each other.      *)
(*                                                                         *)
(* Kept: one builder at a time has the runner out of its slot, what it     *)
(* holds meanwhile is what the slot held, and no rule is added while a     *)
(* call has a clone.                                                       *)
(*                                                                         *)
(* Paired, of one call: what a command's predicate raised is in one place, *)
(* and that place says whose it is: in the command's sink while it is      *)
(* under way, in the cell while the item received is the command's, and    *)
(* then in the command's slot.                                             *)
(***************************************************************************)
Ok == {b \in Builders : builder[b] = "ok"}

Kept ==
  /\ \A a, b \in Builders : builder[a] = "swapped" /\ builder[b] = "swapped" => a = b
  /\ IF Unlocked THEN rules = Ok ELSE original = Ok
  /\ \A c \in Calls : call[c] \in {"lazy", "running"} => clone[c] = Ok

Own(c, i) == IF <<c, i>> \in raised THEN <<c, i>> ELSE NoError

Placed(c, i) ==
  /\ command[c][i] = "queued" => <<c, i>> \notin raised /\ sink[c][i] = NoError
  /\ command[c][i] = "live" => sink[c][i] = Own(c, i)
  /\ command[c][i] = "over" => sink[c][i] = NoError
  /\ command[c][i] = "over" /\ call[c] # "abandoned" /\ yielded[c] # i => slot[c][i] = Own(c, i)

Paired(c) ==
  /\ call[c] = "idle" => size[c] = 0
  /\ call[c] = "ended" => \A i \in 1 .. size[c] : command[c][i] = "over"
  /\ yielded[c] = 0 => completed[c] = NoError
  /\ yielded[c] # 0 => /\ call[c] = "running"
                       /\ command[c][yielded[c]] = "over"
                       /\ completed[c] = Own(c, yielded[c])
  /\ \A i \in Commands : Placed(c, i)

AllPaired == \A c \in Calls : Paired(c)

USE DEF runnerVars, shape, runVars

-----------------------------------------------------------------------------
(* Types.                                                                  *)

\* A step keeps the types.
LEMMA TypeStep ==
  ASSUME TypeOK, [Next]_vars
  PROVE  TypeOK'
<1> USE SizeAssumption
<1> USE DEF TypeOK, Errors, Commands
<1>1. ASSUME NEW b \in Builders, Swap(b) \/ Configure(b) \/ RefuseBuilder(b) PROVE TypeOK'
  BY <1>1 DEF Swap, Configure, RefuseBuilder
<1>2. ASSUME NEW c \in Calls, BeginVerb(c) PROVE TypeOK'
  BY <1>2 DEF BeginVerb, Opens
<1>3. ASSUME NEW c \in Calls, BeginBatch(c) PROVE TypeOK'
  <2>1. PICK n \in 0 .. Size, w \in Commands : Opens(c, "batch", n, w)
    BY <1>3 DEF BeginBatch
  <2> QED BY <2>1, SMTT(20) DEF Opens
<1>4. ASSUME NEW c \in Calls, RefuseConcurrency(c) \/ Await(c) \/ Return(c) PROVE TypeOK'
  BY <1>4 DEF RefuseConcurrency, Await, Return
<1>5. ASSUME NEW c \in Calls, Answer(c) PROVE TypeOK'
  <2>1. 1 \in Commands
    OBVIOUS
  <2> QED BY <1>5, <2>1, SMTT(20) DEF Answer
<1>6. ASSUME NEW c \in Calls, Store(c) PROVE TypeOK'
  <2>1. yielded[c] \in Commands
    BY <1>6 DEF Store
  <2> QED BY <1>6, <2>1, SMTT(20) DEF Store
<1>7. ASSUME NEW c \in Calls, Abandon(c) PROVE TypeOK'
  BY <1>7, SMTT(20) DEF Abandon
<1>8. ASSUME NEW c \in Calls, NEW i \in Commands, Start(c, i) PROVE TypeOK'
  <2>1. <<c, i>> \in Errors
    OBVIOUS
  <2>2. sink' \in [Calls -> [Commands -> Errors \union {NoError}]]
    <3>1. sink[c] \in [Commands -> Errors \union {NoError}]
      OBVIOUS
    <3>2. [sink[c] EXCEPT ![i] = IF @ = NoError THEN <<c, i>> ELSE @]
            \in [Commands -> Errors \union {NoError}]
      <4> HIDE DEF Errors, Commands, TypeOK
      <4> QED BY <2>1, <3>1
    <3> HIDE DEF Errors, Commands
    <3> QED BY <1>8, <3>2 DEF Start, Stash, ActiveSink
  <2>3. raised' \in SUBSET Errors
    BY <1>8, <2>1 DEF Start
  <2> QED BY <1>8, <2>2, <2>3 DEF Start
<1>9. ASSUME NEW c \in Calls, NEW i \in Commands, Resolve(c, i) PROVE TypeOK'
  <2> HIDE DEF Errors, Commands
  <2>1. i \in 0 .. Size
    BY DEF Commands
  <2>2. completed' \in [Calls -> Errors \union {NoError}]
    BY <1>9 DEF Resolve
  <2>3. /\ sink' \in [Calls -> [Commands -> Errors \union {NoError}]]
        /\ command' \in [Calls -> [Commands -> {"queued", "live", "over"}]]
    BY <1>9 DEF Resolve
  <2> QED BY <1>9, <2>1, <2>2, <2>3 DEF Resolve
<1>10. CASE UNCHANGED vars
  BY <1>10 DEF vars
<1> QED BY <1>1, <1>2, <1>3, <1>4, <1>5, <1>6, <1>7, <1>8, <1>9, <1>10 DEF Next

\* Every variable keeps its type.
THEOREM TypeCorrect == Spec => []TypeOK
<1>1. Init => TypeOK
  BY SizeAssumption DEF Init, TypeOK, Commands, Errors
<1> QED BY <1>1, TypeStep, PTL DEF Spec

-----------------------------------------------------------------------------
(* The runner and its rules.                                               *)

\* No builder or call disturbs the rules.
LEMMA KeptStep ==
  ASSUME TypeOK, Kept, [Next]_vars
  PROVE  Kept'
<1> USE DEF TypeOK, Kept, Ok, Unlocked
<1>1. ASSUME NEW b \in Builders, Swap(b) PROVE Kept'
  BY <1>1 DEF Swap
<1>2. ASSUME NEW b \in Builders, Configure(b) PROVE Kept'
  BY <1>2 DEF Configure, Holders
<1>3. ASSUME NEW b \in Builders, RefuseBuilder(b) PROVE Kept'
  BY <1>3 DEF RefuseBuilder
<1>4. ASSUME NEW c \in Calls, BeginVerb(c) \/ BeginBatch(c) PROVE Kept'
  <2>1. /\ Unlocked /\ UNCHANGED runnerVars
        /\ clone' = [clone EXCEPT ![c] = rules]
        /\ \A d \in Calls : d # c => call'[d] = call[d]
    BY <1>4 DEF BeginVerb, BeginBatch, Opens
  <2> QED BY <2>1
<1>5. ASSUME NEW c \in Calls, RefuseConcurrency(c) \/ Await(c) \/ Return(c) \/ Abandon(c)
      PROVE  Kept'
  <2>1. /\ UNCHANGED <<runnerVars, clone>>
        /\ \A d \in Calls : call'[d] \in {"lazy", "running"} => call[d] \in {"lazy", "running"}
    BY <1>5 DEF RefuseConcurrency, Await, Return, Driven, Abandon
  <2> QED BY <2>1
<1>6. ASSUME NEW c \in Calls, NEW i \in Commands,
             Answer(c) \/ Store(c) \/ Start(c, i) \/ Resolve(c, i)
      PROVE  Kept'
  <2>1. UNCHANGED <<runnerVars, clone, call>>
    BY <1>6 DEF Answer, Store, Start, Resolve
  <2> QED BY <2>1
<1>7. CASE UNCHANGED vars
  BY <1>7 DEF vars
<1>8. 1 \in Commands
  BY SizeAssumption DEF Commands
<1> QED BY <1>1, <1>2, <1>3, <1>4, <1>5, <1>6, <1>7, <1>8 DEF Next

\* At most one builder has the runner out, what it took is what there was, and
\* every call runs under the rules there are.
THEOREM KeptHolds == Spec => []Kept
<1>1. Init => Kept
  BY DEF Init, Kept, Ok, Unlocked
<1>2. TypeOK /\ Kept /\ [Next]_vars => Kept'
  BY KeptStep
<1> QED BY <1>1, <1>2, TypeCorrect, PTL DEF Spec

\* A refused builder leaves no trace, one that returned has its rule.
THEOREM RulesKeptHolds == Spec => []RulesKept
<1>1. Kept => RulesKept
  BY DEF Kept, RulesKept, Ok
<1> QED BY <1>1, KeptHolds, PTL

\* A call never runs under a builder's empty runner, nor under rules that change.
THEOREM CallSeesRulesHolds == Spec => []CallSeesRules
<1>1. Kept => CallSeesRules
  BY DEF Kept, CallSeesRules, Holders, Ok
<1> QED BY <1>1, KeptHolds, PTL

-----------------------------------------------------------------------------
(* The pairing of errors and commands.                                     *)

\* A step that leaves alone what a call has leaves it paired.
LEMMA Untouched ==
  ASSUME TypeOK, NEW d \in Calls, Paired(d),
         call'[d] = call[d], size'[d] = size[d], command'[d] = command[d],
         sink'[d] = sink[d], completed'[d] = completed[d], yielded'[d] = yielded[d],
         slot'[d] = slot[d],
         \A i \in Commands : <<d, i>> \in raised' <=> <<d, i>> \in raised
  PROVE  Paired(d)'
<1>1. yielded[d] # 0 => yielded[d] \in Commands
  BY DEF TypeOK, Commands
<1>2. \A i \in Commands : Own(d, i)' = Own(d, i)
  BY DEF Own
<1>3. \A i \in Commands : Placed(d, i)'
  BY <1>2 DEF Paired, Placed
<1> QED BY <1>1, <1>2, <1>3 DEF Paired

\* A command's predicate raises, or not, into the command's sink.
LEMMA StartStep ==
  ASSUME TypeOK, AllPaired, NEW c \in Calls, NEW i \in Commands, Start(c, i)
  PROVE  AllPaired'
<1> USE DEF TypeOK
<1>1. /\ UNCHANGED <<call, size, completed, yielded, slot>>
      /\ command[c][i] = "queued" /\ call[c] = "running" /\ yielded[c] = 0
      /\ \A d \in Calls, j \in Commands :
           command'[d][j] = IF d = c /\ j = i THEN "live" ELSE command[d][j]
  BY DEF Start, Driven
<1>2. sink[c][i] = NoError /\ <<c, i>> \notin raised
  BY <1>1 DEF AllPaired, Paired, Placed
<1>3. /\ \A d \in Calls, j \in Commands : <<d, j>> # <<c, i>> =>
           (<<d, j>> \in raised' <=> <<d, j>> \in raised) /\ sink'[d][j] = sink[d][j]
      /\ sink'[c][i] = Own(c, i)'
  <2>1. CASE raised' = raised \union {<<c, i>>} /\ Stash(c, i)
    BY <1>2, <2>1 DEF Stash, ActiveSink, Own
  <2>2. CASE UNCHANGED <<raised, sink>>
    BY <1>2, <2>2 DEF Own
  <2> QED BY <2>1, <2>2 DEF Start
<1>4. ASSUME NEW d \in Calls, d # c PROVE Paired(d)'
  <2>1. command'[d] = command[d] /\ sink'[d] = sink[d]
    BY <1>4 DEF Start, Stash, ActiveSink
  <2> QED BY <1>1, <1>3, <1>4, <2>1, Untouched DEF AllPaired
<1>5. ASSUME NEW j \in Commands PROVE Placed(c, j)'
  <2>1. Placed(c, j)
    BY DEF AllPaired, Paired
  <2> QED BY <1>1, <1>3, <2>1 DEF Placed, Own
<1>6. Paired(c)'
  BY <1>1, <1>5 DEF AllPaired, Paired
<1> QED BY <1>4, <1>6 DEF AllPaired

\* A verb's error is its caller's.
LEMMA AnswerStep ==
  ASSUME TypeOK, AllPaired, NEW c \in Calls, Answer(c)
  PROVE  AllPaired'
<1> USE DEF TypeOK
<1>0. 1 \in Commands
  BY SizeAssumption DEF Commands
<1>1. /\ UNCHANGED <<call, size, completed, yielded, raised>>
      /\ command[c][1] = "live" /\ call[c] = "running" /\ yielded[c] = 0
      /\ \A d \in Calls, j \in Commands :
           /\ command'[d][j] = IF d = c /\ j = 1 THEN "over" ELSE command[d][j]
           /\ slot'[d][j] = IF d = c /\ j = 1 THEN sink[c][1] ELSE slot[d][j]
           /\ sink'[d][j] = IF d = c /\ j = 1 THEN NoError ELSE sink[d][j]
  BY <1>0 DEF Answer, Driven, Live
<1>4. ASSUME NEW d \in Calls, d # c PROVE Paired(d)'
  <2>1. command'[d] = command[d] /\ sink'[d] = sink[d] /\ slot'[d] = slot[d]
    BY <1>4 DEF Answer
  <2> QED BY <1>1, <1>4, <2>1, Untouched DEF AllPaired
<1>5. ASSUME NEW j \in Commands PROVE Placed(c, j)'
  <2>1. Placed(c, j) /\ Own(c, j)' = Own(c, j)
    BY <1>1 DEF AllPaired, Paired, Own
  <2>2. CASE j = 1
    BY <1>1, <2>1, <2>2 DEF Placed
  <2>3. CASE j # 1
    BY <1>1, <2>1, <2>3 DEF Placed
  <2> QED BY <2>2, <2>3
<1>6. Paired(c)'
  BY <1>1, <1>5 DEF AllPaired, Paired
<1> QED BY <1>4, <1>6 DEF AllPaired

\* A command's error goes into the cell, and its item to the batch.
LEMMA ResolveStep ==
  ASSUME TypeOK, AllPaired, NEW c \in Calls, NEW i \in Commands, Resolve(c, i)
  PROVE  AllPaired'
<1> USE DEF TypeOK
<1>1. /\ UNCHANGED <<call, size, slot, raised>>
      /\ command[c][i] = "live" /\ call[c] = "running" /\ yielded[c] = 0
      /\ yielded'[c] = i /\ completed'[c] = IF sink[c][i] # NoError THEN sink[c][i] ELSE completed[c]
      /\ \A d \in Calls, j \in Commands :
           /\ command'[d][j] = IF d = c /\ j = i THEN "over" ELSE command[d][j]
           /\ sink'[d][j] = IF d = c /\ j = i THEN NoError ELSE sink[d][j]
  BY DEF Resolve, Driven, Live
<1>2. completed'[c] = Own(c, i)' /\ i # 0
  <2>0. Placed(c, i) /\ Paired(c)
    BY DEF AllPaired, Paired
  <2>1. completed[c] = NoError /\ sink[c][i] = Own(c, i)
    <3> HIDE DEF TypeOK
    <3> QED BY <1>1, <2>0 DEF Paired, Placed
  <2>2. Own(c, i)' = Own(c, i)
    BY <1>1 DEF Own
  <2> QED BY <1>1, <2>1, <2>2 DEF Commands
<1>4. ASSUME NEW d \in Calls, d # c PROVE Paired(d)'
  <2>1. /\ command'[d] = command[d] /\ sink'[d] = sink[d]
        /\ yielded'[d] = yielded[d] /\ completed'[d] = completed[d]
    BY <1>4 DEF Resolve
  <2> QED BY <1>1, <1>4, <2>1, Untouched DEF AllPaired
<1>5. ASSUME NEW j \in Commands PROVE Placed(c, j)'
  <2>1. Placed(c, j) /\ j # 0
    BY DEF AllPaired, Paired, Commands
  <2> QED BY <1>1, <2>1 DEF Placed, Own
<1>6. Paired(c)'
  BY <1>1, <1>2, <1>5 DEF AllPaired, Paired
<1> QED BY <1>4, <1>6 DEF AllPaired

\* What the cell holds goes into the slot of the item received.
LEMMA StoreStep ==
  ASSUME TypeOK, AllPaired, NEW c \in Calls, Store(c)
  PROVE  AllPaired'
<1> USE DEF TypeOK
<1>0. yielded[c] \in Commands
  BY DEF Store, Commands
<1>1. /\ UNCHANGED <<call, size, command, sink, raised>>
      /\ yielded[c] # 0 /\ yielded'[c] = 0 /\ completed'[c] = NoError
      /\ \A j \in Commands : slot'[c][j] = IF j = yielded[c] THEN completed[c] ELSE slot[c][j]
  BY <1>0 DEF Store
<1>4. ASSUME NEW d \in Calls, d # c PROVE Paired(d)'
  <2>1. /\ slot'[d] = slot[d] /\ yielded'[d] = yielded[d] /\ completed'[d] = completed[d]
    BY <1>4 DEF Store
  <2> QED BY <1>1, <1>4, <2>1, Untouched DEF AllPaired
<1>5. ASSUME NEW j \in Commands PROVE Placed(c, j)'
  <2>1. Placed(c, j) /\ completed[c] = Own(c, yielded[c])
    BY <1>1 DEF AllPaired, Paired
  <2> QED BY <1>1, <2>1 DEF Placed, Own
<1>6. Paired(c)'
  BY <1>1, <1>5 DEF AllPaired, Paired
<1> QED BY <1>4, <1>6 DEF AllPaired

\* An abandoned call has nothing left anywhere.
LEMMA AbandonStep ==
  ASSUME TypeOK, AllPaired, NEW c \in Calls, Abandon(c)
  PROVE  AllPaired'
<1> USE DEF TypeOK
<1>1. /\ UNCHANGED size
      /\ call'[c] = "abandoned" /\ yielded'[c] = 0 /\ completed'[c] = NoError
      /\ \A j \in Commands : command'[c][j] = "over" /\ sink'[c][j] = NoError
  BY DEF Abandon
<1>4. ASSUME NEW d \in Calls, d # c PROVE Paired(d)'
  <2>1. /\ command'[d] = command[d] /\ sink'[d] = sink[d] /\ call'[d] = call[d]
        /\ slot'[d] = slot[d] /\ yielded'[d] = yielded[d] /\ completed'[d] = completed[d]
    BY <1>4 DEF Abandon
  <2>2. \A i \in Commands : <<d, i>> \in raised' <=> <<d, i>> \in raised
    BY <1>4 DEF Abandon
  <2> QED BY <1>1, <1>4, <2>1, <2>2, Untouched DEF AllPaired
<1>5. Paired(c)'
  BY <1>1 DEF Paired, Placed
<1> QED BY <1>4, <1>5 DEF AllPaired

\* A call begins, is refused, is awaited or returns.
LEMMA CallStep ==
  ASSUME TypeOK, AllPaired, NEW c \in Calls,
         BeginVerb(c) \/ BeginBatch(c) \/ RefuseConcurrency(c) \/ Await(c) \/ Return(c)
  PROVE  AllPaired'
<1> USE DEF TypeOK
<1>1. /\ UNCHANGED runVars
      /\ call'[c] \in {"lazy", "running", "ended"} /\ call[c] \notin {"ended", "abandoned"}
      /\ \A d \in Calls : d # c => call'[d] = call[d] /\ size'[d] = size[d]
      /\ yielded[c] # 0 => call'[c] = "running"
      /\ call'[c] = "ended" =>
           size'[c] = size[c] /\ \/ size[c] = 0
                                 \/ \A i \in 1 .. size[c] : command[c][i] = "over"
  <2>1. Paired(c)
    BY DEF AllPaired
  <2>2. CASE BeginVerb(c) \/ BeginBatch(c)
    BY <2>1, <2>2 DEF BeginVerb, BeginBatch, Opens, Paired
  <2>3. CASE RefuseConcurrency(c)
    BY <2>1, <2>3 DEF RefuseConcurrency, Paired
  <2>4. CASE Await(c)
    BY <2>1, <2>4 DEF Await, Paired
  <2>5. CASE Return(c)
    BY <2>1, <2>5 DEF Return, Driven, Paired
  <2> QED BY <2>2, <2>3, <2>4, <2>5
<1>2. ASSUME NEW d \in Calls, d # c PROVE Paired(d)'
  BY <1>1, <1>2, Untouched DEF AllPaired
<1>3. ASSUME NEW j \in Commands PROVE Placed(c, j)'
  <2>1. Placed(c, j)
    BY DEF AllPaired, Paired
  <2> QED BY <1>1, <2>1 DEF Placed, Own
<1>4. yielded[c] # 0 => completed[c] = Own(c, yielded[c])'
  BY <1>1 DEF AllPaired, Paired, Own
<1>5. Paired(c)'
  BY <1>1, <1>3, <1>4 DEF AllPaired, Paired
<1> QED BY <1>2, <1>5 DEF AllPaired

\* What a predicate raised is in one place, and that place says whose it is.
THEOREM AllPairedHolds == Spec => []AllPaired
<1>1. Init => AllPaired
  BY DEF Init, AllPaired, Paired, Placed, Own, Commands
<1>2. ASSUME TypeOK, AllPaired, [Next]_vars PROVE AllPaired'
  <2>1. ASSUME UNCHANGED <<call, shape, runVars>> PROVE AllPaired'
    BY <1>2, <2>1, Untouched DEF AllPaired
  <2>2. ASSUME NEW b \in Builders, Swap(b) \/ Configure(b) \/ RefuseBuilder(b)
        PROVE  AllPaired'
    BY <2>1, <2>2 DEF Swap, Configure, RefuseBuilder
  <2>3. CASE UNCHANGED vars
    BY <2>1, <2>3 DEF vars
  <2> QED BY <1>2, <2>2, <2>3, StartStep, AnswerStep, ResolveStep, StoreStep, AbandonStep,
             CallStep
          DEF Next
<1> QED BY <1>1, <1>2, TypeCorrect, PTL DEF Spec

\* What a call returns for a command is that command's own.
THEOREM EachItsOwnHolds == Spec => []EachItsOwn
<1>1. TypeOK /\ AllPaired => EachItsOwn
  <2> SUFFICES ASSUME TypeOK, AllPaired,
                      NEW c \in Calls, call[c] = "ended", NEW i \in 1 .. size[c]
               PROVE  slot[c][i] = Own(c, i)
    BY DEF EachItsOwn, Own
  <2>1. i \in Commands /\ i # 0
    BY SizeAssumption DEF TypeOK, Commands
  <2>2. Placed(c, i) /\ command[c][i] = "over" /\ yielded[c] = 0
    BY <2>1 DEF AllPaired, Paired
  <2> QED BY <2>1, <2>2 DEF Placed
<1> QED BY <1>1, AllPairedHolds, TypeCorrect, PTL

-----------------------------------------------------------------------------
(* Every result is written once.                                           *)

\* A slot is empty until its command is through and its item is stored.
Vacant ==
  \A c \in Calls, i \in Commands :
    command[c][i] # "over" \/ yielded[c] = i => slot[c][i] = Empty

\* What collect_in_input_order or a verb has put into a command's slot is never
\* overwritten by another command's: it stands until the call that holds it is
\* abandoned.
ResultsStand ==
  [][\A c \in Calls, i \in Commands :
       slot[c][i] # Empty => slot'[c][i] = slot[c][i] \/ call'[c] = "abandoned"]_vars

\* What a step does to the slots, of a command, and of the item received.
LEMMA VacantStep ==
  ASSUME TypeOK, AllPaired, Vacant, [Next]_vars
  PROVE  /\ Vacant'
         /\ \A c \in Calls, i \in Commands :
              slot[c][i] # Empty => slot'[c][i] = slot[c][i] \/ call'[c] = "abandoned"
<1> DEFINE Stands(c, i) ==
      slot[c][i] # Empty => slot'[c][i] = slot[c][i] \/ call'[c] = "abandoned"
           Vacates(c, i) ==
      command'[c][i] # "over" \/ yielded'[c] = i => slot'[c][i] = Empty
<1> SUFFICES ASSUME NEW c \in Calls, NEW i \in Commands
             PROVE  Vacates(c, i) /\ Stands(c, i)
  BY DEF Vacant
<1> USE DEF TypeOK
<1>0. i # 0 /\ 1 \in Commands
  BY SizeAssumption DEF Commands
<1>1. ASSUME UNCHANGED <<command, yielded, slot>> PROVE Vacates(c, i) /\ Stands(c, i)
  BY <1>1 DEF Vacant
<1>2. ASSUME NEW d \in Calls, NEW j \in Commands, Start(d, j)
      PROVE  Vacates(c, i) /\ Stands(c, i)
  <2>1. UNCHANGED <<yielded, slot>> /\ command[d][j] = "queued"
    BY <1>2 DEF Start
  <2>2. command'[c][i] # "over" => command[c][i] # "over"
    BY <1>2, <2>1 DEF Start
  <2> QED BY <2>1, <2>2 DEF Vacant
<1>3. ASSUME NEW d \in Calls, Answer(d) PROVE Vacates(c, i) /\ Stands(c, i)
  <2>1. /\ command[d][1] = "live" /\ yielded[d] = 0 /\ UNCHANGED yielded
        /\ command'[c][i] = IF c = d /\ i = 1 THEN "over" ELSE command[c][i]
        /\ slot'[c][i] = IF c = d /\ i = 1 THEN sink[c][1] ELSE slot[c][i]
    BY <1>0, <1>3 DEF Answer, Driven, Live
  <2> QED BY <1>0, <2>1 DEF Vacant
<1>4. ASSUME NEW d \in Calls, NEW j \in Commands, Resolve(d, j)
      PROVE  Vacates(c, i) /\ Stands(c, i)
  <2>1. /\ command[d][j] = "live" /\ yielded[d] = 0 /\ UNCHANGED slot
        /\ command'[c][i] = IF c = d /\ i = j THEN "over" ELSE command[c][i]
        /\ yielded'[c] = IF c = d THEN j ELSE yielded[c]
    BY <1>4 DEF Resolve, Driven, Live
  <2> QED BY <2>1 DEF Vacant
<1>5. ASSUME NEW d \in Calls, Store(d) PROVE Vacates(c, i) /\ Stands(c, i)
  <2>0. yielded[d] \in Commands
    BY <1>5 DEF Store, Commands
  <2>1. /\ UNCHANGED command
        /\ yielded'[c] = IF c = d THEN 0 ELSE yielded[c]
        /\ slot'[c][i] = IF c = d /\ i = yielded[d] THEN completed[d] ELSE slot[c][i]
    BY <1>5, <2>0 DEF Store
  <2>2. command[d][yielded[d]] = "over"
    BY <1>5 DEF Store, AllPaired, Paired
  <2> QED BY <1>0, <2>0, <2>1, <2>2 DEF Vacant
<1>6. ASSUME NEW d \in Calls, Abandon(d) PROVE Vacates(c, i) /\ Stands(c, i)
  <2>1. CASE c = d
    BY <1>6, <2>1 DEF Abandon
  <2>2. CASE c # d
    <3>1. command'[c] = command[c] /\ yielded'[c] = yielded[c] /\ slot'[c] = slot[c]
      BY <1>6, <2>2 DEF Abandon
    <3> QED BY <3>1 DEF Vacant
  <2> QED BY <2>1, <2>2
<1>7. ASSUME NEW b \in Builders, Swap(b) \/ Configure(b) \/ RefuseBuilder(b)
      PROVE  Vacates(c, i) /\ Stands(c, i)
  <2>1. UNCHANGED <<command, yielded, slot>>
    BY <1>7 DEF Swap, Configure, RefuseBuilder
  <2> QED BY <1>1, <2>1
<1>8. ASSUME NEW d \in Calls,
             BeginVerb(d) \/ BeginBatch(d) \/ RefuseConcurrency(d) \/ Await(d) \/ Return(d)
      PROVE  Vacates(c, i) /\ Stands(c, i)
  <2>1. UNCHANGED <<command, yielded, slot>>
    BY <1>8 DEF BeginVerb, BeginBatch, Opens, RefuseConcurrency, Await, Return
  <2> QED BY <1>1, <2>1
<1>9. ASSUME UNCHANGED vars PROVE Vacates(c, i) /\ Stands(c, i)
  <2>1. UNCHANGED <<command, yielded, slot>>
    BY <1>9 DEF vars
  <2> QED BY <1>1, <2>1
<1> HIDE DEF Vacates, Stands
<1> QED BY <1>2, <1>3, <1>4, <1>5, <1>6, <1>7, <1>8, <1>9 DEF Next

\* No slot is written twice, of a batch of any size, whatever order its commands
\* end in.
THEOREM ResultsStandHolds == Spec => ResultsStand
<1>1. Init => Vacant
  BY DEF Init, Vacant
<1>2. Spec => []Vacant
  <2>1. TypeOK /\ AllPaired /\ Vacant /\ [Next]_vars => Vacant'
    BY VacantStep
  <2> QED BY <1>1, <2>1, AllPairedHolds, TypeCorrect, PTL DEF Spec
<1>3. TypeOK /\ AllPaired /\ Vacant /\ [Next]_vars =>
        [\A c \in Calls, i \in Commands :
           slot[c][i] # Empty => slot'[c][i] = slot[c][i] \/ call'[c] = "abandoned"]_vars
  BY VacantStep
<1> QED BY <1>2, <1>3, AllPairedHolds, TypeCorrect, PTL DEF Spec, ResultsStand

=============================================================================
