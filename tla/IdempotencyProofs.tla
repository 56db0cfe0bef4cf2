-------------------------- MODULE IdempotencyProofs --------------------------
(***************************************************************************)
(* Theorems about Idempotency, for any number of keys, requests, crashes   *)
(* and failing inserts.                                                    *)
(***************************************************************************)
EXTENDS Idempotency, FiniteSetTheorems, TLAPS

-----------------------------------------------------------------------------
(* Type correctness *)

LEMMA InitType == Init => TypeOK
  BY DEF Init, TypeOK, AnswerSet, Steps

LEMMA NextType == TypeOK /\ [Next]_vars => TypeOK'
<1> SUFFICES ASSUME TypeOK, [Next]_vars PROVE TypeOK'
  OBVIOUS
<1> USE DEF TypeOK, Goto
<1>1. ASSUME NEW k \in Keys, Expire(k) PROVE TypeOK'
  BY <1>1 DEF Expire, served, faults
<1>2. ASSUME NEW r \in Requests, Send(r) PROVE TypeOK'
  BY <1>2 DEF Send, faults, Steps
<1>3. ASSUME NEW r \in Requests, Lookup(r) PROVE TypeOK'
  BY <1>3 DEF Lookup, faults, Steps
<1>4. ASSUME NEW r \in Requests, Handle(r) PROVE TypeOK'
  <2>1. /\ AnswerOf("ok", r) \in AnswerSet
        /\ AnswerOf("error", r) \in AnswerSet
    BY DEF AnswerSet
  <2>2. reply' \in [Requests -> AnswerSet]
    BY <1>4, <2>1 DEF Handle
  <2>3. effects' \in [Keys -> Nat]
    BY <1>4 DEF Handle
  <2> QED BY <1>4, <2>2, <2>3 DEF Handle, faults, Steps
<1>5. ASSUME NEW r \in Requests, Save(r) PROVE TypeOK'
  BY <1>5 DEF Save, faults, Steps
<1>6. ASSUME NEW r \in Requests, SaveFails(r) PROVE TypeOK'
  <2>1. AnswerOf("error", r) \in AnswerSet
    BY DEF AnswerSet
  <2> QED BY <1>6, <2>1 DEF SaveFails, Steps
<1>7. ASSUME NEW r \in Requests, Answer(r) PROVE TypeOK'
  BY <1>7 DEF Answer, faults, Steps
<1>8. ASSUME NEW r \in Requests, AnswerLost(r) PROVE TypeOK'
  BY <1>8 DEF AnswerLost, faults, Steps
<1>9. ASSUME NEW r \in Requests, Crash(r) PROVE TypeOK'
  BY <1>9 DEF Crash, Steps
<1>10. CASE UNCHANGED vars
  BY <1>10 DEF vars, served, faults
<1> QED
  BY <1>1, <1>2, <1>3, <1>4, <1>5, <1>6, <1>7, <1>8, <1>9, <1>10 DEF Next

\* Every variable keeps its type in every execution.
THEOREM TypeCorrect == Spec => []TypeOK
  BY InitType, NextType, PTL DEF Spec

-----------------------------------------------------------------------------
(* Counting the requests of a key *)

\* The requests of key k that are at one of the given steps.
AtStep(k, steps) == {r \in Requests : key[r] = k /\ pc[r] \in steps}

Begun(k)    == Cardinality(AtStep(k, {"lookup", "handler"}))
Handling(k) == Cardinality(AtStep(k, {"handler"}))
Saving(k)   == Cardinality(AtStep(k, {"save"}))
Working(k)  == Cardinality(AtStep(k, {"handler", "save"}))
Unsent(k)   == Cardinality(AtStep(k, {"lookup", "handler", "save"}))

Finite(k) == IsFiniteSet(Served(k))

One(b) == IF b THEN 1 ELSE 0

LEMMA PartIsFinite ==
  ASSUME NEW k, Finite(k), NEW steps, steps \subseteq UnderWay
  PROVE  IsFiniteSet(AtStep(k, steps)) /\ Cardinality(AtStep(k, steps)) \in Nat
<1>1. AtStep(k, steps) \subseteq Served(k)
  BY DEF AtStep, Served
<1> QED
  BY <1>1, FS_Subset, FS_CardinalityType DEF Finite

\* A request that takes a step leaves the sets it was in and enters those it comes to.
LEMMA CountOf ==
  ASSUME TypeOK, NEW k, Finite(k), NEW r \in Requests, NEW s, Goto(r, s), key' = key,
         NEW steps, steps \subseteq UnderWay
  PROVE  /\ key[r] # k => Cardinality(AtStep(k, steps)') = Cardinality(AtStep(k, steps))
         /\ key[r] = k => Cardinality(AtStep(k, steps)') =
                            Cardinality(AtStep(k, steps)) - One(pc[r] \in steps) + One(s \in steps)
<1>0. IsFiniteSet(AtStep(k, steps)) /\ Cardinality(AtStep(k, steps)) \in Nat
  BY PartIsFinite
<1>1. \A q \in Requests : pc'[q] = IF q = r THEN s ELSE pc[q]
  BY DEF Goto, TypeOK
<1>2. AtStep(k, steps)' = {q \in Requests : key[q] = k /\ pc'[q] \in steps}
  BY DEF AtStep
<1>3. CASE key[r] # k \/ (pc[r] \in steps <=> s \in steps)
  <2>1. AtStep(k, steps)' = AtStep(k, steps)
    BY <1>1, <1>2, <1>3 DEF AtStep
  <2> QED
    BY <1>0, <1>3, <2>1 DEF One
<1>4. CASE key[r] = k /\ pc[r] \in steps /\ s \notin steps
  <2>1. AtStep(k, steps)' = AtStep(k, steps) \ {r} /\ r \in AtStep(k, steps)
    BY <1>1, <1>2, <1>4 DEF AtStep
  <2>2. Cardinality(AtStep(k, steps) \ {r}) = Cardinality(AtStep(k, steps)) - 1
    BY <1>0, <2>1, FS_RemoveElement
  <2>3. Cardinality(AtStep(k, steps)') = Cardinality(AtStep(k, steps)) - 1
    BY <2>1, <2>2
  <2>4. One(pc[r] \in steps) = 1 /\ One(s \in steps) = 0
    BY <1>4 DEF One
  <2> QED
    BY <1>0, <1>4, <2>3, <2>4
<1>5. CASE key[r] = k /\ pc[r] \notin steps /\ s \in steps
  <2>1. AtStep(k, steps)' = AtStep(k, steps) \cup {r} /\ r \notin AtStep(k, steps)
    BY <1>1, <1>2, <1>5 DEF AtStep
  <2>2. Cardinality(AtStep(k, steps) \cup {r}) = Cardinality(AtStep(k, steps)) + 1
    BY <1>0, <2>1, FS_AddElement
  <2>3. Cardinality(AtStep(k, steps)') = Cardinality(AtStep(k, steps)) + 1
    BY <2>1, <2>2
  <2>4. One(pc[r] \in steps) = 0 /\ One(s \in steps) = 1
    BY <1>5 DEF One
  <2> QED
    BY <1>0, <1>5, <2>3, <2>4
<1> QED
  BY <1>3, <1>4, <1>5

LEMMA FiniteNext ==
  ASSUME TypeOK, NEW k, Finite(k), NEW r \in Requests, NEW s, Goto(r, s), key' = key
  PROVE  Finite(k)'
<1>1. \A q \in Requests : pc'[q] = IF q = r THEN s ELSE pc[q]
  BY DEF Goto, TypeOK
<1>2. Served(k)' \subseteq Served(k) \cup {r}
  BY <1>1 DEF Served
<1> QED
  BY <1>2, FS_AddElement, FS_Subset DEF Finite

Counts(k) == /\ Begun(k) \in Nat /\ Handling(k) \in Nat /\ Saving(k) \in Nat
             /\ Working(k) \in Nat /\ Unsent(k) \in Nat
             /\ Handling(k) <= Begun(k) /\ Working(k) <= Unsent(k)

LEMMA CountsHold == ASSUME NEW k, Finite(k) PROVE Counts(k)
<1>1. /\ {"handler"} \subseteq UnderWay /\ {"save"} \subseteq UnderWay
      /\ {"lookup", "handler"} \subseteq UnderWay /\ {"handler", "save"} \subseteq UnderWay
      /\ {"lookup", "handler", "save"} \subseteq UnderWay
  BY DEF UnderWay
<1>2. AtStep(k, {"handler"}) \subseteq AtStep(k, {"lookup", "handler"})
  BY DEF AtStep
<1>3. Handling(k) <= Begun(k)
  BY <1>1, <1>2, PartIsFinite, FS_Subset DEF Handling, Begun
<1>4. AtStep(k, {"handler", "save"}) \subseteq AtStep(k, {"lookup", "handler", "save"})
  BY DEF AtStep
<1>5. Working(k) <= Unsent(k)
  BY <1>1, <1>4, PartIsFinite, FS_Subset DEF Working, Unsent
<1> QED
  BY <1>1, <1>3, <1>5, PartIsFinite DEF Counts, Begun, Handling, Saving, Working, Unsent

\* What a step of a request does to the five counts of its own key.
LEMMA StepCounts ==
  ASSUME TypeOK, NEW k, Finite(k), NEW r \in Requests, NEW s, Goto(r, s), key' = key
  PROVE  /\ Finite(k)' /\ Counts(k) /\ Counts(k)'
         /\ key[r] # k =>
              /\ Begun(k)' = Begun(k) /\ Handling(k)' = Handling(k) /\ Saving(k)' = Saving(k)
              /\ Working(k)' = Working(k) /\ Unsent(k)' = Unsent(k)
         /\ key[r] = k =>
              /\ Begun(k)' = Begun(k) - One(pc[r] \in {"lookup", "handler"})
                               + One(s \in {"lookup", "handler"})
              /\ Handling(k)' = Handling(k) - One(pc[r] \in {"handler"}) + One(s \in {"handler"})
              /\ Saving(k)' = Saving(k) - One(pc[r] \in {"save"}) + One(s \in {"save"})
              /\ Working(k)' = Working(k) - One(pc[r] \in {"handler", "save"})
                                 + One(s \in {"handler", "save"})
              /\ Unsent(k)' = Unsent(k) - One(pc[r] \in {"lookup", "handler", "save"})
                                + One(s \in {"lookup", "handler", "save"})
<1>1. /\ {"handler"} \subseteq UnderWay /\ {"save"} \subseteq UnderWay
      /\ {"lookup", "handler"} \subseteq UnderWay /\ {"handler", "save"} \subseteq UnderWay
      /\ {"lookup", "handler", "save"} \subseteq UnderWay
  BY DEF UnderWay
<1>2. Finite(k)'
  BY FiniteNext
<1>3. Counts(k)'
  BY <1>2, CountsHold, PTL
<1>4. Counts(k)
  BY CountsHold
<1>5. \A steps \in {{"handler"}, {"save"}, {"lookup", "handler"}, {"handler", "save"},
                    {"lookup", "handler", "save"}} :
        /\ key[r] # k => Cardinality(AtStep(k, steps)') = Cardinality(AtStep(k, steps))
        /\ key[r] = k => Cardinality(AtStep(k, steps)') =
                           Cardinality(AtStep(k, steps)) - One(pc[r] \in steps) + One(s \in steps)
  BY <1>1, CountOf
<1> QED
  BY <1>2, <1>3, <1>4, <1>5 DEF Begun, Handling, Saving, Working, Unsent

-----------------------------------------------------------------------------
(* Executions *)

LEMMA AnswerIsSome ==
  ASSUME NEW kind \in {"ok", "error"}, NEW r PROVE AnswerOf(kind, r) # NoAnswer
  BY DEF AnswerOf, NoAnswer

\* A reply about to be recorded is an answer, and so is one about to be sent.
Replies == \A r \in Requests : pc[r] \in {"save", "send"} => reply[r] # NoAnswer

LEMMA RepliesNext == ASSUME TypeOK, Replies, [Next]_vars PROVE Replies'
<1> USE DEF Replies, TypeOK, Goto
<1>1. ASSUME NEW k \in Keys, Expire(k) PROVE Replies'
  BY <1>1 DEF Expire, served
<1>2. ASSUME NEW r \in Requests, Send(r) PROVE Replies'
  BY <1>2 DEF Send
<1>3. ASSUME NEW r \in Requests, Lookup(r) PROVE Replies'
  BY <1>3 DEF Lookup
<1>4. ASSUME NEW r \in Requests, Handle(r) PROVE Replies'
  BY <1>4, AnswerIsSome DEF Handle
<1>5. ASSUME NEW r \in Requests, Save(r) PROVE Replies'
  BY <1>5 DEF Save
<1>6. ASSUME NEW r \in Requests, SaveFails(r) PROVE Replies'
  BY <1>6, AnswerIsSome DEF SaveFails
<1>7. ASSUME NEW r \in Requests, Answer(r) \/ AnswerLost(r) \/ Crash(r) PROVE Replies'
  BY <1>7 DEF Answer, AnswerLost, Crash
<1>8. CASE UNCHANGED vars
  BY <1>8 DEF vars, served
<1> QED
  BY <1>1, <1>2, <1>3, <1>4, <1>5, <1>6, <1>7, <1>8 DEF Next

\* Until a row exists, every execution went unrecorded or is about to be recorded,
\* and the requests that may still execute the operation are covered by the overlaps;
\* once it exists, only those already in the handler may.
Executed(k) ==
  /\ stored[k] = NoAnswer => /\ effects[k] <= unrecorded[k] + Saving(k)
                             /\ effects[k] + Begun(k) <= 1 + unrecorded[k] + overlaps[k]
  /\ stored[k] # NoAnswer => effects[k] + Handling(k) <= 1 + unrecorded[k] + overlaps[k]

EInv == TypeOK /\ Replies /\ \A k \in Keys : Finite(k) /\ Executed(k)

LEMMA ExecutionsInit == Init => EInv
<1> SUFFICES ASSUME Init PROVE EInv
  OBVIOUS
<1>1. TypeOK /\ Replies
  BY InitType DEF Init, Replies
<1>2. ASSUME NEW k \in Keys PROVE Finite(k) /\ Executed(k)
  <2>1. Served(k) = {} /\ AtStep(k, {"save"}) = {} /\ AtStep(k, {"lookup", "handler"}) = {}
    BY DEF Init, Served, AtStep, UnderWay
  <2>2. Saving(k) = 0 /\ Begun(k) = 0 /\ Finite(k)
    BY <2>1, FS_EmptySet DEF Saving, Begun, Finite
  <2> QED
    BY <2>2 DEF Init, Executed
<1> QED
  BY <1>1, <1>2 DEF EInv

\* A request sent while no other with its key is served finds nothing begun and
\* nothing about to be recorded.
LEMMA NoneServed ==
  ASSUME NEW k, Served(k) = {}
  PROVE  Begun(k) = 0 /\ Handling(k) = 0 /\ Saving(k) = 0 /\ Working(k) = 0 /\ Unsent(k) = 0
<1>1. /\ AtStep(k, {"lookup", "handler"}) = {} /\ AtStep(k, {"handler"}) = {}
      /\ AtStep(k, {"save"}) = {} /\ AtStep(k, {"handler", "save"}) = {}
      /\ AtStep(k, {"lookup", "handler", "save"}) = {}
  BY DEF AtStep, Served, UnderWay
<1> QED
  BY <1>1, FS_EmptySet DEF Begun, Handling, Saving, Working, Unsent

LEMMA ExecutedNext ==
  ASSUME EInv, [Next]_vars, NEW k \in Keys
  PROVE  Finite(k)' /\ Executed(k)'
<1>0. /\ TypeOK /\ TypeOK' /\ Replies /\ Finite(k) /\ Executed(k)
      /\ effects[k] \in Nat /\ unrecorded[k] \in Nat /\ overlaps[k] \in Nat
  BY NextType DEF EInv, TypeOK
<1>1. ASSUME UNCHANGED <<stored, pc, key, effects, unrecorded, overlaps>>
      PROVE  Finite(k)' /\ Executed(k)'
  <2>1. /\ Served(k)' = Served(k) /\ Saving(k)' = Saving(k)
        /\ Begun(k)' = Begun(k) /\ Handling(k)' = Handling(k)
    BY <1>1 DEF Served, Saving, Begun, Handling, AtStep
  <2> QED
    BY <1>0, <1>1, <2>1 DEF Finite, Executed
<1>2. ASSUME NEW r \in Requests, NEW s, Goto(r, s), key' = key, key[r] # k,
             stored'[k] = stored[k], effects'[k] = effects[k], unrecorded'[k] = unrecorded[k],
             overlaps'[k] = overlaps[k]
      PROVE  Finite(k)' /\ Executed(k)'
  BY <1>0, <1>2, StepCounts DEF Executed
<1>3. ASSUME NEW r \in Requests, Send(r) PROVE Finite(k)' /\ Executed(k)'
  <2>1. /\ Goto(r, "lookup") /\ key' = key /\ stored' = stored /\ effects' = effects
        /\ unrecorded' = unrecorded /\ pc[r] = "unsent"
    BY <1>3 DEF Send, faults
  <2>2. CASE key[r] # k
    <3>1. overlaps'[k] = overlaps[k]
      BY <1>0, <1>3, <2>2 DEF Send, TypeOK
    <3> QED
      BY <1>2, <2>1, <2>2, <3>1
  <2>3. CASE key[r] = k
    <3>1. /\ Finite(k)' /\ Counts(k) /\ Begun(k)' = Begun(k) + 1
          /\ Handling(k)' = Handling(k) /\ Saving(k)' = Saving(k)
      BY <1>0, <2>1, <2>3, StepCounts DEF One, Counts
    <3>2. CASE Served(k) = {}
      <4>1. overlaps'[k] = overlaps[k] /\ Begun(k) = 0 /\ Handling(k) = 0 /\ Saving(k) = 0
        BY <1>0, <1>3, <2>3, <3>2, NoneServed DEF Send
      <4> QED
        BY <1>0, <2>1, <3>1, <4>1 DEF Executed
    <3>3. CASE Served(k) # {}
      <4>1. overlaps'[k] = overlaps[k] + 1
        BY <1>0, <1>3, <2>3, <3>3 DEF Send, TypeOK
      <4> QED
        BY <1>0, <2>1, <3>1, <4>1 DEF Executed, Counts
    <3> QED
      BY <3>2, <3>3
  <2> QED
    BY <2>2, <2>3
<1>4. ASSUME NEW r \in Requests, Lookup(r) PROVE Finite(k)' /\ Executed(k)'
  <2> DEFINE s == IF stored[key[r]] = NoAnswer THEN "handler" ELSE "send"
  <2>1. /\ Goto(r, s) /\ key' = key /\ stored' = stored /\ effects' = effects
        /\ unrecorded' = unrecorded /\ overlaps' = overlaps /\ pc[r] = "lookup"
    BY <1>4 DEF Lookup
  <2>2. CASE key[r] # k
    BY <1>2, <2>1, <2>2
  <2>3. CASE key[r] = k
    <3>1. CASE stored[k] = NoAnswer
      <4>1. Goto(r, "handler")
        BY <2>1, <2>3, <3>1
      <4>2. Finite(k)' /\ Counts(k) /\ Begun(k)' = Begun(k) /\ Saving(k)' = Saving(k)
        BY <1>0, <2>1, <2>3, <4>1, StepCounts DEF One, Counts
      <4> QED
        BY <1>0, <2>1, <3>1, <4>2 DEF Executed
    <3>2. CASE stored[k] # NoAnswer
      <4>1. Goto(r, "send")
        BY <2>1, <2>3, <3>2
      <4>2. Finite(k)' /\ Counts(k) /\ Handling(k)' = Handling(k)
        BY <1>0, <2>1, <2>3, <4>1, StepCounts DEF One, Counts
      <4> QED
        BY <1>0, <2>1, <3>2, <4>2 DEF Executed
    <3> QED
      BY <3>1, <3>2
  <2> QED
    BY <2>2, <2>3
<1>5. ASSUME NEW r \in Requests, Handle(r) PROVE Finite(k)' /\ Executed(k)'
  <2>1. /\ Goto(r, "save") /\ key' = key /\ stored' = stored
        /\ unrecorded' = unrecorded /\ overlaps' = overlaps /\ pc[r] = "handler"
    BY <1>5 DEF Handle, faults
  <2>2. CASE key[r] # k
    <3>1. effects'[k] = effects[k]
      BY <1>0, <1>5, <2>2 DEF Handle, TypeOK
    <3> QED
      BY <1>2, <2>1, <2>2, <3>1
  <2>3. CASE key[r] = k
    <3>1. effects'[k] = effects[k] \/ effects'[k] = effects[k] + 1
      BY <1>0, <1>5, <2>3 DEF Handle, TypeOK
    <3>2. /\ Finite(k)' /\ Counts(k) /\ Begun(k)' = Begun(k) - 1
          /\ Handling(k)' = Handling(k) - 1 /\ Saving(k)' = Saving(k) + 1
      BY <1>0, <2>1, <2>3, StepCounts DEF One, Counts
    <3> QED
      BY <1>0, <2>1, <3>1, <3>2 DEF Executed, Counts
  <2> QED
    BY <2>2, <2>3
<1>6. ASSUME NEW r \in Requests, Save(r) \/ SaveFails(r) PROVE Finite(k)' /\ Executed(k)'
  <2>1. /\ Goto(r, "send") /\ key' = key /\ effects' = effects /\ overlaps' = overlaps
        /\ pc[r] = "save"
    BY <1>6 DEF Save, SaveFails, faults
  <2>2. CASE key[r] # k
    <3>1. stored'[k] = stored[k] /\ unrecorded'[k] = unrecorded[k]
      BY <1>0, <1>6, <2>2 DEF Save, SaveFails, TypeOK
    <3> QED
      BY <1>2, <2>1, <2>2, <3>1
  <2>3. CASE key[r] = k
    <3>1. \/ stored'[k] # NoAnswer /\ unrecorded'[k] = unrecorded[k]
          \/ stored'[k] = stored[k] /\ unrecorded'[k] = unrecorded[k] + 1
      BY <1>0, <1>6, <2>3, AnswerIsSome DEF Save, SaveFails, TypeOK, Replies
    <3>2. /\ Finite(k)' /\ Counts(k) /\ Begun(k)' = Begun(k)
          /\ Handling(k)' = Handling(k) /\ Saving(k)' = Saving(k) - 1
      BY <1>0, <2>1, <2>3, StepCounts DEF One, Counts
    <3> QED
      BY <1>0, <2>1, <3>1, <3>2 DEF Executed, Counts
  <2> QED
    BY <2>2, <2>3
<1>7. ASSUME NEW r \in Requests, Answer(r) \/ AnswerLost(r) PROVE Finite(k)' /\ Executed(k)'
  <2>1. /\ Goto(r, "done") /\ key' = key /\ effects' = effects /\ overlaps' = overlaps
        /\ stored' = stored /\ unrecorded' = unrecorded /\ pc[r] = "send"
    BY <1>7 DEF Answer, AnswerLost, faults
  <2>2. CASE key[r] # k
    BY <1>2, <2>1, <2>2
  <2>3. CASE key[r] = k
    <3>1. /\ Finite(k)' /\ Counts(k) /\ Begun(k)' = Begun(k)
          /\ Handling(k)' = Handling(k) /\ Saving(k)' = Saving(k)
      BY <1>0, <2>1, <2>3, StepCounts DEF One, Counts
    <3> QED
      BY <1>0, <2>1, <3>1 DEF Executed
  <2> QED
    BY <2>2, <2>3
<1>8. ASSUME NEW r \in Requests, Crash(r) PROVE Finite(k)' /\ Executed(k)'
  <2>1. /\ Goto(r, "done") /\ key' = key /\ effects' = effects /\ overlaps' = overlaps
        /\ stored' = stored
    BY <1>8 DEF Crash
  <2>2. CASE key[r] # k
    <3>1. unrecorded'[k] = unrecorded[k]
      BY <1>0, <1>8, <2>2 DEF Crash, TypeOK
    <3> QED
      BY <1>2, <2>1, <2>2, <3>1
  <2>3. CASE key[r] = k
    <3>1. unrecorded'[k] = unrecorded[k] + One(pc[r] \in {"save"})
      BY <1>0, <1>8, <2>3 DEF Crash, TypeOK, One
    <3>2. /\ Finite(k)' /\ Counts(k) /\ Begun(k)' <= Begun(k) /\ Begun(k)' \in Nat
          /\ Handling(k)' <= Handling(k) /\ Handling(k)' \in Nat
          /\ Saving(k)' = Saving(k) - One(pc[r] \in {"save"})
      BY <1>0, <2>1, <2>3, StepCounts DEF One, Counts
    <3> QED
      BY <1>0, <2>1, <3>1, <3>2 DEF Executed, Counts, One
  <2> QED
    BY <2>2, <2>3
<1>9. CASE \E j \in Keys : Expire(j)
  BY <1>1, <1>9 DEF Expire, served
<1>10. CASE UNCHANGED vars
  BY <1>1, <1>10 DEF vars, served
<1> QED
  BY <1>3, <1>4, <1>5, <1>6, <1>7, <1>8, <1>9, <1>10 DEF Next

LEMMA ExecutionsNext == EInv /\ [Next]_vars => EInv'
  BY NextType, RepliesNext, ExecutedNext DEF EInv

\* Whatever requests overlap, fail or are cut off, an operation is executed at most
\* once more than there are executions nobody recorded and overlapping requests.
THEOREM ExecutionsAreAccounted == Spec => []ExecutionsAccounted
<1>1. EInv => ExecutionsAccounted
  <2> SUFFICES ASSUME EInv, NEW k \in Keys
               PROVE  effects[k] <= 1 + unrecorded[k] + overlaps[k]
    BY DEF ExecutionsAccounted
  <2>1. /\ Executed(k) /\ Counts(k)
        /\ effects[k] \in Nat /\ unrecorded[k] \in Nat /\ overlaps[k] \in Nat
    BY CountsHold DEF EInv, TypeOK
  <2> QED
    BY <2>1 DEF Executed, Counts
<1> QED
  BY <1>1, ExecutionsInit, ExecutionsNext, PTL DEF Spec

-----------------------------------------------------------------------------
(* Answers *)

\* The answers to key k that were received or are on their way, and those that no row
\* accounts for.
Offered(k) ==
  {a \in AnswerSet :
     a \in told[k] \/ \E r \in Requests : key[r] = k /\ pc[r] = "send" /\ reply[r] = a}
Loose(k) == Offered(k) \ {stored[k]}

\* Every loose answer was a loss or an overlap, and what losses and overlaps are left
\* covers the requests that may still add one.
Agreed(k) ==
  /\ NoAnswer \notin Offered(k) /\ IsFiniteSet(Loose(k))
  /\ stored[k] = NoAnswer =>
       /\ Cardinality(Loose(k)) <= unrecorded[k]
       /\ Cardinality(Loose(k)) + Unsent(k) <= 1 + unrecorded[k] + overlaps[k]
  /\ stored[k] # NoAnswer =>
       Cardinality(Loose(k)) + Working(k) <= unrecorded[k] + overlaps[k]

AInv == EInv /\ \A k \in Keys : Agreed(k)

LEMMA AgreedInit == Init => AInv
<1> SUFFICES ASSUME Init PROVE AInv
  OBVIOUS
<1>1. ASSUME NEW k \in Keys PROVE Agreed(k)
  <2>1. Offered(k) = {} /\ Served(k) = {}
    BY DEF Init, Offered, Served, UnderWay
  <2>2. Loose(k) = {}
    BY <2>1 DEF Loose
  <2>3. Unsent(k) = 0
    BY <2>1, NoneServed
  <2> QED
    BY <2>1, <2>2, <2>3, FS_EmptySet DEF Agreed, Init
<1> QED
  BY <1>1, ExecutionsInit DEF AInv

\* What a step does to the loose answers of a key: none more, or the request's own.
LEMMA NoMoreLoose ==
  ASSUME NEW k, IsFiniteSet(Loose(k)), Loose(k)' \subseteq Loose(k)
  PROVE  /\ IsFiniteSet(Loose(k)') /\ Cardinality(Loose(k)') <= Cardinality(Loose(k))
         /\ Cardinality(Loose(k)') \in Nat /\ Cardinality(Loose(k)) \in Nat
BY FS_Subset, FS_CardinalityType

LEMMA OneMoreLoose ==
  ASSUME NEW k, IsFiniteSet(Loose(k)), NEW a, Loose(k)' \subseteq Loose(k) \cup {a}
  PROVE  /\ IsFiniteSet(Loose(k)') /\ Cardinality(Loose(k)') <= Cardinality(Loose(k)) + 1
         /\ Cardinality(Loose(k)') \in Nat /\ Cardinality(Loose(k)) \in Nat
<1>1. /\ IsFiniteSet(Loose(k) \cup {a})
      /\ Cardinality(Loose(k) \cup {a}) = Cardinality(Loose(k))
         \/ Cardinality(Loose(k) \cup {a}) = Cardinality(Loose(k)) + 1
  BY FS_AddElement
<1>2. IsFiniteSet(Loose(k)') /\ Cardinality(Loose(k)') <= Cardinality(Loose(k) \cup {a})
  BY <1>1, FS_Subset
<1>3. Cardinality(Loose(k)') \in Nat /\ Cardinality(Loose(k)) \in Nat
  BY <1>2, FS_CardinalityType
<1> QED
  BY <1>1, <1>2, <1>3

\* A request that goes on without being at "send" afterwards offers nothing new.
LEMMA OffersNoMore ==
  ASSUME TypeOK, NEW r \in Requests, NEW k \in Keys, key' = key,
         \A q \in Requests \ {r} : pc'[q] = pc[q] /\ reply'[q] = reply[q],
         pc'[r] # "send",
         told'[k] \subseteq told[k] \cup {a \in AnswerSet : key[r] = k /\ pc[r] = "send" /\ reply[r] = a}
  PROVE  Offered(k)' \subseteq Offered(k)
BY DEF Offered

\* One that comes to "send" offers its reply.
LEMMA OffersReply ==
  ASSUME TypeOK, NEW r \in Requests, NEW k \in Keys, key' = key, told' = told,
         \A q \in Requests \ {r} : pc'[q] = pc[q] /\ reply'[q] = reply[q]
  PROVE  /\ key[r] # k => Offered(k)' \subseteq Offered(k)
         /\ Offered(k)' \subseteq Offered(k) \cup {reply'[r]}
BY DEF Offered

LEMMA AgreedNext ==
  ASSUME AInv, [Next]_vars, NEW k \in Keys
  PROVE  Agreed(k)'
<1>0. /\ TypeOK /\ TypeOK' /\ Replies /\ Finite(k) /\ Agreed(k) /\ k \in Keys
      /\ unrecorded[k] \in Nat /\ overlaps[k] \in Nat
      /\ IsFiniteSet(Loose(k)) /\ NoAnswer \notin Offered(k) /\ Counts(k)
  BY NextType, CountsHold DEF AInv, EInv, TypeOK, Agreed
<1>1. ASSUME UNCHANGED <<stored, pc, key, reply, told, unrecorded, overlaps>> PROVE Agreed(k)'
  <2>1. Offered(k)' = Offered(k) /\ Loose(k)' = Loose(k)
        /\ Unsent(k)' = Unsent(k) /\ Working(k)' = Working(k)
    BY <1>1 DEF Offered, Loose, Unsent, Working, AtStep
  <2> QED
    BY <1>0, <1>1, <2>1 DEF Agreed
<1>2. ASSUME NEW r \in Requests, NEW s, Goto(r, s), key' = key, key[r] # k,
             stored'[k] = stored[k], unrecorded'[k] = unrecorded[k], overlaps'[k] = overlaps[k],
             Offered(k)' \subseteq Offered(k)
      PROVE  Agreed(k)'
  <2>1. Unsent(k)' = Unsent(k) /\ Working(k)' = Working(k) /\ Counts(k)
    BY <1>0, <1>2, StepCounts
  <2>2. /\ IsFiniteSet(Loose(k)') /\ Cardinality(Loose(k)') <= Cardinality(Loose(k))
        /\ Cardinality(Loose(k)') \in Nat /\ Cardinality(Loose(k)) \in Nat
    BY <1>0, <1>2, NoMoreLoose DEF Loose
  <2> QED
    BY <1>0, <1>2, <2>1, <2>2 DEF Agreed, Counts
<1>3. ASSUME NEW r \in Requests, Send(r) PROVE Agreed(k)'
  <2>1. /\ Goto(r, "lookup") /\ key' = key /\ told' = told /\ stored' = stored
        /\ unrecorded' = unrecorded /\ reply' = reply /\ pc[r] = "unsent"
        /\ pc'[r] # "send" /\ \A q \in Requests \ {r} : pc'[q] = pc[q]
    BY <1>0, <1>3 DEF Send, Goto, TypeOK, faults
  <2>2. Offered(k)' \subseteq Offered(k)
    BY <1>0, <2>1, OffersNoMore
  <2>3. CASE key[r] # k
    <3>1. overlaps'[k] = overlaps[k]
      BY <1>0, <1>3, <2>3 DEF Send, TypeOK
    <3> QED
      BY <1>2, <2>1, <2>2, <2>3, <3>1
  <2>4. CASE key[r] = k
    <3>1. Unsent(k)' = Unsent(k) + 1 /\ Working(k)' = Working(k)
      BY <1>0, <2>1, <2>4, StepCounts DEF One, Counts
    <3>2. /\ IsFiniteSet(Loose(k)') /\ Cardinality(Loose(k)') <= Cardinality(Loose(k))
          /\ Cardinality(Loose(k)') \in Nat /\ Cardinality(Loose(k)) \in Nat
      BY <1>0, <2>1, <2>2, NoMoreLoose DEF Loose
    <3>3. NoAnswer \notin Offered(k)'
      BY <1>0, <2>2
    <3>4. CASE Served(k) = {}
      <4>1. overlaps'[k] = overlaps[k] /\ Unsent(k) = 0 /\ Working(k) = 0
        BY <1>0, <1>3, <2>4, <3>4, NoneServed DEF Send
      <4> QED
        BY <1>0, <2>1, <3>1, <3>2, <3>3, <4>1 DEF Agreed
    <3>5. CASE Served(k) # {}
      <4>1. overlaps'[k] = overlaps[k] + 1
        BY <1>0, <1>3, <2>4, <3>5 DEF Send, TypeOK
      <4> QED
        BY <1>0, <2>1, <3>1, <3>2, <3>3, <4>1 DEF Agreed, Counts
    <3> QED
      BY <3>4, <3>5
  <2> QED
    BY <2>3, <2>4
<1>4. ASSUME NEW r \in Requests, Handle(r) PROVE Agreed(k)'
  <2>1. /\ Goto(r, "save") /\ key' = key /\ told' = told /\ stored' = stored
        /\ unrecorded' = unrecorded /\ overlaps' = overlaps /\ pc[r] = "handler"
        /\ pc'[r] # "send" /\ \A q \in Requests \ {r} : pc'[q] = pc[q] /\ reply'[q] = reply[q]
    BY <1>0, <1>4 DEF Handle, Goto, TypeOK, faults
  <2>2. Offered(k)' \subseteq Offered(k)
    BY <1>0, <2>1, OffersNoMore
  <2>3. CASE key[r] # k
    BY <1>2, <2>1, <2>2, <2>3
  <2>4. CASE key[r] = k
    <3>1. Unsent(k)' = Unsent(k) /\ Working(k)' = Working(k)
      BY <1>0, <2>1, <2>4, StepCounts DEF One, Counts
    <3>2. /\ IsFiniteSet(Loose(k)') /\ Cardinality(Loose(k)') <= Cardinality(Loose(k))
          /\ Cardinality(Loose(k)') \in Nat /\ Cardinality(Loose(k)) \in Nat
      BY <1>0, <2>1, <2>2, NoMoreLoose DEF Loose
    <3> QED
      BY <1>0, <2>1, <2>2, <3>1, <3>2 DEF Agreed, Counts
  <2> QED
    BY <2>3, <2>4
<1>5. ASSUME NEW r \in Requests, Answer(r) \/ AnswerLost(r) \/ Crash(r) PROVE Agreed(k)'
  <2>1. /\ Goto(r, "done") /\ key' = key /\ stored' = stored /\ overlaps' = overlaps
        /\ reply' = reply /\ pc'[r] # "send" /\ \A q \in Requests \ {r} : pc'[q] = pc[q]
    BY <1>0, <1>5 DEF Answer, AnswerLost, Crash, Goto, TypeOK
  <2>2. told'[k] \subseteq told[k] \cup {a \in AnswerSet : key[r] = k /\ pc[r] = "send" /\ reply[r] = a}
    BY <1>0, <1>5 DEF Answer, AnswerLost, Crash, TypeOK
  <2>3. Offered(k)' \subseteq Offered(k)
    BY <1>0, <2>1, <2>2, OffersNoMore
  <2>4. CASE key[r] # k
    <3>1. unrecorded'[k] = unrecorded[k]
      BY <1>0, <1>5, <2>4 DEF Answer, AnswerLost, Crash, TypeOK, faults
    <3> QED
      BY <1>2, <2>1, <2>3, <2>4, <3>1
  <2>5. CASE key[r] = k
    <3>1. /\ Unsent(k)' <= Unsent(k) /\ Unsent(k)' \in Nat
          /\ Working(k)' <= Working(k) /\ Working(k)' \in Nat
      BY <1>0, <2>1, <2>5, StepCounts DEF One, Counts
    <3>2. /\ IsFiniteSet(Loose(k)') /\ Cardinality(Loose(k)') <= Cardinality(Loose(k))
          /\ Cardinality(Loose(k)') \in Nat /\ Cardinality(Loose(k)) \in Nat
      BY <1>0, <2>1, <2>3, NoMoreLoose DEF Loose
    <3>3. unrecorded'[k] \in Nat /\ unrecorded'[k] >= unrecorded[k]
      BY <1>0, <1>5 DEF Answer, AnswerLost, Crash, TypeOK, faults
    <3> QED
      BY <1>0, <2>1, <2>3, <3>1, <3>2, <3>3 DEF Agreed, Counts
  <2> QED
    BY <2>4, <2>5
<1>6. ASSUME NEW r \in Requests, Lookup(r) PROVE Agreed(k)'
  <2>1. /\ key' = key /\ told' = told /\ stored' = stored /\ unrecorded' = unrecorded
        /\ overlaps' = overlaps /\ pc[r] = "lookup" /\ reply'[r] = stored[key[r]]
        /\ \A q \in Requests \ {r} : pc'[q] = pc[q] /\ reply'[q] = reply[q]
    BY <1>0, <1>6 DEF Lookup, Goto, TypeOK
  <2>2. CASE key[r] # k
    <3>1. Offered(k)' \subseteq Offered(k)
      BY <1>0, <2>1, <2>2, OffersReply
    <3>2. \E s : Goto(r, s)
      BY <1>6 DEF Lookup
    <3> QED
      BY <1>2, <2>1, <2>2, <3>1, <3>2
  <2>3. CASE key[r] = k /\ stored[k] = NoAnswer
    <3>1. Goto(r, "handler") /\ pc'[r] # "send"
      BY <1>0, <1>6, <2>3 DEF Lookup, Goto, TypeOK
    <3>2. Offered(k)' \subseteq Offered(k)
      BY <1>0, <2>1, <3>1, OffersNoMore
    <3>3. Unsent(k)' = Unsent(k)
      BY <1>0, <2>1, <2>3, <3>1, StepCounts DEF One, Counts
    <3>4. /\ IsFiniteSet(Loose(k)') /\ Cardinality(Loose(k)') <= Cardinality(Loose(k))
          /\ Cardinality(Loose(k)') \in Nat /\ Cardinality(Loose(k)) \in Nat
      BY <1>0, <2>1, <3>2, NoMoreLoose DEF Loose
    <3> QED
      BY <1>0, <2>1, <2>3, <3>2, <3>3, <3>4 DEF Agreed, Counts
  <2>4. CASE key[r] = k /\ stored[k] # NoAnswer
    <3>1. Goto(r, "send")
      BY <1>0, <1>6, <2>4 DEF Lookup
    <3>2. Offered(k)' \subseteq Offered(k) \cup {stored[k]}
      BY <1>0, <2>1, <2>4, OffersReply
    <3>3. NoAnswer \notin Offered(k)'
      BY <1>0, <2>4, <3>2
    <3>4. Working(k)' = Working(k)
      BY <1>0, <2>1, <2>4, <3>1, StepCounts DEF One, Counts
    <3>5. /\ IsFiniteSet(Loose(k)') /\ Cardinality(Loose(k)') <= Cardinality(Loose(k))
          /\ Cardinality(Loose(k)') \in Nat /\ Cardinality(Loose(k)) \in Nat
      BY <1>0, <2>1, <3>2, NoMoreLoose DEF Loose
    <3> QED
      BY <1>0, <2>1, <2>4, <3>3, <3>4, <3>5 DEF Agreed, Counts
  <2> QED
    BY <2>2, <2>3, <2>4
<1>7. ASSUME NEW r \in Requests, Save(r) \/ SaveFails(r) PROVE Agreed(k)'
  <2>1. /\ Goto(r, "send") /\ key' = key /\ told' = told /\ overlaps' = overlaps /\ pc[r] = "save"
        /\ \A q \in Requests \ {r} : pc'[q] = pc[q] /\ reply'[q] = reply[q]
    BY <1>0, <1>7 DEF Save, SaveFails, Goto, TypeOK, faults
  <2>2. reply'[r] # NoAnswer
    BY <1>0, <1>7, AnswerIsSome DEF Save, SaveFails, Replies, TypeOK
  <2>3. CASE key[r] # k
    <3>1. stored'[k] = stored[k] /\ unrecorded'[k] = unrecorded[k]
      BY <1>0, <1>7, <2>3 DEF Save, SaveFails, TypeOK
    <3>2. Offered(k)' \subseteq Offered(k)
      BY <1>0, <2>1, <2>3, OffersReply
    <3> QED
      BY <1>2, <2>1, <2>3, <3>1, <3>2
  <2>4. CASE key[r] = k
    <3>1. Offered(k)' \subseteq Offered(k) \cup {reply'[r]}
      BY <1>0, <2>1, OffersReply
    <3>2. NoAnswer \notin Offered(k)'
      BY <1>0, <2>2, <3>1
    <3>3. /\ Unsent(k)' = Unsent(k) - 1 /\ Working(k)' = Working(k) - 1
          /\ Unsent(k)' \in Nat /\ Working(k)' \in Nat
      BY <1>0, <2>1, <2>4, StepCounts DEF One, Counts
    <3>4. \/ /\ stored[k] = NoAnswer /\ stored'[k] = reply'[r] /\ unrecorded'[k] = unrecorded[k]
          \/ /\ stored[k] # NoAnswer /\ stored'[k] = stored[k] /\ unrecorded'[k] = unrecorded[k]
          \/ /\ stored'[k] = stored[k] /\ unrecorded'[k] = unrecorded[k] + 1
      BY <1>0, <1>7, <2>4 DEF Save, SaveFails, TypeOK
    <3>5. CASE stored[k] = NoAnswer /\ stored'[k] = reply'[r] /\ unrecorded'[k] = unrecorded[k]
      <4>1. Loose(k)' \subseteq Loose(k)
        BY <1>0, <3>1, <3>5 DEF Loose
      <4>2. /\ IsFiniteSet(Loose(k)') /\ Cardinality(Loose(k)') <= Cardinality(Loose(k))
            /\ Cardinality(Loose(k)') \in Nat /\ Cardinality(Loose(k)) \in Nat
        BY <1>0, <4>1, NoMoreLoose
      <4>3. Working(k)' <= Unsent(k)'
        BY <1>0, <2>1, <2>4, StepCounts DEF Counts
      <4> QED
        BY <1>0, <2>1, <2>2, <3>2, <3>3, <3>5, <4>2, <4>3 DEF Agreed, Counts
    <3>6. CASE stored'[k] = stored[k] /\ unrecorded'[k] = unrecorded[k] /\ stored[k] # NoAnswer
      <4>1. Loose(k)' \subseteq Loose(k) \cup {reply'[r]}
        BY <3>1, <3>6 DEF Loose
      <4>2. /\ IsFiniteSet(Loose(k)') /\ Cardinality(Loose(k)') <= Cardinality(Loose(k)) + 1
            /\ Cardinality(Loose(k)') \in Nat /\ Cardinality(Loose(k)) \in Nat
        BY <1>0, <4>1, OneMoreLoose
      <4> QED
        BY <1>0, <2>1, <3>2, <3>3, <3>6, <4>2 DEF Agreed, Counts
    <3>7. CASE stored'[k] = stored[k] /\ unrecorded'[k] = unrecorded[k] + 1
      <4>1. Loose(k)' \subseteq Loose(k) \cup {reply'[r]}
        BY <3>1, <3>7 DEF Loose
      <4>2. /\ IsFiniteSet(Loose(k)') /\ Cardinality(Loose(k)') <= Cardinality(Loose(k)) + 1
            /\ Cardinality(Loose(k)') \in Nat /\ Cardinality(Loose(k)) \in Nat
        BY <1>0, <4>1, OneMoreLoose
      <4> QED
        BY <1>0, <2>1, <3>2, <3>3, <3>7, <4>2 DEF Agreed, Counts
    <3> QED
      BY <3>4, <3>5, <3>6, <3>7
  <2> QED
    BY <2>3, <2>4
<1>8. CASE \E j \in Keys : Expire(j)
  BY <1>1, <1>8 DEF Expire, served
<1>9. CASE UNCHANGED vars
  BY <1>1, <1>9 DEF vars, served
<1> QED
  BY <1>3, <1>4, <1>5, <1>6, <1>7, <1>8, <1>9 DEF Next

\* Whatever requests overlap, fail or are cut off, a key has at most one outcome more
\* than there are answers nobody recorded and overlapping requests.
THEOREM AnswersDoAgree == Spec => []AnswersAgree
<1>1. AInv /\ [Next]_vars => AInv'
  BY ExecutionsNext, AgreedNext DEF AInv
<1>2. AInv => AnswersAgree
  <2> SUFFICES ASSUME AInv, NEW k \in Keys
               PROVE  Cardinality(told[k]) <= 1 + unrecorded[k] + overlaps[k]
    BY DEF AnswersAgree
  <2>0. /\ Agreed(k) /\ Counts(k) /\ told[k] \subseteq Loose(k) \cup {stored[k]}
        /\ unrecorded[k] \in Nat /\ overlaps[k] \in Nat
        /\ NoAnswer \notin told[k]
    BY CountsHold DEF AInv, EInv, TypeOK, Loose, Offered, Agreed
  <2>1. IsFiniteSet(Loose(k)) /\ Cardinality(Loose(k)) \in Nat
    BY <2>0, FS_CardinalityType DEF Agreed
  <2>2. /\ IsFiniteSet(Loose(k) \cup {stored[k]})
        /\ Cardinality(Loose(k) \cup {stored[k]}) = Cardinality(Loose(k))
           \/ Cardinality(Loose(k) \cup {stored[k]}) = Cardinality(Loose(k)) + 1
    BY <2>1, FS_AddElement
  <2>3. IsFiniteSet(told[k]) /\ Cardinality(told[k]) <= Cardinality(Loose(k) \cup {stored[k]})
    BY <2>0, <2>2, FS_Subset
  <2>4. Cardinality(told[k]) \in Nat
    BY <2>3, FS_CardinalityType
  <2>5. Cardinality(Loose(k)) <= unrecorded[k] + overlaps[k]
    BY <2>0, <2>1 DEF Agreed, Counts
  <2> QED
    BY <2>0, <2>1, <2>2, <2>3, <2>4, <2>5
<1> QED
  BY <1>1, <1>2, AgreedInit, PTL DEF Spec
=============================================================================
