--------------------------- MODULE BatchesProofs ---------------------------
(***************************************************************************)
(* Proofs about the batch-multiplexing core (module Batches), for every    *)
(* value of the constants allowed by BoundsAssumption and MsgsAssumption.  *)
(***************************************************************************)
EXTENDS Batches, TLAPS

USE BoundsAssumption, MsgsAssumption

-----------------------------------------------------------------------------
(* Type correctness.                                                       *)

\* A tracker built by from_request is well typed.
LEMMA FromRequestOK ==
  ASSUME NEW m \in Msgs, NEW u \in Users, NEW s \in Serials
  PROVE  TrackerOK(FromRequest(m, u, s))
<1>1. m \in Message /\ Len(m.calls) <= MaxLen
  OBVIOUS
<1>. QED BY <1>1 DEF TrackerOK, FromRequest, Message, Results

LEMMA InitTypeOK == Init => TypeOK
BY DEF Init, TypeOK, Tickets

LEMMA InjectTypeOK ==
  ASSUME TypeOK, NEW m \in Msgs, NEW u \in Users, Inject(m, u)
  PROVE  TypeOK'
<1>1. PICK k \in FreeOffsets :
        LET id == Candidate(k)
            s  == Len(log) + 1
        IN  /\ batches' = [t \in DOMAIN batches \cup {id} |->
                             IF t = id THEN FromRequest(m, u, s)
                                       ELSE batches[t]]
            /\ nextBatchId' = (id + 1) % NumIds
            /\ log' = Append(log, [msg |-> m, user |-> u])
  BY DEF Inject
<1>. DEFINE id == Candidate(k)
            s  == Len(log) + 1
<1>2. k \in 0 .. (NumIds - 1) /\ nextBatchId \in Tickets
  BY DEF FreeOffsets, TypeOK
<1>3. id \in Tickets /\ (id + 1) % NumIds \in Tickets
  BY <1>2 DEF Candidate, Tickets
<1>4. s \in Serials
  BY DEF Inject, TypeOK, Serials
<1>5. TrackerOK(FromRequest(m, u, s))
  BY <1>4, FromRequestOK
<1>6. \A t \in DOMAIN batches' : TrackerOK(batches'[t])
  BY <1>1, <1>5 DEF TypeOK
<1>7. log' \in Seq([msg : Msgs, user : Users]) /\ Len(log') <= MaxInject
  BY <1>1 DEF Inject, TypeOK
<1>8. UNCHANGED <<issued, answered, sent>>
  BY DEF Inject
<1>. QED BY <1>1, <1>3, <1>6, <1>7, <1>8 DEF TypeOK

LEMMA NextEventTypeOK ==
  ASSUME TypeOK, NextEvent
  PROVE  TypeOK'
<1>. PICK dropped \in SUBSET {t \in DOMAIN batches : Drops(t)} :
       \/ \E t \in DOMAIN batches :
            /\ Yields(t)
            /\ LET tr == batches[t]
                   p  == tr.cursor + 1
               IN  /\ batches' = [Without(batches, dropped) EXCEPT
                                    ![t].cursor = p]
                   /\ issued' = IF IsRequest(tr, p)
                                  THEN issued \cup {ElemId(t, p, tr.serial)}
                                  ELSE issued
            /\ UNCHANGED sent
       \/ \E t \in DOMAIN batches :
            /\ Responds(t)
            /\ batches' = Without(batches, dropped \cup {t})
            /\ sent' = Append(sent, IntoResponse(batches[t]))
            /\ UNCHANGED issued
       \/ /\ \A t \in DOMAIN batches : ~Yields(t) /\ ~Responds(t)
          /\ dropped = {t \in DOMAIN batches : Drops(t)}
          /\ batches' = Without(batches, dropped)
          /\ UNCHANGED <<issued, sent>>
  BY DEF NextEvent
<1>0. UNCHANGED <<nextBatchId, log, answered>>
  BY DEF NextEvent
<1>1. CASE \E t \in DOMAIN batches :
            /\ Yields(t)
            /\ LET tr == batches[t]
                   p  == tr.cursor + 1
               IN  /\ batches' = [Without(batches, dropped) EXCEPT
                                    ![t].cursor = p]
                   /\ issued' = IF IsRequest(tr, p)
                                  THEN issued \cup {ElemId(t, p, tr.serial)}
                                  ELSE issued
            /\ UNCHANGED sent
  <2>1. PICK t \in DOMAIN batches :
            /\ Yields(t)
            /\ LET tr == batches[t]
                   p  == tr.cursor + 1
               IN  /\ batches' = [Without(batches, dropped) EXCEPT
                                    ![t].cursor = p]
                   /\ issued' = IF IsRequest(tr, p)
                                  THEN issued \cup {ElemId(t, p, tr.serial)}
                                  ELSE issued
            /\ UNCHANGED sent
    BY <1>1
  <2>. DEFINE tr == batches[t]
              p  == tr.cursor + 1
  <2>2. TrackerOK(tr) /\ p \in 1 .. Len(tr.calls)
    BY <2>1 DEF TypeOK, Yields, HasNext, TrackerOK
  <2>3. t \notin dropped
    BY <2>1 DEF Drops, Yields, HasNext, IsReadyToRespond
  <2>4. TrackerOK([tr EXCEPT !.cursor = p])
    BY <2>2 DEF TrackerOK
  <2>a. DOMAIN batches' = DOMAIN batches \ dropped
    BY <2>1 DEF Without
  <2>b. batches'[t] = [tr EXCEPT !.cursor = p]
    BY <2>1, <2>3 DEF Without
  <2>c. \A x \in DOMAIN batches' \ {t} : batches'[x] = batches[x]
    BY <2>1, <2>a DEF Without
  <2>5. \A x \in DOMAIN batches' : TrackerOK(batches'[x])
    BY <2>4, <2>a, <2>b, <2>c DEF TypeOK
  <2>6. DOMAIN batches' \subseteq Tickets
    BY <2>a DEF TypeOK
  <2>7. ElemId(t, p, tr.serial) \in ElemIds
    BY <2>2 DEF ElemId, ElemIds, TypeOK, TrackerOK, Positions
  <2>8. issued' \subseteq ElemIds /\ answered' \subseteq issued'
    BY <2>1, <2>7, <1>0 DEF TypeOK
  <2>. QED BY <2>1, <2>5, <2>6, <2>8, <1>0 DEF TypeOK
<1>2. CASE \E t \in DOMAIN batches :
            /\ Responds(t)
            /\ batches' = Without(batches, dropped \cup {t})
            /\ sent' = Append(sent, IntoResponse(batches[t]))
            /\ UNCHANGED issued
  <2>1. PICK t \in DOMAIN batches :
            /\ Responds(t)
            /\ batches' = Without(batches, dropped \cup {t})
            /\ sent' = Append(sent, IntoResponse(batches[t]))
            /\ UNCHANGED issued
    BY <1>2
  <2>2. TrackerOK(batches[t])
    BY DEF TypeOK
  <2>3. RequestsOf(batches[t]) \in SUBSET Positions
    BY <2>2 DEF RequestsOf, TrackerOK, Positions
  <2>a. [p \in RequestsOf(batches[t]) |-> batches[t].slots[p]]
          \in [RequestsOf(batches[t]) -> Results \cup {Empty}]
    BY <2>2 DEF TrackerOK, RequestsOf
  <2>b. [p \in RequestsOf(batches[t]) |-> batches[t].slots[p]]
          \in UNION {[S -> Results \cup {Empty}] : S \in SUBSET Positions}
    BY <2>a, <2>3
  <2>4. IntoResponse(batches[t]) \in
          [serial : Serials, user : Users, single : BOOLEAN,
           outputs : UNION {[S -> Results \cup {Empty}] :
                              S \in SUBSET Positions}]
    BY <2>2, <2>b DEF IntoResponse, TrackerOK
  <2>5. \A x \in DOMAIN batches' : TrackerOK(batches'[x])
    BY <2>1 DEF TypeOK, Without
  <2>6. DOMAIN batches' \subseteq Tickets
    BY <2>1 DEF TypeOK, Without
  <2>7. sent' \in Seq([serial : Serials, user : Users, single : BOOLEAN,
                       outputs : UNION {[S -> Results \cup {Empty}] :
                                          S \in SUBSET Positions}])
    BY <2>1, <2>4 DEF TypeOK
  <2>. QED BY <2>1, <2>5, <2>6, <2>7, <1>0 DEF TypeOK
<1>3. CASE /\ \A t \in DOMAIN batches : ~Yields(t) /\ ~Responds(t)
           /\ dropped = {t \in DOMAIN batches : Drops(t)}
           /\ batches' = Without(batches, dropped)
           /\ UNCHANGED <<issued, sent>>
  <2>1. \A x \in DOMAIN batches' : TrackerOK(batches'[x])
    BY <1>3 DEF TypeOK, Without
  <2>2. DOMAIN batches' \subseteq Tickets
    BY <1>3 DEF TypeOK, Without
  <2>. QED BY <1>3, <2>1, <2>2, <1>0 DEF TypeOK
<1>. QED BY <1>1, <1>2, <1>3

LEMMA AnswerTypeOK ==
  ASSUME TypeOK, NEW i \in held, Answer(i)
  PROVE  TypeOK'
<1>1. i \in ElemIds
  BY DEF held, TypeOK
<1>2. Result(i.serial, i.idx) \in Results
  BY <1>1 DEF ElemIds, Result, Results
<1>3. CASE i.tk \in DOMAIN batches /\ InnerRequestById(batches[i.tk], i.idx)
  <2>1. batches' = [batches EXCEPT
                     ![i.tk] = SetResponse(@, i.idx, Result(i.serial, i.idx))]
    BY <1>3 DEF Answer, AnswerById
  <2>2. TrackerOK(batches[i.tk]) /\ i.idx \in 1 .. Len(batches[i.tk].calls)
    BY <1>3 DEF TypeOK, InnerRequestById
  <2>. DEFINE tr == batches[i.tk]
              r  == Result(i.serial, i.idx)
  <2>3. TrackerOK(SetResponse(tr, i.idx, r))
    <3>0. tr = [calls |-> tr.calls, single |-> tr.single, cursor |-> tr.cursor,
                slots |-> tr.slots, user |-> tr.user, serial |-> tr.serial]
      BY <2>2 DEF TrackerOK
    <3>1. SetResponse(tr, i.idx, r) =
            [calls |-> tr.calls, single |-> tr.single, cursor |-> tr.cursor,
             slots |-> [tr.slots EXCEPT ![i.idx] = r],
             user |-> tr.user, serial |-> tr.serial]
      BY <3>0 DEF SetResponse
    <3>2. [tr.slots EXCEPT ![i.idx] = r]
            \in [1 .. Len(tr.calls) -> Results \cup {Empty}]
      BY <2>2, <1>2 DEF TrackerOK
    <3>. QED BY <3>1, <3>2, <2>2 DEF TrackerOK
  <2>4. \A x \in DOMAIN batches' : TrackerOK(batches'[x])
    BY <2>1, <2>3 DEF TypeOK
  <2>5. DOMAIN batches' = DOMAIN batches
    BY <2>1
  <2>6. answered' \subseteq issued' /\ UNCHANGED <<nextBatchId, log, issued, sent>>
    BY DEF Answer, AnswerById, held, TypeOK
  <2>. QED BY <2>4, <2>5, <2>6 DEF TypeOK
<1>4. CASE ~(i.tk \in DOMAIN batches /\ InnerRequestById(batches[i.tk], i.idx))
  BY <1>4 DEF TypeOK, Answer, AnswerById, held
<1>. QED BY <1>3, <1>4

LEMMA NextTypeOK == TypeOK /\ [Next]_vars => TypeOK'
<1>. SUFFICES ASSUME TypeOK, [Next]_vars PROVE TypeOK'
  OBVIOUS
<1>1. CASE \E m \in Msgs, u \in Users : Inject(m, u)
  BY <1>1, InjectTypeOK
<1>2. CASE NextEvent
  BY <1>2, NextEventTypeOK
<1>3. CASE \E i \in held : Answer(i)
  BY <1>3, AnswerTypeOK
<1>4. CASE UNCHANGED vars
  BY <1>4 DEF vars, TypeOK, held
<1>. QED BY <1>1, <1>2, <1>3, <1>4 DEF Next

\* The type invariant holds in every reachable state.
THEOREM TypeCorrect == Spec => []TypeOK
BY InitTypeOK, NextTypeOK, PTL DEF Spec

-----------------------------------------------------------------------------
(* Results land in their own slots.                                        *)

\* What advancing the cursor changes in a tracker: only the cursor.
LEMMA AdvanceFacts ==
  ASSUME NEW tr, TrackerOK(tr), NEW c
  PROVE  /\ [tr EXCEPT !.cursor = c].calls = tr.calls
         /\ [tr EXCEPT !.cursor = c].cursor = c
         /\ [tr EXCEPT !.cursor = c].serial = tr.serial
         /\ [tr EXCEPT !.cursor = c].slots = tr.slots
BY DEF TrackerOK

\* A batch with a held request is not ready to respond, so next_event
\* never retires it.
LEMMA HeldNotReady ==
  ASSUME TypeOK, HeldLive, NEW i \in held
  PROVE  ~IsReadyToRespond(batches[i.tk])
BY DEF HeldLive, IsReadyToRespond

Rest == AnswersInPlace /\ HeldLive /\ UnyieldedEmpty

LEMMA InitRest == Init => Rest
BY DEF Init, Rest, AnswersInPlace, HeldLive, UnyieldedEmpty, held

LEMMA InjectRest ==
  ASSUME IInv, NEW m \in Msgs, NEW u \in Users, Inject(m, u)
  PROVE  Rest'
<1>1. PICK k \in FreeOffsets :
        LET id == Candidate(k)
            s  == Len(log) + 1
        IN  /\ batches' = [t \in DOMAIN batches \cup {id} |->
                             IF t = id THEN FromRequest(m, u, s)
                                       ELSE batches[t]]
            /\ nextBatchId' = (id + 1) % NumIds
            /\ log' = Append(log, [msg |-> m, user |-> u])
  BY DEF Inject
<1>. DEFINE id == Candidate(k)
            s  == Len(log) + 1
<1>2. id \notin DOMAIN batches
  BY DEF FreeOffsets
<1>3. /\ DOMAIN batches' = DOMAIN batches \cup {id}
      /\ batches'[id] = FromRequest(m, u, s)
      /\ \A x \in DOMAIN batches : batches'[x] = batches[x]
  BY <1>1, <1>2
<1>4. /\ \A p \in 1 .. Len(batches'[id].calls) : batches'[id].slots[p] = Empty
      /\ \A p \in (batches'[id].cursor + 1) .. Len(batches'[id].calls) :
           batches'[id].slots[p] = Empty
  BY <1>3 DEF FromRequest
<1>5. held' = held
  BY DEF Inject, held
<1>6. AnswersInPlace'
  BY <1>3, <1>4 DEF AnswersInPlace, IInv
<1>7. HeldLive'
  BY <1>3, <1>5 DEF HeldLive, IInv
<1>8. UnyieldedEmpty'
  BY <1>3, <1>4 DEF UnyieldedEmpty, IInv
<1>. QED BY <1>6, <1>7, <1>8 DEF Rest

\* Removing ready batches from the map (the Response and None branches of
\* next_event) keeps every held id live and every slot in place.
LEMMA RemoveRest ==
  ASSUME IInv, NEW R \in SUBSET DOMAIN batches,
         \A x \in R : IsReadyToRespond(batches[x]),
         batches' = Without(batches, R),
         UNCHANGED <<issued, answered>>
  PROVE  Rest'
<1>1. /\ DOMAIN batches' = DOMAIN batches \ R
      /\ \A x \in DOMAIN batches' : batches'[x] = batches[x]
  BY DEF Without
<1>2. held' = held
  BY DEF held
<1>3. \A i \in held : i.tk \notin R
  BY HeldNotReady DEF IInv
<1>4. AnswersInPlace'
  BY <1>1 DEF AnswersInPlace, IInv
<1>5. HeldLive'
  BY <1>1, <1>2, <1>3 DEF HeldLive, IInv
<1>6. UnyieldedEmpty'
  BY <1>1 DEF UnyieldedEmpty, IInv
<1>. QED BY <1>4, <1>5, <1>6 DEF Rest

\* Handing out the next element of batch t (the Request and Notification
\* branches of next_event) keeps every held id live, and the id it hands
\* out names an empty request slot.
LEMMA YieldRest ==
  ASSUME IInv, NEW dropped \in SUBSET {x \in DOMAIN batches : Drops(x)},
         NEW t \in DOMAIN batches, Yields(t),
         batches' = [Without(batches, dropped) EXCEPT
                       ![t].cursor = batches[t].cursor + 1],
         issued' = IF IsRequest(batches[t], batches[t].cursor + 1)
                     THEN issued \cup {ElemId(t, batches[t].cursor + 1,
                                              batches[t].serial)}
                     ELSE issued,
         answered' = answered
  PROVE  Rest'
<1>. DEFINE tr == batches[t]
            p  == tr.cursor + 1
            nid == ElemId(t, p, tr.serial)
<1>1. TrackerOK(tr) /\ p \in 1 .. Len(tr.calls)
  BY DEF IInv, TypeOK, Yields, HasNext, TrackerOK
<1>2. t \notin dropped
  BY DEF Drops, Yields, HasNext, IsReadyToRespond
<1>3. /\ DOMAIN batches' = DOMAIN batches \ dropped
      /\ batches'[t] = [tr EXCEPT !.cursor = p]
      /\ \A x \in DOMAIN batches' \ {t} : batches'[x] = batches[x]
  BY <1>2 DEF Without
<1>4. /\ batches'[t].calls = tr.calls
      /\ batches'[t].cursor = p
      /\ batches'[t].serial = tr.serial
      /\ batches'[t].slots = tr.slots
  <2>1. /\ [tr EXCEPT !.cursor = p].calls = tr.calls
        /\ [tr EXCEPT !.cursor = p].cursor = p
        /\ [tr EXCEPT !.cursor = p].serial = tr.serial
        /\ [tr EXCEPT !.cursor = p].slots = tr.slots
    BY <1>1, AdvanceFacts
  <2>. QED BY <2>1, <1>3
<1>5. \A i \in held : i.tk \notin dropped
  BY HeldNotReady DEF IInv, Drops
<1>6. tr.slots[p] = Empty
  BY <1>1 DEF IInv, UnyieldedEmpty
<1>7. held' \subseteq held \cup {nid}
  BY DEF held
<1>8. AnswersInPlace'
  BY <1>3, <1>4 DEF AnswersInPlace, IInv, IsRequest
<1>9. HeldLive'
  <2>1. SUFFICES ASSUME NEW i \in held'
                 PROVE  /\ i.tk \in DOMAIN batches'
                        /\ batches'[i.tk].serial = i.serial
                        /\ i.idx \in 1 .. batches'[i.tk].cursor
                        /\ IsRequest(batches'[i.tk], i.idx)
                        /\ batches'[i.tk].slots[i.idx] = Empty
    BY DEF HeldLive
  <2>2. CASE i \in held /\ i.tk = t
    <3>1. i.idx \in 1 .. tr.cursor
      BY <2>2 DEF IInv, HeldLive
    <3>2. i.idx \in 1 .. p
      BY <3>1, <1>1 DEF TrackerOK
    <3>3. t \in DOMAIN batches'
      BY <1>2, <1>3
    <3>4. /\ tr.serial = i.serial
          /\ IsRequest(tr, i.idx)
          /\ tr.slots[i.idx] = Empty
      BY <2>2 DEF IInv, HeldLive
    <3>. QED BY <2>2, <3>2, <3>3, <3>4, <1>4 DEF IsRequest
  <2>3. CASE i \in held /\ i.tk # t
    <3>1. i.tk \in DOMAIN batches'
      BY <2>3, <1>3, <1>5 DEF IInv, HeldLive
    <3>2. batches'[i.tk] = batches[i.tk]
      BY <2>3, <3>1, <1>3
    <3>. QED BY <2>3, <3>1, <3>2 DEF IInv, HeldLive
  <2>4. CASE i \notin held
    <3>1. i = nid /\ IsRequest(tr, p)
      BY <2>4 DEF held
    <3>2. p \in 1 .. batches'[t].cursor
      BY <1>1, <1>4 DEF TrackerOK
    <3>. QED BY <3>1, <3>2, <1>2, <1>3, <1>4, <1>6 DEF ElemId, IsRequest
  <2>. QED BY <2>2, <2>3, <2>4
<1>10. UnyieldedEmpty'
  <2>1. \A q \in (batches'[t].cursor + 1) .. Len(batches'[t].calls) :
          batches'[t].slots[q] = Empty
    BY <1>1, <1>4 DEF IInv, UnyieldedEmpty, TrackerOK
  <2>. QED BY <2>1, <1>3 DEF UnyieldedEmpty, IInv
<1>. QED BY <1>8, <1>9, <1>10 DEF Rest

LEMMA NextEventRest ==
  ASSUME IInv, NextEvent
  PROVE  Rest'
<1>. PICK dropped \in SUBSET {t \in DOMAIN batches : Drops(t)} :
       \/ \E t \in DOMAIN batches :
            /\ Yields(t)
            /\ LET tr == batches[t]
                   p  == tr.cursor + 1
               IN  /\ batches' = [Without(batches, dropped) EXCEPT
                                    ![t].cursor = p]
                   /\ issued' = IF IsRequest(tr, p)
                                  THEN issued \cup {ElemId(t, p, tr.serial)}
                                  ELSE issued
            /\ UNCHANGED sent
       \/ \E t \in DOMAIN batches :
            /\ Responds(t)
            /\ batches' = Without(batches, dropped \cup {t})
            /\ sent' = Append(sent, IntoResponse(batches[t]))
            /\ UNCHANGED issued
       \/ /\ \A t \in DOMAIN batches : ~Yields(t) /\ ~Responds(t)
          /\ dropped = {t \in DOMAIN batches : Drops(t)}
          /\ batches' = Without(batches, dropped)
          /\ UNCHANGED <<issued, sent>>
  BY DEF NextEvent
<1>0. answered' = answered
  BY DEF NextEvent
<1>1. \A x \in dropped : IsReadyToRespond(batches[x])
  BY DEF Drops
<1>2. CASE \E t \in DOMAIN batches :
            /\ Yields(t)
            /\ batches' = [Without(batches, dropped) EXCEPT
                             ![t].cursor = batches[t].cursor + 1]
            /\ issued' = IF IsRequest(batches[t], batches[t].cursor + 1)
                           THEN issued \cup {ElemId(t, batches[t].cursor + 1,
                                                    batches[t].serial)}
                           ELSE issued
  BY <1>2, <1>0, YieldRest
<1>3. CASE \E t \in DOMAIN batches :
            /\ Responds(t)
            /\ batches' = Without(batches, dropped \cup {t})
            /\ UNCHANGED issued
  <2>1. PICK t \in DOMAIN batches :
            /\ Responds(t)
            /\ batches' = Without(batches, dropped \cup {t})
            /\ UNCHANGED issued
    BY <1>3
  <2>2. \A x \in dropped \cup {t} : IsReadyToRespond(batches[x])
    BY <2>1, <1>1 DEF Responds
  <2>. QED BY <2>1, <2>2, <1>0, RemoveRest
<1>4. CASE /\ batches' = Without(batches, dropped)
           /\ UNCHANGED issued
  BY <1>4, <1>0, <1>1, RemoveRest
<1>. QED BY <1>2, <1>3, <1>4

\* Answering a held id fills exactly its own slot.
LEMMA AnswerRest ==
  ASSUME IInv, NEW i \in held, Answer(i)
  PROVE  Rest'
<1>. DEFINE tr == batches[i.tk]
            r  == Result(i.serial, i.idx)
<1>1. /\ i \in ElemIds
      /\ i.tk \in DOMAIN batches
      /\ tr.serial = i.serial
      /\ i.idx \in 1 .. tr.cursor
      /\ IsRequest(tr, i.idx)
      /\ tr.slots[i.idx] = Empty
  BY DEF IInv, HeldLive, TypeOK, held
<1>2. TrackerOK(tr) /\ i.idx \in 1 .. Len(tr.calls)
  BY <1>1 DEF IInv, TypeOK, TrackerOK
<1>3. batches' = [batches EXCEPT ![i.tk] = SetResponse(tr, i.idx, r)]
  BY <1>1, <1>2 DEF Answer, AnswerById, InnerRequestById
<1>4. /\ DOMAIN batches' = DOMAIN batches
      /\ \A x \in DOMAIN batches \ {i.tk} : batches'[x] = batches[x]
      /\ batches'[i.tk].calls = tr.calls
      /\ batches'[i.tk].cursor = tr.cursor
      /\ batches'[i.tk].serial = tr.serial
      /\ batches'[i.tk].slots = [tr.slots EXCEPT ![i.idx] = r]
  <2>1. /\ SetResponse(tr, i.idx, r).calls = tr.calls
        /\ SetResponse(tr, i.idx, r).cursor = tr.cursor
        /\ SetResponse(tr, i.idx, r).serial = tr.serial
        /\ SetResponse(tr, i.idx, r).slots = [tr.slots EXCEPT ![i.idx] = r]
    <3>0. tr = [calls |-> tr.calls, single |-> tr.single, cursor |-> tr.cursor,
                slots |-> tr.slots, user |-> tr.user, serial |-> tr.serial]
      BY <1>2 DEF TrackerOK
    <3>. QED BY <3>0 DEF SetResponse
  <2>. QED BY <2>1, <1>1, <1>3
<1>5. held' = held \ {i}
  BY DEF Answer, AnswerById, held
<1>6. AnswersInPlace'
  <2>1. SUFFICES ASSUME NEW t \in DOMAIN batches',
                        NEW q \in 1 .. Len(batches'[t].calls)
                 PROVE  \/ batches'[t].slots[q] = Empty
                        \/ /\ IsRequest(batches'[t], q)
                           /\ batches'[t].slots[q] = Result(batches'[t].serial, q)
    BY DEF AnswersInPlace
  <2>2. CASE t = i.tk /\ q = i.idx
    BY <2>2, <1>1, <1>2, <1>4 DEF IsRequest, TrackerOK
  <2>3. CASE t = i.tk /\ q # i.idx
    BY <2>3, <1>1, <1>2, <1>4 DEF IInv, AnswersInPlace, IsRequest, TrackerOK
  <2>4. CASE t # i.tk
    BY <2>4, <1>4 DEF IInv, AnswersInPlace
  <2>. QED BY <2>2, <2>3, <2>4
<1>7. HeldLive'
  <2>1. SUFFICES ASSUME NEW j \in held, j # i
                 PROVE  /\ j.tk \in DOMAIN batches'
                        /\ batches'[j.tk].serial = j.serial
                        /\ j.idx \in 1 .. batches'[j.tk].cursor
                        /\ IsRequest(batches'[j.tk], j.idx)
                        /\ batches'[j.tk].slots[j.idx] = Empty
    BY <1>5 DEF HeldLive
  <2>2. /\ j \in ElemIds
        /\ j.tk \in DOMAIN batches
        /\ batches[j.tk].serial = j.serial
        /\ j.idx \in 1 .. batches[j.tk].cursor
        /\ IsRequest(batches[j.tk], j.idx)
        /\ batches[j.tk].slots[j.idx] = Empty
    BY DEF IInv, HeldLive, TypeOK, held
  <2>3. CASE j.tk = i.tk
    <3>1. j.idx # i.idx
      BY <2>1, <2>2, <2>3, <1>1 DEF ElemIds
    <3>. QED BY <3>1, <2>2, <2>3, <1>2, <1>4 DEF IsRequest, TrackerOK
  <2>4. CASE j.tk # i.tk
    BY <2>2, <2>4, <1>4
  <2>. QED BY <2>3, <2>4
<1>8. UnyieldedEmpty'
  <2>1. SUFFICES ASSUME NEW t \in DOMAIN batches',
                        NEW q \in (batches'[t].cursor + 1) .. Len(batches'[t].calls)
                 PROVE  batches'[t].slots[q] = Empty
    BY DEF UnyieldedEmpty
  <2>2. CASE t = i.tk
    BY <2>2, <1>1, <1>2, <1>4 DEF IInv, UnyieldedEmpty, TrackerOK
  <2>3. CASE t # i.tk
    BY <2>3, <1>4 DEF IInv, UnyieldedEmpty
  <2>. QED BY <2>2, <2>3
<1>. QED BY <1>6, <1>7, <1>8 DEF Rest

LEMMA InitIInv == Init => IInv
BY InitTypeOK, InitRest DEF IInv, Rest

LEMMA NextIInv ==
  ASSUME IInv, [Next]_vars
  PROVE  IInv'
<1>1. TypeOK'
  BY NextTypeOK DEF IInv
<1>2. Rest'
  <2>1. CASE \E m \in Msgs, u \in Users : Inject(m, u)
    BY <2>1, InjectRest
  <2>2. CASE NextEvent
    BY <2>2, NextEventRest
  <2>3. CASE \E i \in held : Answer(i)
    BY <2>3, AnswerRest
  <2>4. CASE UNCHANGED vars
    BY <2>4 DEF vars, IInv, Rest, AnswersInPlace, HeldLive, UnyieldedEmpty, held
  <2>. QED BY <2>1, <2>2, <2>3, <2>4 DEF Next
<1>. QED BY <1>1, <1>2 DEF IInv, Rest

\* set_response only ever writes a request's own result into its own
\* slot: request_by_id, given an id the host holds, reaches the batch and
\* the position that issued it, for every number of tickets and every
\* batch length.
THEOREM AnswersInPlaceHolds == Spec => []AnswersInPlace
<1>1. Init => IInv
  BY InitIInv
<1>2. IInv /\ [Next]_vars => IInv'
  BY NextIInv
<1>3. IInv => AnswersInPlace
  BY DEF IInv
<1>. QED BY <1>1, <1>2, <1>3, PTL DEF Spec

=============================================================================
