-------------------------- MODULE BatchesSentProofs --------------------------
(***************************************************************************)
(* Proofs about what BatchesState sends and about the identity of its      *)
(* tickets: a live ticket keeps its batch (BatchIdentity), no message is   *)
(* answered twice (AtMostOneResponse), and every ReadyToSend is the        *)
(* response its message asked for (ResponseFaithful).  They rest on RInv   *)
(* of BatchesRefinement, with two facts about the history of responses.    *)
(***************************************************************************)
EXTENDS BatchesRefinement

USE BoundsAssumption, MsgsAssumption

\* No step changes the batch a surviving ticket holds.
KeepsSerials ==
  \A t \in DOMAIN batches \cap DOMAIN batches' :
    batches'[t].serial = batches[t].serial

-----------------------------------------------------------------------------
(* Every step keeps the serials of the surviving tickets.                  *)

LEMMA InjectKeepsSerials ==
  ASSUME RInv, NEW m \in Msgs, NEW u \in Users, Inject(m, u)
  PROVE  /\ KeepsSerials
         /\ DOMAIN batches \subseteq DOMAIN batches'
         /\ \E id \in DOMAIN batches' \ DOMAIN batches :
              /\ DOMAIN batches' = DOMAIN batches \cup {id}
              /\ batches'[id].serial = Len(log) + 1
<1>1. PICK k \in FreeOffsets :
        LET id == Candidate(k)
            s  == Len(log) + 1
        IN  batches' = [t \in DOMAIN batches \cup {id} |->
                          IF t = id THEN FromRequest(m, u, s)
                                    ELSE batches[t]]
  BY DEF Inject
<1>. DEFINE id == Candidate(k)
<1>2. id \notin DOMAIN batches
  BY DEF FreeOffsets
<1>3. /\ DOMAIN batches' = DOMAIN batches \cup {id}
      /\ batches'[id].serial = Len(log) + 1
      /\ \A x \in DOMAIN batches : batches'[x] = batches[x]
  BY <1>1, <1>2 DEF FromRequest
<1>4. QED
  BY <1>2, <1>3 DEF KeepsSerials

LEMMA NextEventKeepsSerials ==
  ASSUME RInv, NextEvent
  PROVE  KeepsSerials /\ DOMAIN batches' \subseteq DOMAIN batches
<1>1. PICK dropped \in SUBSET DOMAIN batches :
        \/ \E t \in DOMAIN batches :
             batches' = [Without(batches, dropped) EXCEPT
                           ![t].cursor = batches[t].cursor + 1]
        \/ \E t \in DOMAIN batches :
             batches' = Without(batches, dropped \cup {t})
        \/ batches' = Without(batches, dropped)
  BY DEF NextEvent
<1>2. CASE \E t \in DOMAIN batches :
             batches' = [Without(batches, dropped) EXCEPT
                           ![t].cursor = batches[t].cursor + 1]
  <2>1. PICK t \in DOMAIN batches :
          batches' = [Without(batches, dropped) EXCEPT
                        ![t].cursor = batches[t].cursor + 1]
    BY <1>2
  <2>. DEFINE tr == batches[t]
  <2>2. /\ DOMAIN batches' = DOMAIN batches \ dropped
        /\ \A x \in DOMAIN batches' \ {t} : batches'[x] = batches[x]
        /\ t \in DOMAIN batches' =>
             batches'[t] = [tr EXCEPT !.cursor = tr.cursor + 1]
    BY <2>1 DEF Without
  <2>3. [tr EXCEPT !.cursor = tr.cursor + 1].serial = tr.serial
    <3>1. TrackerOK(tr)
      BY DEF RInv, IInv, TypeOK
    <3>2. QED
      BY <3>1, AdvanceKeeps
  <2>4. QED
    BY <2>2, <2>3 DEF KeepsSerials
<1>3. ASSUME NEW R \in SUBSET DOMAIN batches, batches' = Without(batches, R)
      PROVE  KeepsSerials /\ DOMAIN batches' \subseteq DOMAIN batches
  BY <1>3 DEF Without, KeepsSerials
<1>4. QED
  BY <1>1, <1>2, <1>3

LEMMA AnswerKeepsSerials ==
  ASSUME RInv, NEW i \in held, Answer(i)
  PROVE  KeepsSerials /\ DOMAIN batches' = DOMAIN batches
<1>1. CASE i.tk \in DOMAIN batches /\ InnerRequestById(batches[i.tk], i.idx)
  <2>. DEFINE tr == batches[i.tk]
              r  == Result(i.serial, i.idx)
  <2>1. batches' = [batches EXCEPT ![i.tk] = SetResponse(tr, i.idx, r)]
    BY <1>1 DEF Answer, AnswerById
  <2>2. SetResponse(tr, i.idx, r).serial = tr.serial
    <3>1. tr = [calls |-> tr.calls, single |-> tr.single,
                cursor |-> tr.cursor, slots |-> tr.slots,
                user |-> tr.user, serial |-> tr.serial]
      BY <1>1 DEF RInv, IInv, TypeOK, TrackerOK
    <3>2. QED
      BY <3>1 DEF SetResponse
  <2>3. QED
    BY <1>1, <2>1, <2>2 DEF KeepsSerials
<1>2. CASE ~(i.tk \in DOMAIN batches /\ InnerRequestById(batches[i.tk], i.idx))
  BY <1>2 DEF Answer, AnswerById, KeepsSerials
<1>3. QED
  BY <1>1, <1>2

LEMMA NextKeepsSerials ==
  ASSUME RInv, [Next]_vars
  PROVE  KeepsSerials
<1>1. CASE \E m \in Msgs, u \in Users : Inject(m, u)
  BY <1>1, InjectKeepsSerials
<1>2. CASE NextEvent
  BY <1>2, NextEventKeepsSerials
<1>3. CASE \E i \in held : Answer(i)
  BY <1>3, AnswerKeepsSerials
<1>4. CASE UNCHANGED vars
  BY <1>4 DEF vars, KeepsSerials
<1>5. QED
  BY <1>1, <1>2, <1>3, <1>4 DEF Next

\* BatchIdentity: inject never takes a ticket a live batch holds, and no
\* step of next_event or set_response changes the batch a live ticket
\* holds, whatever wrap of next_batch_id came in between.
THEOREM BatchIdentityHolds == Spec => BatchIdentity
<1>1. Init => RInv
  BY InitRInv
<1>2. RInv /\ [Next]_vars => RInv'
  BY NextRInv
<1>3. RInv /\ [Next]_vars => [KeepsSerials]_vars
  BY NextKeepsSerials
<1>4. QED
  BY <1>1, <1>2, <1>3, PTL DEF Spec, BatchIdentity, KeepsSerials

-----------------------------------------------------------------------------
(* The responses sent.                                                     *)

\* Every response names an inject the log records ...
SentLogged == \A k \in 1 .. Len(sent) : sent[k].serial \in 1 .. Len(log)

\* ... whose batch next_event retired in the same call.
SentRetired == \A k \in 1 .. Len(sent) : ~Live(sent[k].serial)

\* The inductive invariant: RInv, the two facts above and the properties.
HInv ==
  /\ RInv
  /\ SentLogged
  /\ SentRetired
  /\ ResponseFaithful
  /\ AtMostOneResponse

\* The part of HInv about sent.
SentOK == SentLogged /\ SentRetired /\ ResponseFaithful /\ AtMostOneResponse

\* Responses already sent stay faithful when the log entries they were
\* computed from are kept.
LEMMA FaithfulKept ==
  ASSUME ResponseFaithful, sent' = sent,
         \A k \in 1 .. Len(sent) : log'[sent[k].serial] = log[sent[k].serial]
  PROVE  ResponseFaithful'
<1>1. \A k \in 1 .. Len(sent') :
        sent'[k] = sent[k] /\ log'[sent'[k].serial] = log[sent[k].serial]
  OBVIOUS
<1>2. QED
  BY <1>1 DEF ResponseFaithful

\* A serial that is live after a step that keeps serials and adds no
\* ticket was live before it.
LEMMA LiveBefore ==
  ASSUME KeepsSerials, DOMAIN batches' \subseteq DOMAIN batches,
         NEW s, Live(s)'
  PROVE  Live(s)
BY DEF KeepsSerials, Live

\* A step that sends nothing, keeps the log and makes no serial live
\* keeps SentOK.
LEMMA SentKept ==
  ASSUME SentOK, UNCHANGED <<log, sent>>,
         \A s : Live(s)' => Live(s)
  PROVE  SentOK'
<1>1. SentLogged'
  BY DEF SentOK, SentLogged
<1>2. SentRetired'
  BY DEF SentOK, SentRetired
<1>3. ResponseFaithful'
  BY FaithfulKept DEF SentOK
<1>4. AtMostOneResponse'
  BY DEF SentOK, AtMostOneResponse
<1>5. QED
  BY <1>1, <1>2, <1>3, <1>4 DEF SentOK

LEMMA InitHInv == Init => HInv
<1>. SUFFICES ASSUME Init PROVE HInv
  OBVIOUS
<1>1. RInv
  BY InitRInv
<1>2. Len(sent) = 0
  BY DEF Init
<1>3. QED
  BY <1>1, <1>2
  DEF HInv, SentLogged, SentRetired, ResponseFaithful, AtMostOneResponse

LEMMA InjectSentOK ==
  ASSUME HInv, NEW m \in Msgs, NEW u \in Users, Inject(m, u)
  PROVE  SentOK'
<1>1. UNCHANGED sent /\ log' = Append(log, [msg |-> m, user |-> u])
  BY DEF Inject
<1>2. /\ log \in Seq([msg : Msgs, user : Users])
      /\ Len(log') = Len(log) + 1
      /\ \A r \in 1 .. Len(log) : log'[r] = log[r]
  BY <1>1 DEF HInv, RInv, IInv, TypeOK
<1>3. PICK id \in DOMAIN batches' \ DOMAIN batches :
        /\ DOMAIN batches' = DOMAIN batches \cup {id}
        /\ batches'[id].serial = Len(log) + 1
  BY InjectKeepsSerials DEF HInv
<1>4. KeepsSerials
  BY InjectKeepsSerials DEF HInv
<1>5. Len(log) \in Nat
  BY <1>2
<1>6. SentLogged'
  BY <1>1, <1>2, <1>5 DEF HInv, SentLogged
<1>7. SentRetired'
  <2>1. SUFFICES ASSUME NEW k \in 1 .. Len(sent), Live(sent[k].serial)'
                 PROVE  FALSE
    BY <1>1 DEF SentRetired
  <2>2. PICK x \in DOMAIN batches' : batches'[x].serial = sent[k].serial
    BY <1>1, <2>1 DEF Live
  <2>3. sent[k].serial \in 1 .. Len(log)
    BY DEF HInv, SentLogged
  <2>4. x # id
    BY <1>3, <1>5, <2>2, <2>3
  <2>5. Live(sent[k].serial)
    BY <1>3, <1>4, <2>2, <2>4 DEF KeepsSerials, Live
  <2>6. QED
    BY <2>5 DEF HInv, SentRetired
<1>8. ResponseFaithful'
  <2>1. \A k \in 1 .. Len(sent) : log'[sent[k].serial] = log[sent[k].serial]
    BY <1>2 DEF HInv, SentLogged
  <2>2. QED
    BY <1>1, <2>1, FaithfulKept DEF HInv
<1>9. AtMostOneResponse'
  BY <1>1 DEF HInv, AtMostOneResponse
<1>10. QED
  BY <1>6, <1>7, <1>8, <1>9 DEF SentOK

LEMMA AnswerSentOK ==
  ASSUME HInv, NEW i \in held, Answer(i)
  PROVE  SentOK'
<1>1. UNCHANGED <<log, sent>>
  BY DEF Answer, AnswerById
<1>2. KeepsSerials /\ DOMAIN batches' \subseteq DOMAIN batches
  BY AnswerKeepsSerials DEF HInv
<1>3. \A s : Live(s)' => Live(s)
  BY <1>2, LiveBefore
<1>4. QED
  BY <1>1, <1>3, SentKept DEF HInv, SentOK

\* The response next_event appends is faithful, and its message was not
\* answered before: its batch is live, every earlier response's is not.
LEMMA RespondSentOK ==
  ASSUME HInv, NEW dropped \in SUBSET DOMAIN batches,
         NEW t \in DOMAIN batches, Responds(t),
         batches' = Without(batches, dropped \cup {t}),
         sent' = Append(sent, IntoResponse(batches[t])),
         UNCHANGED log
  PROVE  SentOK'
<1>. DEFINE tr == batches[t]
            s  == tr.serial
            n  == Len(sent) + 1
<1>1. /\ sent \in Seq([serial : Serials, user : Users, single : BOOLEAN,
                       outputs : UNION {[S -> Results \cup {Empty}] :
                                          S \in SUBSET Positions}])
      /\ Len(sent') = n
      /\ sent'[n] = IntoResponse(tr)
      /\ \A k \in 1 .. Len(sent) : sent'[k] = sent[k]
  BY DEF HInv, RInv, IInv, TypeOK
<1>2. IntoResponse(tr) = Reg!Response(s)
  BY ResponseIs DEF HInv, Responds
<1>3. /\ Reg!Response(s).serial = s
      /\ Reg!Response(s).user = log[s].user
      /\ Reg!Response(s).single = log[s].msg.single
      /\ Reg!Response(s).outputs
           = [p \in RequestPositions(log[s].msg) |-> Result(s, p)]
  BY DEF Reg!Response, Reg!Reqs, Reg!Calls, Reg!Result, RequestPositions,
         Result
<1>4. RequestPositions(log[s].msg) # {}
  <2>1. Reg!Reqs(s) = RequestsOf(tr)
    BY AtSerial DEF HInv
  <2>2. RequestsOf(tr) # {}
    BY DEF Responds, HasRequest, RequestsOf
  <2>3. QED
    BY <2>1, <2>2 DEF Reg!Reqs, Reg!Calls, RequestPositions
<1>5. s \in 1 .. Len(log)
  BY DEF HInv, RInv, SerialsLogged
<1>6. \A x \in DOMAIN batches' : batches'[x].serial # s
  BY DEF HInv, RInv, UniqueSerials, Without
<1>7. \A k \in 1 .. Len(sent) : sent[k].serial # s
  BY DEF HInv, SentRetired, Live
<1>8. SentLogged'
  BY <1>1, <1>2, <1>3, <1>5 DEF HInv, SentLogged
<1>9. SentRetired'
  <2>1. \A q : (\E x \in DOMAIN batches' : batches'[x].serial = q) => Live(q)
    BY DEF Without, Live
  <2>2. SUFFICES ASSUME NEW k \in 1 .. n,
                        \E x \in DOMAIN batches' : batches'[x].serial = sent'[k].serial
                 PROVE  FALSE
    BY <1>1 DEF SentRetired, Live
  <2>3. CASE k = n
    <3>1. sent'[k].serial = s
      BY <1>1, <1>2, <1>3, <2>3
    <3>2. QED
      BY <1>6, <2>2, <3>1
  <2>4. CASE k # n
    <3>1. k \in 1 .. Len(sent) /\ sent'[k] = sent[k]
      BY <1>1, <2>4
    <3>2. Live(sent[k].serial)
      BY <2>1, <2>2, <3>1
    <3>3. QED
      BY <3>1, <3>2 DEF HInv, SentRetired
  <2>5. QED
    BY <2>3, <2>4
<1>10. ResponseFaithful'
  <2>. DEFINE P == RequestPositions(log[s].msg)
  <2>1. /\ sent'[n].serial = s
        /\ P # {}
        /\ sent'[n].user = log[s].user
        /\ sent'[n].single = log[s].msg.single
        /\ sent'[n].outputs = [p \in P |-> Result(s, p)]
    BY <1>1, <1>2, <1>3, <1>4
  <2>2. SUFFICES ASSUME NEW k \in 1 .. n
                 PROVE  LET r == sent'[k]
                            m == log[r.serial].msg
                        IN  /\ RequestPositions(m) # {}
                            /\ r.user = log[r.serial].user
                            /\ r.single = m.single
                            /\ r.outputs = [p \in RequestPositions(m) |->
                                              Result(r.serial, p)]
    BY <1>1 DEF ResponseFaithful
  <2>3. CASE k = n
    BY <2>1, <2>3
  <2>4. CASE k # n
    <3>1. k \in 1 .. Len(sent) /\ sent'[k] = sent[k]
      BY <1>1, <2>4
    <3>2. QED
      BY <3>1 DEF HInv, ResponseFaithful
  <2>5. QED
    BY <2>3, <2>4
<1>11. AtMostOneResponse'
  BY <1>1, <1>2, <1>3, <1>7 DEF HInv, AtMostOneResponse
<1>12. QED
  BY <1>8, <1>9, <1>10, <1>11 DEF SentOK

LEMMA NextEventSentOK ==
  ASSUME HInv, NextEvent
  PROVE  SentOK'
<1>1. PICK dropped \in SUBSET DOMAIN batches :
        /\ \/ UNCHANGED sent
           \/ \E t \in DOMAIN batches :
                /\ Responds(t)
                /\ batches' = Without(batches, dropped \cup {t})
                /\ sent' = Append(sent, IntoResponse(batches[t]))
        /\ UNCHANGED log
  BY DEF NextEvent
<1>2. CASE UNCHANGED sent
  <2>1. KeepsSerials /\ DOMAIN batches' \subseteq DOMAIN batches
    BY NextEventKeepsSerials DEF HInv
  <2>2. \A q : Live(q)' => Live(q)
    BY <2>1, LiveBefore
  <2>3. QED
    BY <1>1, <1>2, <2>2, SentKept DEF HInv, SentOK
<1>3. CASE \E t \in DOMAIN batches :
             /\ Responds(t)
             /\ batches' = Without(batches, dropped \cup {t})
             /\ sent' = Append(sent, IntoResponse(batches[t]))
  BY <1>1, <1>3, RespondSentOK
<1>4. QED
  BY <1>1, <1>2, <1>3

LEMMA NextHInv ==
  ASSUME HInv, [Next]_vars
  PROVE  HInv'
<1>1. RInv'
  BY NextRInv DEF HInv
<1>2. SentOK'
  <2>1. CASE \E m \in Msgs, u \in Users : Inject(m, u)
    BY <2>1, InjectSentOK
  <2>2. CASE NextEvent
    BY <2>2, NextEventSentOK
  <2>3. CASE \E i \in held : Answer(i)
    BY <2>3, AnswerSentOK
  <2>4. CASE UNCHANGED vars
    <3>1. \A q : Live(q)' => Live(q)
      BY <2>4 DEF vars, Live
    <3>2. QED
      BY <2>4, <3>1, SentKept DEF vars, HInv, SentOK
  <2>5. QED
    BY <2>1, <2>2, <2>3, <2>4 DEF Next
<1>3. QED
  BY <1>1, <1>2 DEF HInv, SentOK

\* AtMostOneResponse: next_event emits a ReadyToSend only for a live batch
\* and retires that batch in the same call, and inject never revives a
\* serial, so no client message is answered twice.
THEOREM AtMostOneResponseHolds == Spec => []AtMostOneResponse
<1>1. Init => HInv
  BY InitHInv
<1>2. HInv /\ [Next]_vars => HInv'
  BY NextHInv
<1>3. HInv => AtMostOneResponse
  BY DEF HInv
<1>4. QED
  BY <1>1, <1>2, <1>3, PTL DEF Spec

\* ResponseFaithful: every ReadyToSend next_event emits goes to the user
\* of the message it answers, in that message's form, with exactly one
\* output per request, each the result computed for that request, for
\* every number of tickets and every wrap of next_batch_id.
THEOREM ResponseFaithfulHolds == Spec => []ResponseFaithful
<1>1. Init => HInv
  BY InitHInv
<1>2. HInv /\ [Next]_vars => HInv'
  BY NextHInv
<1>3. HInv => ResponseFaithful
  BY DEF HInv
<1>4. QED
  BY <1>1, <1>2, <1>3, PTL DEF Spec

=============================================================================
