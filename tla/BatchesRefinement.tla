-------------------------- MODULE BatchesRefinement --------------------------
(***************************************************************************)
(* Proof that BatchesState implements the ticket-free Registry: under the  *)
(* mapping Registered(batches), which sees every live batch through its    *)
(* serial, each step of Batches is a step of Registry or leaves it alone.  *)
(***************************************************************************)
EXTENDS BatchesProofs

USE BoundsAssumption, MsgsAssumption

\* No two live batches carry the same serial.
UniqueSerials(B) ==
  \A t1, t2 \in DOMAIN B : B[t1].serial = B[t2].serial => t1 = t2

\* Every live batch came from an inject call the log records ...
SerialsLogged == \A t \in DOMAIN batches : batches[t].serial \in 1 .. Len(log)

\* ... and holds that call's message and user parameter.
MatchLog ==
  \A t \in DOMAIN batches :
    LET tr == batches[t]
    IN  /\ tr.calls = log[tr.serial].msg.calls
        /\ tr.single = log[tr.serial].msg.single
        /\ tr.user = log[tr.serial].user

\* The invariant the refinement rests on.
RInv == IInv /\ UniqueSerials(batches) /\ SerialsLogged /\ MatchLog

-----------------------------------------------------------------------------
(* The mapping.                                                            *)

\* With unique serials, the registry entry of a live serial is the entry
\* of the one batch carrying it.
LEMMA RegisteredAt ==
  ASSUME NEW B, UniqueSerials(B)
  PROVE  /\ DOMAIN Registered(B) = {B[x].serial : x \in DOMAIN B}
         /\ \A t \in DOMAIN B : Registered(B)[B[t].serial] = Entry(B[t])
<1>1. DOMAIN Registered(B) = {B[x].serial : x \in DOMAIN B}
  BY DEF Registered
<1>2. ASSUME NEW t \in DOMAIN B
      PROVE  Registered(B)[B[t].serial] = Entry(B[t])
  <2>1. (CHOOSE x \in DOMAIN B : B[x].serial = B[t].serial) = t
    BY DEF UniqueSerials
  <2>2. QED
    BY <2>1 DEF Registered
<1>3. QED
  BY <1>1, <1>2

\* Marking one more request answered in a registry entry.
LEMMA EntryDone ==
  ASSUME NEW h, NEW d, NEW e
  PROVE  [[handed |-> h, done |-> d] EXCEPT !.done = e] = [handed |-> h, done |-> e]
OBVIOUS

\* A function that agrees with the entries of B at the serials of B is
\* Registered(B).
LEMMA RegisteredEq ==
  ASSUME NEW B, UniqueSerials(B), NEW O,
         O = [s \in {B[x].serial : x \in DOMAIN B} |-> O[s]],
         \A t \in DOMAIN B : O[B[t].serial] = Entry(B[t])
  PROVE  Registered(B) = O
<1>. DEFINE S == {B[x].serial : x \in DOMAIN B}
<1>1. Registered(B) = [s \in S |-> Registered(B)[s]]
  BY DEF Registered
<1>2. ASSUME NEW s \in S
      PROVE  Registered(B)[s] = O[s]
  <2>1. PICK x \in DOMAIN B : s = B[x].serial
    OBVIOUS
  <2>2. Registered(B)[B[x].serial] = Entry(B[x])
    BY RegisteredAt
  <2>3. QED
    BY <2>1, <2>2
<1>3. QED
  BY <1>1, <1>2

-----------------------------------------------------------------------------
(* RInv is inductive.                                                      *)

Extra == UniqueSerials(batches) /\ SerialsLogged /\ MatchLog

\* A step that keeps the log, removes batches at most, and changes no
\* batch's serial, calls, form or user keeps Extra.
LEMMA KeepsExtra ==
  ASSUME Extra, UNCHANGED log,
         DOMAIN batches' \subseteq DOMAIN batches,
         \A t \in DOMAIN batches' :
           /\ batches'[t].serial = batches[t].serial
           /\ batches'[t].calls = batches[t].calls
           /\ batches'[t].single = batches[t].single
           /\ batches'[t].user = batches[t].user
  PROVE  Extra'
BY DEF Extra, UniqueSerials, SerialsLogged, MatchLog

\* Moving a tracker's cursor keeps the rest of it.
LEMMA AdvanceKeeps ==
  ASSUME NEW tr, TrackerOK(tr), NEW c
  PROVE  /\ [tr EXCEPT !.cursor = c].serial = tr.serial
         /\ [tr EXCEPT !.cursor = c].calls = tr.calls
         /\ [tr EXCEPT !.cursor = c].single = tr.single
         /\ [tr EXCEPT !.cursor = c].user = tr.user
BY DEF TrackerOK

LEMMA InitExtra == Init => Extra
BY DEF Init, Extra, UniqueSerials, SerialsLogged, MatchLog

LEMMA InjectExtra ==
  ASSUME IInv, Extra, NEW m \in Msgs, NEW u \in Users, Inject(m, u)
  PROVE  Extra'
<1>1. PICK k \in FreeOffsets :
        LET id == Candidate(k)
            s  == Len(log) + 1
        IN  /\ batches' = [t \in DOMAIN batches \cup {id} |->
                             IF t = id THEN FromRequest(m, u, s)
                                       ELSE batches[t]]
            /\ log' = Append(log, [msg |-> m, user |-> u])
  BY DEF Inject
<1>. DEFINE id == Candidate(k)
            s  == Len(log) + 1
<1>2. id \notin DOMAIN batches
  BY DEF FreeOffsets
<1>3. /\ DOMAIN batches' = DOMAIN batches \cup {id}
      /\ batches'[id] = FromRequest(m, u, s)
      /\ \A x \in DOMAIN batches : batches'[x] = batches[x]
  BY <1>1, <1>2
<1>4. /\ log \in Seq([msg : Msgs, user : Users])
      /\ Len(log') = s
      /\ log'[s] = [msg |-> m, user |-> u]
      /\ \A r \in 1 .. Len(log) : log'[r] = log[r]
  BY <1>1 DEF IInv, TypeOK
<1>5. /\ batches'[id].serial = s
      /\ batches'[id].calls = m.calls
      /\ batches'[id].single = m.single
      /\ batches'[id].user = u
  BY <1>3 DEF FromRequest
<1>6. UniqueSerials(batches')
  BY <1>3, <1>4, <1>5 DEF Extra, UniqueSerials, SerialsLogged
<1>7. SerialsLogged'
  BY <1>3, <1>4, <1>5 DEF Extra, SerialsLogged
<1>8. MatchLog'
  BY <1>3, <1>4, <1>5 DEF Extra, SerialsLogged, MatchLog
<1>9. QED
  BY <1>6, <1>7, <1>8 DEF Extra

LEMMA NextEventExtra ==
  ASSUME IInv, Extra, NextEvent
  PROVE  Extra'
<1>1. UNCHANGED log
  BY DEF NextEvent
<1>2. PICK dropped \in SUBSET DOMAIN batches :
        \/ \E t \in DOMAIN batches :
             batches' = [Without(batches, dropped) EXCEPT
                           ![t].cursor = batches[t].cursor + 1]
        \/ \E t \in DOMAIN batches :
             batches' = Without(batches, dropped \cup {t})
        \/ batches' = Without(batches, dropped)
  BY DEF NextEvent
<1>3. CASE \E t \in DOMAIN batches :
             batches' = [Without(batches, dropped) EXCEPT
                           ![t].cursor = batches[t].cursor + 1]
  <2>1. PICK t \in DOMAIN batches :
          batches' = [Without(batches, dropped) EXCEPT
                        ![t].cursor = batches[t].cursor + 1]
    BY <1>3
  <2>2. /\ DOMAIN batches' = DOMAIN batches \ dropped
        /\ \A x \in DOMAIN batches' \ {t} : batches'[x] = batches[x]
        /\ t \in DOMAIN batches' =>
             batches'[t] = [batches[t] EXCEPT !.cursor = batches[t].cursor + 1]
    BY <2>1 DEF Without
  <2>3. TrackerOK(batches[t])
    BY DEF IInv, TypeOK
  <2>4. ASSUME NEW x \in DOMAIN batches'
        PROVE  /\ batches'[x].serial = batches[x].serial
               /\ batches'[x].calls = batches[x].calls
               /\ batches'[x].single = batches[x].single
               /\ batches'[x].user = batches[x].user
    <3>1. CASE x = t
      <4>. DEFINE tr == batches[t]
                  c  == batches[t].cursor + 1
      <4>1. /\ [tr EXCEPT !.cursor = c].serial = tr.serial
            /\ [tr EXCEPT !.cursor = c].calls = tr.calls
            /\ [tr EXCEPT !.cursor = c].single = tr.single
            /\ [tr EXCEPT !.cursor = c].user = tr.user
        BY <2>3, AdvanceKeeps
      <4>2. batches'[t] = [tr EXCEPT !.cursor = c]
        BY <2>2, <3>1
      <4>3. QED
        BY <3>1, <4>1, <4>2
    <3>2. CASE x # t
      BY <2>2, <3>2
    <3>3. QED
      BY <3>1, <3>2
  <2>5. QED
    BY <1>1, <2>2, <2>4, KeepsExtra
<1>4. ASSUME NEW R \in SUBSET DOMAIN batches, batches' = Without(batches, R)
      PROVE  Extra'
  BY <1>1, <1>4, KeepsExtra DEF Without
<1>5. QED
  BY <1>2, <1>3, <1>4

LEMMA AnswerExtra ==
  ASSUME IInv, Extra, NEW i \in held, Answer(i)
  PROVE  Extra'
<1>1. UNCHANGED log
  BY DEF Answer, AnswerById
<1>2. CASE i.tk \in DOMAIN batches
  <2>1. TrackerOK(batches[i.tk])
    BY <1>2 DEF IInv, TypeOK
  <2>2. \/ batches' = [batches EXCEPT ![i.tk] =
                         SetResponse(batches[i.tk], i.idx,
                                     Result(i.serial, i.idx))]
        \/ batches' = batches
    BY DEF Answer, AnswerById
  <2>3. CASE batches' = [batches EXCEPT ![i.tk] =
                           SetResponse(batches[i.tk], i.idx,
                                       Result(i.serial, i.idx))]
    <3>. DEFINE tr == batches[i.tk]
                r  == Result(i.serial, i.idx)
    <3>1. /\ SetResponse(tr, i.idx, r).serial = tr.serial
          /\ SetResponse(tr, i.idx, r).calls = tr.calls
          /\ SetResponse(tr, i.idx, r).single = tr.single
          /\ SetResponse(tr, i.idx, r).user = tr.user
      <4>1. tr = [calls |-> tr.calls, single |-> tr.single,
                  cursor |-> tr.cursor, slots |-> tr.slots,
                  user |-> tr.user, serial |-> tr.serial]
        BY <2>1 DEF TrackerOK
      <4>2. QED
        BY <4>1 DEF SetResponse
    <3>2. /\ DOMAIN batches' = DOMAIN batches
          /\ batches'[i.tk] = SetResponse(tr, i.idx, r)
          /\ \A x \in DOMAIN batches \ {i.tk} : batches'[x] = batches[x]
      BY <1>2, <2>3
    <3>3. ASSUME NEW x \in DOMAIN batches'
          PROVE  /\ batches'[x].serial = batches[x].serial
                 /\ batches'[x].calls = batches[x].calls
                 /\ batches'[x].single = batches[x].single
                 /\ batches'[x].user = batches[x].user
      BY <3>1, <3>2
    <3>4. QED
      BY <1>1, <3>2, <3>3, KeepsExtra
  <2>4. CASE batches' = batches
    BY <1>1, <2>4, KeepsExtra
  <2>5. QED
    BY <2>2, <2>3, <2>4
<1>3. CASE i.tk \notin DOMAIN batches
  BY <1>1, <1>3, KeepsExtra DEF Answer, AnswerById
<1>4. QED
  BY <1>2, <1>3

LEMMA InitRInv == Init => RInv
BY InitIInv, InitExtra DEF RInv, Extra

LEMMA NextRInv ==
  ASSUME RInv, [Next]_vars
  PROVE  RInv'
<1>1. IInv'
  BY NextIInv DEF RInv
<1>2. Extra'
  <2>1. CASE \E m \in Msgs, u \in Users : Inject(m, u)
    BY <2>1, InjectExtra DEF RInv, Extra
  <2>2. CASE NextEvent
    BY <2>2, NextEventExtra DEF RInv, Extra
  <2>3. CASE \E i \in held : Answer(i)
    BY <2>3, AnswerExtra DEF RInv, Extra
  <2>4. CASE UNCHANGED vars
    BY <2>4 DEF vars, RInv, Extra, UniqueSerials, SerialsLogged, MatchLog
  <2>5. QED
    BY <2>1, <2>2, <2>3, <2>4 DEF Next
<1>3. QED
  BY <1>1, <1>2 DEF RInv, Extra

-----------------------------------------------------------------------------
(* Each step of Batches is a step of Registry.                             *)

\* inject is the registry's Receive: the new batch is a new open message
\* with nothing handed out, and every other live batch is left as it was.
LEMMA InjectRefines ==
  ASSUME RInv, NEW m \in Msgs, NEW u \in Users, Inject(m, u)
  PROVE  Reg!Receive(m, u)
<1>1. PICK k \in FreeOffsets :
        LET id == Candidate(k)
            s  == Len(log) + 1
        IN  /\ batches' = [t \in DOMAIN batches \cup {id} |->
                             IF t = id THEN FromRequest(m, u, s)
                                       ELSE batches[t]]
            /\ log' = Append(log, [msg |-> m, user |-> u])
  BY DEF Inject
<1>. DEFINE id == Candidate(k)
            s  == Len(log) + 1
            O  == [r \in DOMAIN Registered(batches) \cup {s} |->
                     IF r = s THEN [handed |-> 0, done |-> {}]
                              ELSE Registered(batches)[r]]
<1>2. id \notin DOMAIN batches
  BY DEF FreeOffsets
<1>3. /\ DOMAIN batches' = DOMAIN batches \cup {id}
      /\ batches'[id] = FromRequest(m, u, s)
      /\ \A x \in DOMAIN batches : batches'[x] = batches[x]
  BY <1>1, <1>2
<1>4. UniqueSerials(batches') /\ UniqueSerials(batches)
  BY InjectExtra DEF RInv, Extra
<1>5. /\ DOMAIN Registered(batches) = {batches[x].serial : x \in DOMAIN batches}
      /\ \A t \in DOMAIN batches :
           Registered(batches)[batches[t].serial] = Entry(batches[t])
  BY <1>4, RegisteredAt
<1>6. \A t \in DOMAIN batches : batches[t].serial # s
  BY DEF RInv, SerialsLogged
<1>7. Entry(FromRequest(m, u, s)) = [handed |-> 0, done |-> {}]
  BY DEF Entry, Filled, FromRequest
<1>8. {batches'[x].serial : x \in DOMAIN batches'}
        = DOMAIN Registered(batches) \cup {s}
  BY <1>3, <1>5 DEF FromRequest
<1>9. \A t \in DOMAIN batches' : O[batches'[t].serial] = Entry(batches'[t])
  BY <1>3, <1>5, <1>6, <1>7 DEF FromRequest
<1>10. Registered(batches') = O
  <2>1. O = [r \in {batches'[x].serial : x \in DOMAIN batches'} |-> O[r]]
    BY <1>8
  <2>2. QED
    BY <1>4, <1>8, <1>9, <2>1, RegisteredEq
<1>11. Len(log) < MaxInject /\ UNCHANGED sent
  BY DEF Inject
<1>12. QED
  BY <1>1, <1>10, <1>11 DEF Reg!Receive

\* request_by_id and set_response on a held id are the registry's Answer
\* of the message that issued the id: the id still resolves to that
\* message's batch (HeldLive, UniqueSerials), at a request handed out and
\* not yet answered.
LEMMA AnswerRefines ==
  ASSUME RInv, NEW i \in held, Answer(i)
  PROVE  Reg!Answer(i.serial, i.idx)
<1>. DEFINE tr == batches[i.tk]
            s  == i.serial
            p  == i.idx
            r  == Result(s, p)
            reg == Registered(batches)
            O  == [reg EXCEPT ![s].done = @ \cup {p}]
<1>1. /\ i.tk \in DOMAIN batches
      /\ tr.serial = s
      /\ p \in 1 .. tr.cursor
      /\ IsRequest(tr, p)
      /\ tr.slots[p] = Empty
  BY DEF RInv, IInv, HeldLive
<1>2. TrackerOK(tr) /\ p \in 1 .. Len(tr.calls)
  BY <1>1 DEF RInv, IInv, TypeOK, TrackerOK
<1>3. batches' = [batches EXCEPT ![i.tk] = SetResponse(tr, p, r)]
  BY <1>1, <1>2 DEF Answer, AnswerById, InnerRequestById
<1>4. /\ DOMAIN batches' = DOMAIN batches
      /\ \A x \in DOMAIN batches \ {i.tk} : batches'[x] = batches[x]
      /\ batches'[i.tk].serial = s
      /\ batches'[i.tk].cursor = tr.cursor
      /\ batches'[i.tk].calls = tr.calls
      /\ batches'[i.tk].slots = [tr.slots EXCEPT ![p] = r]
  <2>1. tr = [calls |-> tr.calls, single |-> tr.single, cursor |-> tr.cursor,
              slots |-> tr.slots, user |-> tr.user, serial |-> tr.serial]
    BY <1>2 DEF TrackerOK
  <2>2. QED
    BY <1>1, <1>3, <2>1 DEF SetResponse
<1>5. /\ UniqueSerials(batches)
      /\ DOMAIN reg = {batches[x].serial : x \in DOMAIN batches}
      /\ \A t \in DOMAIN batches : reg[batches[t].serial] = Entry(batches[t])
  BY RegisteredAt DEF RInv
<1>6. /\ s \in DOMAIN reg
      /\ reg[s] = Entry(tr)
  BY <1>1, <1>5
<1>7. p \in Reg!Reqs(s)
  BY <1>1, <1>2 DEF RInv, MatchLog, Reg!Reqs, Reg!Calls, IsRequest
<1>8. p <= reg[s].handed /\ p \notin reg[s].done
  BY <1>1, <1>6 DEF Entry, Filled
<1>9. /\ \A x \in DOMAIN batches' : batches'[x].serial = batches[x].serial
      /\ UniqueSerials(batches')
  <2>1. \A x \in DOMAIN batches' : batches'[x].serial = batches[x].serial
    BY <1>1, <1>4
  <2>2. QED
    BY <1>4, <1>5, <2>1 DEF UniqueSerials
<1>10. Filled(batches'[i.tk]) = Filled(tr) \cup {p}
  <2>1. r # Empty
    BY DEF Result, Empty
  <2>2. QED
    BY <1>2, <1>4, <2>1 DEF Filled, TrackerOK
<1>11. \A t \in DOMAIN batches' : O[batches'[t].serial] = Entry(batches'[t])
  <2>1. O[s] = Entry(batches'[i.tk])
    <3>1. O[s] = [handed |-> tr.cursor, done |-> Filled(tr) \cup {p}]
      <4>1. O[s] = [reg[s] EXCEPT !.done = reg[s].done \cup {p}]
        BY <1>6
      <4>2. reg[s] = [handed |-> tr.cursor, done |-> Filled(tr)]
        BY <1>6 DEF Entry
      <4>3. [[handed |-> tr.cursor, done |-> Filled(tr)] EXCEPT
               !.done = Filled(tr) \cup {p}]
              = [handed |-> tr.cursor, done |-> Filled(tr) \cup {p}]
        BY EntryDone
      <4> HIDE DEF O, reg
      <4>4. QED
        BY <4>1, <4>2, <4>3
    <3>2. QED
      BY <1>4, <1>10, <3>1 DEF Entry
  <2>2. ASSUME NEW t \in DOMAIN batches', t # i.tk
        PROVE  O[batches'[t].serial] = Entry(batches'[t])
    <3>1. batches'[t] = batches[t] /\ batches[t].serial # s
      BY <1>1, <1>4, <1>5, <2>2 DEF UniqueSerials
    <3>2. QED
      BY <1>4, <1>5, <2>2, <3>1
  <2>3. QED
    BY <1>4, <2>1, <2>2
<1>12. Registered(batches') = O
  <2>1. {batches'[x].serial : x \in DOMAIN batches'} = DOMAIN reg
    BY <1>4, <1>5, <1>9
  <2>2. reg = [q \in DOMAIN reg |-> reg[q]]
    BY DEF Registered
  <2>3. O = [q \in {batches'[x].serial : x \in DOMAIN batches'} |-> O[q]]
    BY <2>1, <2>2
  <2>4. UniqueSerials(batches')
    BY <1>9
  <2> HIDE DEF O
  <2>5. QED
    BY <2>4, <1>11, <2>3, RegisteredEq
<1>13. UNCHANGED <<log, sent>>
  BY DEF Answer, AnswerById
<1>14. QED
  BY <1>6, <1>7, <1>8, <1>12, <1>13 DEF Reg!Answer

\* At the serial of a live batch, the registry's view agrees with the
\* tracker: its calls, its requests, its readiness, whether a call is left.
LEMMA AtSerial ==
  ASSUME RInv, NEW t \in DOMAIN batches
  PROVE  LET tr == batches[t]
             s  == tr.serial
         IN  /\ s \in DOMAIN Registered(batches)
             /\ Registered(batches)[s] = Entry(tr)
             /\ Reg!Calls(s) = tr.calls
             /\ Reg!Reqs(s) = RequestsOf(tr)
             /\ Reg!Ready(s) <=> IsReadyToRespond(tr)
             /\ Registered(batches)[s].handed < Len(Reg!Calls(s)) <=> Yields(t)
             /\ Registered(batches)[s].handed = Len(Reg!Calls(s)) <=> ~Yields(t)
<1>. DEFINE tr == batches[t]
            s  == tr.serial
<1>1. /\ s \in DOMAIN Registered(batches)
      /\ Registered(batches)[s] = Entry(tr)
  BY RegisteredAt DEF RInv
<1>2. Reg!Calls(s) = tr.calls
  BY DEF RInv, MatchLog, Reg!Calls
<1>3. Reg!Reqs(s) = RequestsOf(tr)
  BY <1>2 DEF Reg!Reqs, RequestsOf, IsRequest
<1>4. TrackerOK(tr)
  BY DEF RInv, IInv, TypeOK
<1>5. Reg!Ready(s) <=> IsReadyToRespond(tr)
  BY <1>1, <1>2, <1>3, <1>4
  DEF Reg!Ready, IsReadyToRespond, RequestsOf, Entry, Filled, TrackerOK
<1>6. /\ Registered(batches)[s].handed < Len(Reg!Calls(s)) <=> Yields(t)
      /\ Registered(batches)[s].handed = Len(Reg!Calls(s)) <=> ~Yields(t)
  BY <1>1, <1>2, <1>4 DEF Entry, Yields, HasNext, TrackerOK
<1>7. QED
  BY <1>1, <1>2, <1>3, <1>5, <1>6

\* The response next_event returns for a ready batch is the registry's:
\* every request slot holds the result computed for it (AnswersInPlace).
LEMMA ResponseIs ==
  ASSUME RInv, NEW t \in DOMAIN batches, IsReadyToRespond(batches[t])
  PROVE  IntoResponse(batches[t]) = Reg!Response(batches[t].serial)
<1>. DEFINE tr == batches[t]
            s  == tr.serial
<1>1. Reg!Reqs(s) = RequestsOf(tr)
  BY AtSerial
<1>2. \A p \in RequestsOf(tr) : tr.slots[p] = Result(s, p)
  BY DEF RInv, IInv, AnswersInPlace, IsReadyToRespond, RequestsOf
<1>3. [p \in RequestsOf(tr) |-> tr.slots[p]]
        = [p \in Reg!Reqs(s) |-> Reg!Result(s, p)]
  BY <1>1, <1>2 DEF Result, Reg!Result
<1>4. tr.user = log[s].user /\ tr.single = log[s].msg.single
  BY DEF RInv, MatchLog
<1>5. QED
  BY <1>3, <1>4 DEF IntoResponse, Reg!Response

\* Moving a tracker's cursor moves its entry's handed count alone.
LEMMA EntryAdvance ==
  ASSUME NEW tr, TrackerOK(tr), NEW c, NEW d, d = [tr EXCEPT !.cursor = c]
  PROVE  Entry(d) = [handed |-> c, done |-> Filled(tr)]
<1>1. d.calls = tr.calls /\ d.slots = tr.slots /\ d.cursor = c
  BY DEF TrackerOK
<1>2. Filled(d) = Filled(tr)
  BY <1>1 DEF Filled
<1>3. QED
  BY <1>1, <1>2 DEF Entry

\* Removing the batches at tickets R forgets their serials.
LEMMA RegisteredWithout ==
  ASSUME NEW B, UniqueSerials(B), NEW R \in SUBSET DOMAIN B
  PROVE  /\ UniqueSerials(Without(B, R))
         /\ Registered(Without(B, R))
              = Reg!Forget(Registered(B), {B[t].serial : t \in R})
<1>. DEFINE W  == Without(B, R)
            SR == {B[t].serial : t \in R}
            F  == Reg!Forget(Registered(B), SR)
<1>1. UniqueSerials(W)
  BY DEF UniqueSerials, Without
<1>2. /\ DOMAIN W = DOMAIN B \ R
      /\ \A t \in DOMAIN W : W[t] = B[t]
  BY DEF Without
<1>3. /\ DOMAIN Registered(B) = {B[x].serial : x \in DOMAIN B}
      /\ \A t \in DOMAIN B : Registered(B)[B[t].serial] = Entry(B[t])
  BY RegisteredAt
<1>4. \A t \in DOMAIN W : W[t].serial \notin SR
  BY <1>2 DEF UniqueSerials
<1>5. {W[x].serial : x \in DOMAIN W} = DOMAIN Registered(B) \ SR
  BY <1>2, <1>3, <1>4
<1>6. F = [s \in {W[x].serial : x \in DOMAIN W} |-> F[s]]
  BY <1>5 DEF Reg!Forget
<1>7. \A t \in DOMAIN W : F[W[t].serial] = Entry(W[t])
  BY <1>2, <1>3, <1>4 DEF Reg!Forget
<1>. HIDE DEF W, F
<1>8. Registered(W) = F
  BY <1>1, <1>6, <1>7, RegisteredEq
<1>9. QED
  BY <1>1, <1>8 DEF W, F

\* Moving the cursor of the batch at ticket t moves the handed count of
\* its serial.
LEMMA RegisteredAdvance ==
  ASSUME NEW B, UniqueSerials(B), NEW t \in DOMAIN B, NEW c, NEW D,
         DOMAIN D = DOMAIN B,
         \A x \in DOMAIN B \ {t} : D[x] = B[x],
         D[t].serial = B[t].serial,
         Entry(D[t]) = [handed |-> c, done |-> Filled(B[t])]
  PROVE  /\ UniqueSerials(D)
         /\ DOMAIN Registered(D) = DOMAIN Registered(B)
         /\ Registered(D)[B[t].serial]
              = [handed |-> c, done |-> Registered(B)[B[t].serial].done]
         /\ \A q \in DOMAIN Registered(B) \ {B[t].serial} :
              Registered(D)[q] = Registered(B)[q]
<1>. DEFINE s == B[t].serial
<1>1. /\ DOMAIN D = DOMAIN B
      /\ \A x \in DOMAIN B \ {t} : D[x] = B[x]
  OBVIOUS
<1>2. D[t].serial = s
  OBVIOUS
<1>3. Entry(D[t]) = [handed |-> c, done |-> Filled(B[t])]
  OBVIOUS
<1>4. \A x \in DOMAIN D : D[x].serial = B[x].serial
  BY <1>1, <1>2
<1>5. UniqueSerials(D)
  BY <1>1, <1>4 DEF UniqueSerials
<1>6. /\ DOMAIN Registered(B) = {B[x].serial : x \in DOMAIN B}
      /\ \A x \in DOMAIN B : Registered(B)[B[x].serial] = Entry(B[x])
  BY RegisteredAt
<1>7. /\ DOMAIN Registered(D) = {D[x].serial : x \in DOMAIN D}
      /\ \A x \in DOMAIN D : Registered(D)[D[x].serial] = Entry(D[x])
  BY <1>5, RegisteredAt
<1>8. DOMAIN Registered(D) = DOMAIN Registered(B)
  BY <1>1, <1>4, <1>6, <1>7
<1>9. Registered(D)[s] = [handed |-> c, done |-> Registered(B)[s].done]
  <2>1. Registered(D)[s] = [handed |-> c, done |-> Filled(B[t])]
    BY <1>1, <1>2, <1>3, <1>7
  <2>2. Registered(B)[s].done = Filled(B[t])
    <3>1. Registered(B)[s] = Entry(B[t])
      BY <1>6
    <3>2. Entry(B[t]).done = Filled(B[t])
      BY DEF Entry
    <3>3. QED
      BY <3>1, <3>2
  <2>3. QED
    BY <2>1, <2>2
<1>10. ASSUME NEW q \in DOMAIN Registered(B) \ {s}
       PROVE  Registered(D)[q] = Registered(B)[q]
  <2>1. PICK x \in DOMAIN B : q = B[x].serial
    BY <1>6
  <2>2. x # t /\ D[x] = B[x]
    BY <1>1, <2>1
  <2>3. QED
    BY <1>6, <1>7, <2>1, <2>2
<1>11. QED
  BY <1>5, <1>8, <1>9, <1>10

\* Handing out one more call in a registry entry.
LEMMA EntryHanded ==
  ASSUME NEW h, NEW d, NEW e
  PROVE  [[handed |-> h, done |-> d] EXCEPT !.handed = e] = [handed |-> e, done |-> d]
OBVIOUS

\* The batches the scan may drop silently are, seen through their serials,
\* registry entries that are ready and have no request.
LEMMA DroppedOK ==
  ASSUME RInv, NEW dropped \in SUBSET {t \in DOMAIN batches : Drops(t)}
  PROVE  {batches[t].serial : t \in dropped}
           \in SUBSET {q \in DOMAIN Registered(batches) :
                         Reg!Ready(q) /\ Reg!Reqs(q) = {}}
<1>1. ASSUME NEW t \in dropped
      PROVE  LET q == batches[t].serial
             IN  q \in DOMAIN Registered(batches) /\ Reg!Ready(q) /\ Reg!Reqs(q) = {}
  <2>1. IsReadyToRespond(batches[t]) /\ RequestsOf(batches[t]) = {}
    BY DEF Drops, HasRequest, RequestsOf
  <2>2. QED
    BY <2>1, AtSerial
<1>2. QED
  BY <1>1

\* A yielding step of next_event is a Hand step that hands out one call.
LEMMA YieldRefines ==
  ASSUME RInv, NEW dropped \in SUBSET {t \in DOMAIN batches : Drops(t)},
         NEW t \in DOMAIN batches, Yields(t),
         DOMAIN batches' = DOMAIN batches \ dropped,
         \A x \in DOMAIN batches' \ {t} : batches'[x] = batches[x],
         batches'[t].serial = batches[t].serial,
         Entry(batches'[t])
           = [handed |-> batches[t].cursor + 1, done |-> Filled(batches[t])],
         UNCHANGED <<log, sent>>
  PROVE  Reg!Hand
<1>. DEFINE tr  == batches[t]
            s   == tr.serial
            reg == Registered(batches)
            dS  == {batches[x].serial : x \in dropped}
            W   == Without(batches, dropped)
            F   == Reg!Forget(reg, dS)
<1>1. t \notin dropped
  BY DEF Drops, Yields, HasNext, IsReadyToRespond
<1>2. dS \in SUBSET {q \in DOMAIN reg : Reg!Ready(q) /\ Reg!Reqs(q) = {}}
  BY DroppedOK
<1>3. UniqueSerials(W) /\ Registered(W) = F
  BY RegisteredWithout DEF RInv
<1>4. t \in DOMAIN W /\ W[t] = tr /\ TrackerOK(tr)
  BY <1>1 DEF Without, RInv, IInv, TypeOK
<1>5. /\ DOMAIN Registered(batches') = DOMAIN F
      /\ Registered(batches')[s] = [handed |-> tr.cursor + 1, done |-> F[s].done]
      /\ \A q \in DOMAIN F \ {s} : Registered(batches')[q] = F[q]
  <2>1. /\ DOMAIN batches' = DOMAIN W
        /\ \A x \in DOMAIN W \ {t} : batches'[x] = W[x]
        /\ W[t] = tr /\ W[t].serial = s
    BY <1>1, <1>4 DEF Without
  <2>2. /\ batches'[t].serial = W[t].serial
        /\ Entry(batches'[t]) = [handed |-> tr.cursor + 1, done |-> Filled(W[t])]
    BY <1>4
  <2>. HIDE DEF W, F
  <2>3. /\ DOMAIN Registered(batches') = DOMAIN Registered(W)
        /\ Registered(batches')[W[t].serial]
             = [handed |-> tr.cursor + 1, done |-> Registered(W)[W[t].serial].done]
        /\ \A q \in DOMAIN Registered(W) \ {W[t].serial} :
             Registered(batches')[q] = Registered(W)[q]
    BY <1>3, <1>4, <2>1, <2>2, RegisteredAdvance
  <2>4. QED
    BY <1>3, <2>1, <2>3
<1>6. /\ s \in DOMAIN reg
      /\ reg[s] = Entry(tr)
      /\ reg[s].handed < Len(Reg!Calls(s))
  <2>1. s \in DOMAIN reg /\ reg[s] = Entry(tr)
    BY AtSerial
  <2>2. reg[s].handed < Len(Reg!Calls(s)) <=> Yields(t)
    BY AtSerial
  <2>3. QED
    BY <2>1, <2>2
<1>7. s \notin dS
  BY <1>1 DEF RInv, UniqueSerials
<1>8. /\ F = [q \in DOMAIN F |-> F[q]]
      /\ s \in DOMAIN F
      /\ F[s] = [handed |-> tr.cursor, done |-> F[s].done]
  BY <1>6, <1>7 DEF Reg!Forget, Entry
<1>9. Registered(batches') = [F EXCEPT ![s].handed = @ + 1]
  <2>1. [F EXCEPT ![s].handed = @ + 1]
          = [q \in DOMAIN F |->
               IF q = s THEN [handed |-> tr.cursor + 1, done |-> F[s].done]
                        ELSE F[q]]
    <3>1. [F[s] EXCEPT !.handed = F[s].handed + 1]
            = [handed |-> tr.cursor + 1, done |-> F[s].done]
      <4>. DEFINE e == F[s]
      <4>1. e = [handed |-> tr.cursor, done |-> e.done]
        BY <1>8
      <4>2. [e EXCEPT !.handed = e.handed + 1] = [handed |-> tr.cursor + 1, done |-> e.done]
        <5>. HIDE DEF e
        <5>1. [[handed |-> tr.cursor, done |-> e.done] EXCEPT !.handed = tr.cursor + 1]
                = [handed |-> tr.cursor + 1, done |-> e.done]
          BY EntryHanded
        <5>2. e.handed = tr.cursor
          BY <4>1
        <5>3. QED
          BY <4>1, <5>1, <5>2
      <4>3. QED
        BY <4>2
    <3>2. QED
      BY <1>8, <3>1
  <2>2. Registered(batches') = [q \in DOMAIN Registered(batches') |-> Registered(batches')[q]]
    BY DEF Registered
  <2>. HIDE DEF W, F, reg
  <2>3. QED
    BY <1>5, <1>8, <2>1, <2>2
<1>. HIDE DEF reg, F, W
<1>10. QED
  BY <1>2, <1>6, <1>9 DEF Reg!Hand, F, reg

\* A responding step of next_event is a Hand step that sends the response
\* of a ready message with requests and forgets it.
LEMMA RespondRefines ==
  ASSUME RInv, NEW dropped \in SUBSET {t \in DOMAIN batches : Drops(t)},
         NEW t \in DOMAIN batches, Responds(t),
         batches' = Without(batches, dropped \cup {t}),
         sent' = Append(sent, IntoResponse(batches[t])),
         UNCHANGED log
  PROVE  Reg!Hand
<1>. DEFINE tr  == batches[t]
            s   == tr.serial
            reg == Registered(batches)
            dS  == {batches[x].serial : x \in dropped}
<1>1. dS \in SUBSET {q \in DOMAIN reg : Reg!Ready(q) /\ Reg!Reqs(q) = {}}
  BY DroppedOK
<1>2. /\ s \in DOMAIN reg
      /\ Reg!Ready(s)
      /\ Reg!Reqs(s) # {}
  <2>1. IsReadyToRespond(tr) /\ RequestsOf(tr) # {}
    BY DEF Responds, HasRequest, RequestsOf
  <2>2. QED
    BY <2>1, AtSerial
<1>3. {batches[x].serial : x \in dropped \cup {t}} = dS \cup {s}
  OBVIOUS
<1>4. Registered(batches') = Reg!Forget(reg, dS \cup {s})
  BY <1>3, RegisteredWithout DEF RInv
<1>5. IntoResponse(tr) = Reg!Response(s)
  BY ResponseIs DEF Responds
<1>. HIDE DEF reg, dS
<1>6. QED
  BY <1>1, <1>2, <1>4, <1>5 DEF Reg!Hand, reg, dS

\* A step of next_event that finds nothing to hand out or send is the Hand
\* step that forgets every ready message without requests.
LEMMA NoneRefines ==
  ASSUME RInv,
         \A t \in DOMAIN batches : ~Yields(t) /\ ~Responds(t),
         NEW dropped, dropped = {t \in DOMAIN batches : Drops(t)},
         batches' = Without(batches, dropped),
         UNCHANGED <<log, sent>>
  PROVE  Reg!Hand
<1>. DEFINE reg == Registered(batches)
            dS  == {batches[x].serial : x \in dropped}
<1>1. dS \in SUBSET {q \in DOMAIN reg : Reg!Ready(q) /\ Reg!Reqs(q) = {}}
  BY DroppedOK
<1>2. DOMAIN reg = {batches[x].serial : x \in DOMAIN batches}
  BY RegisteredAt DEF RInv
<1>3. ASSUME NEW x \in DOMAIN batches
      PROVE  LET q == batches[x].serial
             IN  /\ reg[q].handed = Len(Reg!Calls(q))
                 /\ ~(Reg!Ready(q) /\ Reg!Reqs(q) # {})
                 /\ (Reg!Ready(q) /\ Reg!Reqs(q) = {}) => x \in dropped
  <2>1. ~Yields(x) /\ ~Responds(x)
    OBVIOUS
  <2>2. Reg!Reqs(batches[x].serial) = {} <=> ~HasRequest(batches[x])
    BY AtSerial DEF HasRequest, RequestsOf
  <2>3. QED
    BY <2>1, <2>2, AtSerial DEF Responds, Drops
<1>4. \A q \in DOMAIN reg :
        /\ reg[q].handed = Len(Reg!Calls(q))
        /\ ~(Reg!Ready(q) /\ Reg!Reqs(q) # {})
  BY <1>2, <1>3
<1>5. dS = {q \in DOMAIN reg : Reg!Ready(q) /\ Reg!Reqs(q) = {}}
  BY <1>1, <1>2, <1>3
<1>6. Registered(batches') = Reg!Forget(reg, dS)
  BY RegisteredWithout DEF RInv
<1>. HIDE DEF reg, dS
<1>7. QED
  BY <1>1, <1>4, <1>5, <1>6 DEF Reg!Hand, reg, dS

\* Every step of next_event is a Hand step of the registry.
LEMMA NextEventRefines ==
  ASSUME RInv, NextEvent
  PROVE  Reg!Hand
<1>1. PICK dropped \in SUBSET {t \in DOMAIN batches : Drops(t)} :
        /\ \/ \E t \in DOMAIN batches :
                /\ Yields(t)
                /\ batches' = [Without(batches, dropped) EXCEPT
                                 ![t].cursor = batches[t].cursor + 1]
                /\ UNCHANGED sent
           \/ \E t \in DOMAIN batches :
                /\ Responds(t)
                /\ batches' = Without(batches, dropped \cup {t})
                /\ sent' = Append(sent, IntoResponse(batches[t]))
           \/ /\ \A t \in DOMAIN batches : ~Yields(t) /\ ~Responds(t)
              /\ dropped = {t \in DOMAIN batches : Drops(t)}
              /\ batches' = Without(batches, dropped)
              /\ UNCHANGED sent
        /\ UNCHANGED log
  BY DEF NextEvent
<1>2. CASE \E t \in DOMAIN batches :
             /\ Yields(t)
             /\ batches' = [Without(batches, dropped) EXCEPT
                              ![t].cursor = batches[t].cursor + 1]
             /\ UNCHANGED sent
  <2>1. PICK t \in DOMAIN batches :
               /\ Yields(t)
               /\ batches' = [Without(batches, dropped) EXCEPT
                                ![t].cursor = batches[t].cursor + 1]
               /\ UNCHANGED sent
    BY <1>2
  <2>. DEFINE tr == batches[t]
  <2>2. t \notin dropped /\ TrackerOK(tr)
    BY <2>1 DEF Drops, Yields, HasNext, IsReadyToRespond, RInv, IInv, TypeOK
  <2>3. /\ DOMAIN batches' = DOMAIN batches \ dropped
        /\ \A x \in DOMAIN batches' \ {t} : batches'[x] = batches[x]
        /\ batches'[t] = [tr EXCEPT !.cursor = tr.cursor + 1]
    BY <2>1, <2>2 DEF Without
  <2>4. /\ batches'[t].serial = tr.serial
        /\ Entry(batches'[t]) = [handed |-> tr.cursor + 1, done |-> Filled(tr)]
    <3>. DEFINE d == batches'[t]
    <3>1. d = [tr EXCEPT !.cursor = tr.cursor + 1]
      BY <2>3
    <3>. HIDE DEF d
    <3>2. d.serial = tr.serial
      BY <2>2, <3>1, AdvanceKeeps
    <3>3. Entry(d) = [handed |-> tr.cursor + 1, done |-> Filled(tr)]
      BY <2>2, <3>1, EntryAdvance
    <3>4. QED
      BY <3>2, <3>3 DEF d
  <2>5. Yields(t) /\ UNCHANGED <<log, sent>>
    BY <1>1, <2>1
  <2>6. QED
    BY <2>3, <2>4, <2>5, YieldRefines
<1>3. CASE \E t \in DOMAIN batches :
             /\ Responds(t)
             /\ batches' = Without(batches, dropped \cup {t})
             /\ sent' = Append(sent, IntoResponse(batches[t]))
  BY <1>1, <1>3, RespondRefines
<1>4. CASE /\ \A t \in DOMAIN batches : ~Yields(t) /\ ~Responds(t)
           /\ dropped = {t \in DOMAIN batches : Drops(t)}
           /\ batches' = Without(batches, dropped)
           /\ UNCHANGED sent
  BY <1>1, <1>4, NoneRefines
<1>5. QED
  BY <1>1, <1>2, <1>3, <1>4

-----------------------------------------------------------------------------
(* The refinement.                                                         *)

\* BatchesState::new is an empty registry.
LEMMA InitRefines == Init => Reg!Init
BY DEF Init, Reg!Init, Registered

\* Every step of the host and the server is a step of the registry or
\* leaves the registry's state alone.
LEMMA StepRefines ==
  ASSUME RInv, [Next]_vars
  PROVE  [Reg!Next]_Reg!vars
<1>1. CASE \E m \in Msgs, u \in Users : Inject(m, u)
  BY <1>1, InjectRefines DEF Reg!Next
<1>2. CASE NextEvent
  BY <1>2, NextEventRefines DEF Reg!Next
<1>3. CASE \E i \in held : Answer(i)
  <2>1. PICK i \in held : Answer(i)
    BY <1>3
  <2>2. Reg!Answer(i.serial, i.idx)
    BY <2>1, AnswerRefines
  <2>3. QED
    BY <2>2 DEF Reg!Next, Reg!Answer
<1>4. CASE UNCHANGED vars
  BY <1>4 DEF vars, Reg!vars
<1>5. QED
  BY <1>1, <1>2, <1>3, <1>4 DEF Next

\* BatchesState, with the host's answers, implements the Registry: seen
\* through the serials of the live batches, every inject opens one message,
\* every next_event hands out one call of an open message, sends the
\* response of a ready one or forgets one that needs none, and every
\* answer fills the slot of a request that was handed out and not answered.
\* This is the property RegistryRefined, which the batches runs check.
THEOREM Refinement == Spec => RegistryRefined
<1>1. Init => RInv
  BY InitRInv
<1>2. RInv /\ [Next]_vars => RInv'
  BY NextRInv
<1>3. RInv /\ [Next]_vars => [Reg!Next]_Reg!vars
  BY StepRefines
<1>4. Init => Reg!Init
  BY InitRefines
<1>5. QED
  BY <1>1, <1>2, <1>3, <1>4, PTL DEF Spec, RegistryRefined, Reg!Spec

=============================================================================
