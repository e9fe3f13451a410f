------------------------------ MODULE Batches ------------------------------
(***************************************************************************)
(* The batch-multiplexing core of the JSON-RPC server:                     *)
(* BatchesState<T> of jsonrpsee/src/raw/server/batches.rs, together with   *)
(* the per-message tracker batch::BatchState it stores (batch.rs is not    *)
(* part of src/, so the tracker operators are modelled from the spec).     *)
(*                                                                         *)
(* Data is abstracted: a call is only its kind ("notif" or "req"), a user  *)
(* parameter is a model value, and the result the host gives a request is  *)
(* a tag naming the request it was computed for, so that a result that     *)
(* lands in the wrong slot is visible.  Ghost variables record what the    *)
(* host was given (log, issued, answered, sent); the code keeps none.      *)
(***************************************************************************)
EXTENDS Naturals, Sequences, FiniteSets

CONSTANTS
  Msgs,       \* decoded client messages the host may inject
  Users,      \* user parameters T passed to inject
  IdBits,     \* width of next_batch_id (u64 in the code)
  MaxLen,     \* bound on the number of calls of a message
  MaxInject   \* bound on the number of inject calls of a behaviour

CallKinds == {"notif", "req"}

\* A decoded common::Request: Single(call) or Batch(calls).
Message == [single : BOOLEAN, calls : Seq(CallKinds)]

\* The values a u64 of IdBits bits can take; wrapping_add is + 1 modulo.
NumIds == 2 ^ IdBits
Tickets == 0 .. (NumIds - 1)

ASSUME BoundsAssumption ==
  /\ IdBits \in Nat \ {0}
  /\ NumIds \in Nat \ {0}
  /\ MaxLen \in Nat
  /\ MaxInject \in Nat

ASSUME MsgsAssumption ==
  /\ Msgs \subseteq Message
  /\ \A m \in Msgs : Len(m.calls) <= MaxLen
  /\ \A m \in Msgs : m.single => Len(m.calls) = 1

Serials == 1 .. MaxInject
Positions == 1 .. MaxLen

\* The result the host hands set_response, abstracted to the request
\* (serial of its batch, position in the batch) it was computed for.
Result(s, p) == [serial |-> s, pos |-> p]
Results == [serial : Serials, pos : Positions]
Empty == [empty |-> TRUE]

VARIABLES
  nextBatchId,  \* BatchesState::next_batch_id
  batches,      \* BatchesState::batches : live ticket -> tracker
  log,          \* ghost: the i-th inject call, [msg, user]
  issued,       \* ghost: every BatchesElemId handed to the host
  answered,     \* ghost: the ids the host has answered
  sent          \* ghost: the ReadyToSend events, in order

vars == <<nextBatchId, batches, log, issued, answered, sent>>

-----------------------------------------------------------------------------
(* The tracker batch::BatchState (spec section 4.1).                       *)

\* BatchState::from_request: every call unyielded, every slot empty.
\* serial is a ghost field naming the inject call that created it.
FromRequest(m, u, s) ==
  [calls  |-> m.calls,
   single |-> m.single,
   cursor |-> 0,
   slots  |-> [p \in 1 .. Len(m.calls) |-> Empty],
   user   |-> u,
   serial |-> s]

IsRequest(tr, p) == tr.calls[p] = "req"

HasRequest(tr) == \E p \in 1 .. Len(tr.calls) : IsRequest(tr, p)


\* BatchState::next would return Some.
HasNext(tr) == tr.cursor < Len(tr.calls)

\* Mutant: readiness that forgets the unanswered requests.
IsReadyToRespondCursorOnly(tr) == tr.cursor = Len(tr.calls)

\* BatchState::is_ready_to_respond.
IsReadyToRespond(tr) ==
  /\ tr.cursor = Len(tr.calls)
  /\ \A p \in 1 .. Len(tr.calls) : IsRequest(tr, p) => tr.slots[p] # Empty

RequestsOf(tr) == {p \in 1 .. Len(tr.calls) : IsRequest(tr, p)}

\* BatchState::into_response when ready: None (represented by the
\* absence of a ReadyToSend) for a message without requests, otherwise
\* Single(output) or Batch(outputs) with one output per request.  The Vec
\* of outputs is represented by the function from the positions of the
\* requests in the message, read in increasing position, to their outputs.
IntoResponse(tr) ==
  [serial  |-> tr.serial,
   user    |-> tr.user,
   single  |-> tr.single,
   outputs |-> [p \in RequestsOf(tr) |-> tr.slots[p]]]

\* BatchState::request_by_id(p) returns Some.
InnerRequestById(tr, p) ==
  /\ p \in 1 .. Len(tr.calls)
  /\ IsRequest(tr, p)
  /\ tr.slots[p] = Empty

\* Mutant: the slot after the addressed one is written.
SetResponseNext(tr, p, r) == [tr EXCEPT !.slots[p + 1] = r]

\* BatchElem::set_response: fills the slot once.
SetResponse(tr, p, r) == [tr EXCEPT !.slots[p] = r]

-----------------------------------------------------------------------------
(* BatchesState.                                                           *)

\* BatchesElem::id, a BatchesElemId { outer, inner }; serial is ghost.
ElemId(t, p, s) == [tk |-> t, idx |-> p, serial |-> s]

ElemIds == [tk : Tickets, idx : Positions, serial : Serials]

\* The ids the host still holds: handed out and not yet answered.
held == issued \ answered

\* BatchesState::new.
Init ==
  /\ nextBatchId = 0
  /\ batches = [t \in {} |-> Empty]
  /\ log = << >>
  /\ issued = {}
  /\ answered = {}
  /\ sent = << >>

\* Mutant: HashMap::get_mut where remove was meant; nothing leaves the map.
WithoutKeep(f, S) == f

\* Removing keys from the map.
Without(f, S) == [t \in DOMAIN f \ S |-> f[t]]

\* Mutant: the probe adds without wrapping at 2^IdBits.
CandidateNoWrap(k) == nextBatchId + k

\* The inject loop: the k-th candidate id is next_batch_id + k (wrapping);
\* an Occupied entry makes it try the next one.
Candidate(k) == (nextBatchId + k) % NumIds

FreeOffsets == {k \in 0 .. (NumIds - 1) : Candidate(k) \notin DOMAIN batches}

\* Mutant: inject that inserts at next_batch_id without the Occupied
\* check (HashMap::insert instead of entry), replacing a live batch.
InjectOverwrite(m, u) ==
  /\ Len(log) < MaxInject
  /\ LET id == nextBatchId
         s  == Len(log) + 1
     IN  /\ batches' = [t \in DOMAIN batches \cup {id} |->
                          IF t = id THEN FromRequest(m, u, s) ELSE batches[t]]
         /\ nextBatchId' = (id + 1) % NumIds
         /\ log' = Append(log, [msg |-> m, user |-> u])
  /\ UNCHANGED <<issued, answered, sent>>

\* BatchesState::inject(request, user_param).  The loop stops at the
\* first free candidate k: every earlier one was Occupied.  When every id
\* is taken the loop never ends; the model has no step for it.  The
\* shrink_to_fit on id % 256 = 0 changes only capacity, not modelled.
Inject(m, u) ==
  /\ Len(log) < MaxInject
  /\ \E k \in FreeOffsets :
       /\ \A j \in 0 .. (k - 1) : j \notin FreeOffsets
       /\ LET id == Candidate(k)
              s  == Len(log) + 1
          IN  /\ batches' = [t \in DOMAIN batches \cup {id} |->
                               IF t = id THEN FromRequest(m, u, s)
                                         ELSE batches[t]]
              /\ nextBatchId' = (id + 1) % NumIds
              /\ log' = Append(log, [msg |-> m, user |-> u])
  /\ UNCHANGED <<issued, answered, sent>>

\* Mutant: a ready batch whose into_response is None is taken for Nothing.
DropsNever(t) == FALSE

\* The classification WhatCanWeDo of one batch during the scan.
Yields(t) == HasNext(batches[t])
Responds(t) == IsReadyToRespond(batches[t]) /\ HasRequest(batches[t])
Drops(t) == IsReadyToRespond(batches[t]) /\ ~HasRequest(batches[t])

\* BatchesState::next_event.  The keys are visited in the hash map's
\* order, which the model leaves open: the batches visited before the one
\* that produces the event are either Nothing (left alone) or are ready
\* without a response (removed silently), so any set `dropped` of the
\* latter may be removed on the way.  When no batch produces an event, all
\* of the latter are removed and None is returned.
NextEvent ==
  \E dropped \in SUBSET {t \in DOMAIN batches : Drops(t)} :
    \/ \E t \in DOMAIN batches :
         /\ Yields(t)
         /\ LET tr == batches[t]
                p  == tr.cursor + 1
            IN  /\ batches' = [Without(batches, dropped) EXCEPT
                                 ![t].cursor = p]
                /\ issued' = IF IsRequest(tr, p)
                               THEN issued \cup {ElemId(t, p, tr.serial)}
                               ELSE issued
         /\ UNCHANGED sent
    \/ \E t \in DOMAIN batches :
         /\ Responds(t)
         /\ batches' = Without(batches, dropped \cup {t})
         /\ sent' = Append(sent, IntoResponse(batches[t]))
         /\ UNCHANGED issued
    \/ /\ \A t \in DOMAIN batches : ~Yields(t) /\ ~Responds(t)
       /\ dropped = {t \in DOMAIN batches : Drops(t)}
       /\ batches' = Without(batches, dropped)
       /\ UNCHANGED <<issued, sent>>
  /\ UNCHANGED <<nextBatchId, log, answered>>

\* BatchesState::request_by_id(id) followed by set_response on the
\* returned handle.  When request_by_id returns None nothing changes.
AnswerById(i) ==
  /\ IF i.tk \in DOMAIN batches /\ InnerRequestById(batches[i.tk], i.idx)
       THEN batches' = [batches EXCEPT
                          ![i.tk] = SetResponse(@, i.idx, Result(i.serial, i.idx))]
       ELSE UNCHANGED batches
  /\ answered' = answered \cup {i}
  /\ UNCHANGED <<nextBatchId, log, issued, sent>>

\* The host answers a request it holds, once.
Answer(i) == i \in held /\ AnswerById(i)

\* A host that times a request out and answers it, then answers it again
\* when the late result arrives (spec section 5).
LateAnswer(i) == i \in answered /\ AnswerById(i)

Next ==
  \/ \E m \in Msgs, u \in Users : Inject(m, u)
  \/ NextEvent
  \/ \E i \in held : Answer(i)

\* The host calls next_event in a loop (the usage notes of BatchesState)
\* and eventually answers every request it was handed.
Fairness ==
  /\ WF_vars(NextEvent)
  /\ \A i \in ElemIds : WF_vars(Answer(i))

Spec == Init /\ [][Next]_vars /\ Fairness

NextWithRetry == Next \/ \E i \in answered : LateAnswer(i)

RetrySpec == Init /\ [][NextWithRetry]_vars

-----------------------------------------------------------------------------
(* Properties.                                                             *)

TrackerOK(tr) ==
  /\ tr = [calls |-> tr.calls, single |-> tr.single, cursor |-> tr.cursor,
           slots |-> tr.slots, user |-> tr.user, serial |-> tr.serial]
  /\ tr.calls \in Seq(CallKinds)
  /\ Len(tr.calls) <= MaxLen
  /\ tr.single \in BOOLEAN
  /\ tr.cursor \in 0 .. Len(tr.calls)
  /\ tr.slots \in [1 .. Len(tr.calls) -> Results \cup {Empty}]
  /\ tr.user \in Users
  /\ tr.serial \in Serials

\* Type invariant.
TypeOK ==
  /\ nextBatchId \in Tickets
  /\ DOMAIN batches \subseteq Tickets
  /\ \A t \in DOMAIN batches : TrackerOK(batches[t])
  /\ log \in Seq([msg : Msgs, user : Users])
  /\ Len(log) <= MaxInject
  /\ issued \subseteq ElemIds
  /\ answered \subseteq issued
  /\ sent \in Seq([serial : Serials, user : Users, single : BOOLEAN,
                    outputs : UNION {[S -> Results \cup {Empty}] :
                                       S \in SUBSET Positions}])

\* Every result set_response stored sits in the slot of the request it
\* was computed for: the slot of a request of the live batch at ticket t
\* holds nothing or the result for (that batch, that position), and no
\* notification slot is ever written.  A BatchesElemId that resolves to a
\* batch other than the one that issued it breaks this.
AnswersInPlace ==
  \A t \in DOMAIN batches :
    \A p \in 1 .. Len(batches[t].calls) :
      \/ batches[t].slots[p] = Empty
      \/ /\ IsRequest(batches[t], p)
         /\ batches[t].slots[p] = Result(batches[t].serial, p)

\* Every id the host holds names the live batch that issued it, at a
\* request it has already been handed, whose slot is still empty.
HeldLive ==
  \A i \in held :
    /\ i.tk \in DOMAIN batches
    /\ batches[i.tk].serial = i.serial
    /\ i.idx \in 1 .. batches[i.tk].cursor
    /\ IsRequest(batches[i.tk], i.idx)
    /\ batches[i.tk].slots[i.idx] = Empty

\* No slot beyond the cursor has been written.
UnyieldedEmpty ==
  \A t \in DOMAIN batches :
    \A p \in (batches[t].cursor + 1) .. Len(batches[t].calls) :
      batches[t].slots[p] = Empty

\* The inductive strengthening of AnswersInPlace.
IInv == TypeOK /\ AnswersInPlace /\ HeldLive /\ UnyieldedEmpty

\* The batch that the ghost serial s names is still in the map.
Live(s) == \E t \in DOMAIN batches : batches[t].serial = s

RequestPositions(m) == {p \in 1 .. Len(m.calls) : m.calls[p] = "req"}

\* A ReadyToSend response is the one its client message asked for: it is
\* sent only for a message with at least one request, to the user_param
\* passed with that message, with one output per request of the message,
\* in the request's position, and that output is the result computed for
\* that very request, whatever the order the requests were answered in.
\* A result that lands in the slot of another request (a stale
\* BatchesElemId resolving to a newer batch) or a batch retired before
\* all its requests are answered breaks it.
ResponseFaithful ==
  \A k \in 1 .. Len(sent) :
    LET r == sent[k]
        m == log[r.serial].msg
        P == RequestPositions(m)
    IN  /\ P # {}
        /\ r.user = log[r.serial].user
        /\ r.single = m.single
        /\ r.outputs = [p \in P |-> Result(r.serial, p)]

\* A client message gets at most one ReadyToSend over the whole run: a
\* batch is retired in the same next_event call that emits its response.
AtMostOneResponse ==
  \A i, j \in 1 .. Len(sent) : sent[i].serial = sent[j].serial => i = j

\* inject never takes a ticket that a live batch holds, even after
\* next_batch_id wraps around: a live ticket keeps naming the same batch
\* until that batch is retired.
BatchIdentity ==
  [][\A t \in DOMAIN batches \cap DOMAIN batches' :
        batches'[t].serial = batches[t].serial]_vars

Completed(s) ==
  /\ s <= Len(log)
  /\ ~Live(s)
  /\ RequestPositions(log[s].msg) # {} =>
       \E k \in 1 .. Len(sent) : sent[k].serial = s

\* Every injected message is eventually retired by next_event, with a
\* ReadyToSend exactly when it holds a request: calls are all yielded,
\* empty and notification-only batches do not linger in the map, and a
\* batch whose requests are answered is sent.
BatchCompletes ==
  \A s \in Serials : (s <= Len(log)) ~> Completed(s)

-----------------------------------------------------------------------------
(* Refinement: BatchesState implements the ticket-free Registry.           *)

\* The positions whose slot set_response has filled.
Filled(tr) == {p \in 1 .. Len(tr.calls) : tr.slots[p] # Empty}

\* What the registry knows of a tracker: how many calls were handed out
\* and which were answered.
Entry(tr) == [handed |-> tr.cursor, done |-> Filled(tr)]

\* A ticket map seen through the serials of its batches.
Registered(B) ==
  [s \in {B[t].serial : t \in DOMAIN B} |->
     Entry(B[CHOOSE t \in DOMAIN B : B[t].serial = s])]

Reg == INSTANCE Registry WITH open <- Registered(batches)

\* Seen through its serials, the ticket map behaves as the registry keyed
\* by message: inject never lets two live messages share a ticket (the
\* probe skips occupied ones across the wrap of next_batch_id), an answer
\* by BatchesElemId lands on the message that issued the id, next_event
\* retires exactly the messages the registry forgets, and every response
\* sent is the one its message asked for.
RegistryRefined == Reg!Spec

=============================================================================
