# Verification of plibra-experimental

TLA+ models of the two stateful programs under `src/`, model-checked with TLC
and, for the batch registry, proved with TLAPS.

## The system

The repository holds two programs. They do not interact.

* **The JSON-RPC batch registry.** `src/jsonrpsee/src/raw/server/batches.rs`
  defines `BatchesState`. It is the core of the raw JSON-RPC server, and it
  owns every client message in flight:
  * `inject` stores a decoded message under a fresh ticket (`next_batch_id`,
    wrapping, skipping tickets still in use);
  * `next_event` scans the open batches and does one of three things: hands
    out the next notification or request; returns the assembled response of
    a batch whose requests are all answered, retiring it; or silently drops
    a finished batch that has no response;
  * `request_by_id` with `BatchesElem::set_response` lets the host answer a
    request later, by its `BatchesElemId` (ticket, index).

  The per-message tracker `batch::BatchState` is not part of the
  repository. It is modelled from spec section 4.1.
* **The Diem bridge.** `src/src/main.rs` is a single async task. It
  initialises a trusted ledger state (`init_state`), then loops on
  `sync_account`. Each round:
  1. reads the hard-coded account;
  2. forwards the account data to the pRuntime enclave;
  3. fetches the account's received events and sent transactions;
  4. for every one not seen before, fetches a proof (`get_transaction_proof`)
     and forwards it (`VerifyTransaction`).

  Any JSON-RPC or pRuntime call may fail.

## Modules

| module | models | state | actions |
|---|---|---|---|
| `Batches` | `BatchesState`, `BatchesElem`, the tracker of batch.rs (from the spec) | `nextBatchId`, `batches` (ticket ↦ tracker), and four ghost variables: `log` (what was injected), `issued`/`answered` (ids the host was handed and has answered), `sent` (the responses returned) | `Inject(m,u)`, `NextEvent`, `Answer(i)`; `LateAnswer(i)` only in `RetrySpec` |
| `Registry` | what the registry promises, with no tickets: a set of open messages keyed by the number of the inject that opened them | `open` (serial ↦ calls handed out, requests answered), `log`, `sent` | `Receive(m,u)`, `Hand`, `Answer(s,p)` |
| `BatchesProofs` | theorems about `Batches` | | |
| `BatchesRefinement` | the proof that `Batches` implements `Registry` | | |
| `BatchesSentProofs` | theorems about the responses `Batches` sends and the serials it keeps | | |
| `DiemBridge` | `DiemBridge` in main.rs | `chain` (the ledger: the kind of each version), `pc`, `trusted`, `seqNum`, `receivedEvents`, `transactions`, `fetched`, `todo`, `forwarded` (ghost), `faults` | `Commit(k)` (environment), `Start`, `SyncAccount`, `SyncReceiving`, `ReceiveOne`, `ReceiveDone`, `SyncSent`, `SendOne`, `SentDone`, `Exited` |
| `DiemBridgeProofs` | theorems about `DiemBridge` | | |
| `MCBatches`, `MCDiemBridge` | the constants the runs use | | |

### Batches: how the model maps to the code

* A tracker is a record:
  * `calls`: a sequence of `"req"`/`"notif"`;
  * `cursor`: how many calls `next` has returned;
  * `slots`: position ↦ `Empty` or a result;
  * `single`, `user`;
  * a ghost `serial`: the number of the inject that created it, so a
    misrouted answer can be seen.
* A result is `Result(serial, pos)`: the answer computed for request `pos`
  of the batch with that serial. JSON values are abstracted away.
* `Inject` is the whole probe loop: it takes the first offset `k` whose
  candidate ticket is free (`FreeOffsets`) and advances `next_batch_id`
  past it with wrapping. `shrink_to_fit` changes only capacity.
* `NextEvent` is one whole call of `next_event`. The hash map's key order
  is not specified, so the model chooses any set `dropped` of the batches
  that are ready without a response. These are the ones the scan may
  remove before reaching the batch that yields the event. If no batch
  yields anything, all of them are removed and `None` is returned.
* `Answer(i)` is `request_by_id(i)` followed by `set_response`. If the
  ticket is gone or the slot is taken, nothing changes. In all cases the
  host no longer holds `i`.

### Registry and the refinement mapping

`Registry` states what the registry does for its host, without tickets.
* `Receive` opens a message.
* `Hand` does one of three things, after forgetting any set of ready
  messages without requests:
  * hands out the next call of an open message;
  * sends the response of a ready message with requests and forgets it;
  * when nothing is left to hand out or send, forgets every ready message
    without requests.
* `Answer(s,p)` records the answer to a request that was handed out and
  not yet answered.

The response of a message carries exactly the result computed for each of
its requests.

`Batches` defines the mapping `Registered(batches)`. It sees each live
tracker through its ghost serial: the entry is the cursor (`handed`) and
the set of filled slots (`done`). `Reg == INSTANCE Registry WITH open <-
Registered(batches)`, and the property `RegistryRefined == Reg!Spec` is
checked by both batch runs and proved in `BatchesRefinement`. Tickets,
their reuse and the probe loop are what the refinement hides. A run with
`Inject` overwriting a live ticket (the mutant `InjectOverwrite`) breaks it.

### DiemBridge: how the model maps to the code

* The ledger is a sequence of kinds:
  * `"sent"` is a user transaction of the account (one per sequence number);
  * `"recv"` is a payment to it (one received event).
* `FirstN(S, n)` is a JSON-RPC list request from 0 with limit `n`.
* Every call that can fail has a failure branch. It is enabled only at the
  points in `FailPoints` and while fewer than `MaxFaults` calls have failed.
* `Ratchet` is `init_state` once its state proof arrived. The trusted state
  is reset to genesis (version 0), then `verify_state_proof` moves it to
  the latest version. The result of the verification is ignored
  (`let _ =`). So with the fail point `"verify"` the trusted version stays
  at 0.
* The control follows the code:
  * a failure returned with `?` ends the round (`pc' = "idle"`);
  * a failure only printed skips the one transaction;
  * `init_state(None)` runs whenever the fetched list has new entries;
  * the fetched list is stored only when its loop finishes.
* A failure at start-up ends the bridge (`Exited`), as `bridge()` returns.

## Runs

| run | cfg | checks | result |
|---|---|---|---|
| batches | `MCBatches.cfg` | `AnswersInPlace`, `ResponseFaithful`, `AtMostOneResponse`, `BatchIdentity`, `BatchCompletes`, `RegistryRefined` | pass, 40,575 states |
| batches_wrap | `MCBatchesWrap.cfg` | `TypeOK`, `AnswersInPlace`, `ResponseFaithful`, `BatchIdentity`, `RegistryRefined` | pass, 92,401 states |
| batches_retry | `MCBatchesRetry.cfg` | `ResponseFaithful` under `RetrySpec` | violation (finding 1) |
| bridge | `MCDiemBridge.cfg` | `SeenForwarded`, `SentForwarded` | pass, 2,671 states |
| bridge_faults | `MCDiemBridgeFaults.cfg` | `SentSettled` with every call but the state-proof verification allowed to fail | pass, 4,258 states |
| bridge_received | `MCDiemBridgeReceived.cfg` | `ReceivedForwarded`, no failures | violation (finding 2) |
| bridge_lost | `MCDiemBridgeLost.cfg` | `SeenForwarded`, only per-transaction fetches fail | violation (finding 3) |
| bridge_unverified | `MCDiemBridgeUnverified.cfg` | `TrustedMonotonic`, the state proof may fail to verify | violation (finding 4) |

What the properties say:

* `AnswersInPlace`: every filled slot holds the result computed for that
  very request of that very batch.
* `ResponseFaithful`: every response returned belongs to a batch that was
  injected. It carries that batch's user and single/batch form, and it
  holds exactly one result per request, each the one computed for it, in
  request order.
* `AtMostOneResponse`: no batch responds twice.
* `BatchIdentity` (action): a live ticket never changes batch.
* `BatchCompletes` (liveness): every injected batch is eventually
  retired, with its response or silently.
* `RegistryRefined` (refinement): the ticket map, seen through serials, is
  a behaviour of `Registry`.
* `SeenForwarded`: nothing is stored as seen unless it was forwarded.
* `TrustedMonotonic` (action): the trusted ledger version never moves back.
  Only the bridge_unverified run checks it. While state proofs verify,
  every change of `trusted` sets it to the ledger length, which only
  grows, so there it would hold whatever the code does.
* `SentSettled` (liveness): every sent transaction is eventually stored
  as seen, forwarded or not, unless the bridge ended. This holds even when
  the per-transaction fetches fail, so it shows that failures never stop
  the rounds from reaching a transaction. The request limit read at the
  start of a round must not leave a later transaction behind.
* `SentForwarded`, `ReceivedForwarded` (liveness): every sent transaction
  (received payment) is eventually forwarded, unless the bridge ended.

**Bounds.** The batch runs use `IdBits = 1`, i.e. two tickets.
* With three injects the ticket wraps round, and the probe's `k = 1` case
  (ticket 0 still live) occurs.
* The wrap run uses six injects of short request batches, so
  `next_batch_id` comes round to a live ticket repeatedly, with both
  tickets live at once.
* The messages are those of the unit tests in batches.rs, plus the
  mixed batch of spec section 8.

The bridge runs let the ledger grow to three versions, which is enough for
a sent transaction to precede a received one, and for either to be
committed while a round is under way. They allow two failures, enough for
a failure to interrupt a loop after one transaction was forwarded. Every
mutant listed in PROJECT.json is caught under these bounds.

**Fairness.**
* `WF_vars(NextEvent)`: the host calls `next_event` in a loop (the usage
  notes of `BatchesState`).
* `WF_vars(Answer(i))`: the host eventually answers each request it was
  handed. This is an assumption about the host; nothing in `src/`
  guarantees it.
* `WF_vars(BridgeStep)`: the bridge is one task whose loop never stops
  while the process lives.
* Failures are bounded by `MaxFaults` rather than by a fairness
  condition. This stands for a node and an enclave that eventually answer.

## Findings

1. **Stale answer after ticket reuse** (`batches.rs:226`, run
   batches_retry). `request_by_id` resolves by ticket and index alone.
   After a batch retires and its ticket is reused, a late second answer to
   the old id fills the new batch's slot. The new batch then sends a
   result computed for a different request. With the code's u64 ticket,
   the reuse takes 2^64 injects while the host still holds the old id;
   the model shrinks the ticket to one bit (spec section 3 puts the
   wrap-around in scope). Spec sections 4.2 and 8 say an
   answered id no longer resolves, and a double answer alters nothing.
2. **Received payments are not synced** (`main.rs:292`, `main.rs:264`, run
   bridge_received). Received events are requested with limit
   `sequence_number`, which counts *sent* transactions. They are not
   requested at all when that is 0.
3. **A failed fetch loses a transaction** (`main.rs:319`, `main.rs:388`,
   `main.rs:323`, run bridge_lost). The error is printed, and the whole
   list is then stored as seen, so no later round retries it.
4. **An unverified state proof resets the trust** (`main.rs:201`, run
   bridge_unverified). `init_state` resets the trusted state to genesis
   and ignores the result of `verify_state_proof`. A proof that does not
   verify leaves the trusted version at 0, which the `ensure!` of
   `verify_state_proof` (`main.rs:141`) says must never happen.

## Proofs (TLAPS)

Every theorem below holds for all values of the constants. The batch
theorems rest on `BoundsAssumption` and `MsgsAssumption`: the ticket bits
are positive, the bounds are naturals, and the messages are well formed
with single messages of one call. The bridge theorems rest on
`BridgeAssumption`.

### `BatchesProofs`

* `TypeCorrect`: `Spec => []TypeOK`. `TypeOK` is inductive by itself.
  There is one lemma per action (`InjectTypeOK`, `NextEventTypeOK`,
  `AnswerTypeOK`).
* `AnswersInPlaceHolds`: `Spec => []AnswersInPlace`. `AnswersInPlace` is
  not inductive, because an `Answer` step could hit a filled slot or a
  retired batch. The proof uses the strengthening
  `IInv == TypeOK /\ AnswersInPlace /\ HeldLive /\ UnyieldedEmpty`:
  * `HeldLive`: every id the host holds names a live batch with the same
    serial, at a yielded request whose slot is still empty;
  * `UnyieldedEmpty`: no slot beyond the cursor is filled.

  `IInv` was model-checked as an invariant on the batches and batches_wrap
  instances before it was proved; it is not a run property, since its
  extra conjuncts only serve the proof. The induction has
  one lemma per action:
  * `InjectRest`: the new ticket was free;
  * `YieldRest`, via `HeldNotReady`: a batch with a held id is not ready,
    so the scan never removes it;
  * `RemoveRest`;
  * `AnswerRest`: another held id at the same ticket and index would
    have the same serial, so it is the same id.

### `BatchesRefinement`

`Refinement`: `Spec => RegistryRefined`. The invariant is
`RInv == IInv /\ UniqueSerials(batches) /\ SerialsLogged /\ MatchLog`.
* No two live batches share a serial, so `Registered` is well defined.
* Every live serial names an inject in `log`, and the batch holds that
  inject's calls, form and user. So the registry's `Calls`, `Reqs`,
  `Ready` and `Response` at a serial equal the tracker's.

The argument has three parts:
* lemmas on the mapping: `RegisteredAt`, `RegisteredEq`,
  `RegisteredWithout` (removing tickets forgets their serials) and
  `RegisteredAdvance` (moving one cursor moves one `handed`);
* `NextRInv`: `RInv` is inductive;
* one simulation lemma per action:
  * `InjectRefines`: `Inject` is `Receive`;
  * `NextEventRefines`, through `YieldRefines`, `RespondRefines` and
    `NoneRefines`: `NextEvent` is `Hand`, with the dropped tickets'
    serials as the forgotten set;
  * `AnswerRefines`: `Answer` is the registry's `Answer`.

`ResponseIs` shows that `IntoResponse` is the registry's `Response`.
That rests on `AnswersInPlace`, so the refinement also carries the
proof that results are never misrouted.

### `BatchesSentProofs`

* `BatchIdentityHolds`: `Spec => BatchIdentity`. The step predicate
  `KeepsSerials` holds for every step of `Next`: `Inject` only adds a
  ticket that `RInv` shows is free, `NextEvent` only moves cursors and
  removes tickets, and `Answer` only stores a result.
* `AtMostOneResponseHolds` and `ResponseFaithfulHolds`:
  `Spec => []AtMostOneResponse` and `Spec => []ResponseFaithful`.
  Neither is inductive alone: a respond step could resend a serial, or
  send one that the log does not hold. The invariant is
  `HInv == RInv /\ SentLogged /\ SentRetired /\ ResponseFaithful /\ AtMostOneResponse`.
  * `SentLogged`: every sent serial is a position of `log`.
  * `SentRetired`: no live batch carries a serial already sent. A batch
    answers once and is removed in the same `next_event` step, so its
    serial is never sent again.
  Lemmas: `SentKept` covers steps that leave `sent` and `log` alone and
  create no live serial. `InjectSentOK` uses the fresh serial
  `Len(log)+1`. `RespondSentOK` uses `ResponseIs` from
  `BatchesRefinement` to show that the new response is faithful.

### `DiemBridgeProofs`

* `TypeCorrect`: `Spec => []TypeOK`, through
  `Inv == TypeOK /\ trusted <= Len(chain)`, one lemma per step.
* `SeenForwardedHolds`: when state proofs verify (`Verified`: `"verify"`
  is not a fail point) and the per-transaction fetches never fail
  (`Lossless`), `Spec => []SeenForwarded`. The invariant is
  `SInv == Inv /\ SeenForwarded /\ LoopOK`. Here `LoopOK` says that inside
  either loop every fetched entry is still to do or already forwarded, and
  that what is still to do lies within the trusted state. Without it, the
  step that stores the fetched list as seen could not be shown safe.

The fail points of the bridge run satisfy `Lossless`. The violation runs bridge_unverified and bridge_lost
show that they are needed.

Only model-checked:
* every liveness property (`BatchCompletes`, `SentForwarded`,
  `SentSettled`, `ReceivedForwarded`): TLAPS does not reason here about fairness or
  ENABLED;
* everything about `RetrySpec`: the theorems are about `Spec`. Under
  `RetrySpec` a late answer breaks `ResponseFaithful`; the batches_retry
  run shows this (finding 1).

## Not modelled

* `batches()` and the `Debug` impls are read-only.
* CLI parsing and BCS/base64 encoding are data conversion only.
* The Diem node and pRuntime are assumed honest apart from a state proof
  that fails to verify. The model leaves out transaction proofs that
  pRuntime refuses (`main.rs:429` ignores the result) and a bad
  transaction hash.
* The inject loop spinning when all 2^64 tickets are live is not
  represented: the model's `Inject` is disabled in that state.
* Restarting the bridge process is not modelled. Nothing is persisted,
  and the code has no restart logic.

## Plan

Still to do, in order:
1. An abstract specification of the bridge (every transaction of the
   account forwarded once, in any order) with `DiemBridge` refining it
   under `Lossless`.
2. A duplicate-forwarding property for the bridge, if the pRuntime
   contract is pinned down.
