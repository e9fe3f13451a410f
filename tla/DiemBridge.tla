----------------------------- MODULE DiemBridge -----------------------------
(***************************************************************************)
(* The Diem bridge of src/src/main.rs: a single task that, in a loop,      *)
(* reads one hard-coded account from a Diem full node over JSON-RPC and    *)
(* forwards every new transaction of that account, with a proof, to the    *)
(* pRuntime enclave (DiemBridge::sync_account and the functions it calls). *)
(*                                                                         *)
(* The ledger is abstracted to the kinds of its transactions: version v    *)
(* of `chain` is "sent" (a user transaction of the account, one per        *)
(* sequence number) or "recv" (a payment to it, which emits one received   *)
(* event).  Every JSON-RPC call and every pRuntime query may fail; a       *)
(* failure is taken from the budget MaxFaults at one of the FailPoints.    *)
(* With "verify" among them, the node may also serve state proofs that do  *)
(* not verify, as often as it likes.                                       *)
(***************************************************************************)
EXTENDS Naturals, Sequences, FiniteSets

CONSTANTS
  MaxVersion,   \* the ledger grows to at most this many versions
  MaxFaults,    \* at most this many calls fail in a behaviour
  FailPoints    \* the calls that may fail

\* The calls whose failure the code meets.
Points == {"state", "prQuery", "account", "events", "accountTxns",
           "txnByVersion", "proof", "verify"}

ASSUME BridgeAssumption ==
  /\ MaxVersion \in Nat
  /\ MaxFaults \in Nat
  /\ FailPoints \subseteq Points

Kinds == {"sent", "recv"}

Versions == 1 .. MaxVersion

VARIABLES
  chain,           \* the ledger, version v |-> its kind
  pc,              \* where the bridge task is
  trusted,         \* trusted_state.latest_version()
  seqNum,          \* account.sequence_number, as last read
  receivedEvents,  \* DiemBridge::received_events (their versions)
  transactions,    \* DiemBridge::transactions (their versions)
  fetched,         \* the list just fetched, stored when its loop ends
  todo,            \* new_events / need_sync_transactions not yet handled
  forwarded,       \* versions sent to pRuntime with VerifyTransaction
  faults           \* calls failed so far

vars == <<chain, pc, trusted, seqNum, receivedEvents, transactions,
          fetched, todo, forwarded, faults>>

PCs == {"start", "idle", "recv", "recvLoop", "sent", "sentLoop", "exited"}

\* The versions of the ledger holding transactions of kind k.
OfKind(k) == {v \in 1 .. Len(chain) : chain[v] = k}

\* Mutant: a limit that stops one short.
FirstNShort(S, n) == {v \in S : Cardinality({w \in S : w <= v}) < n}

\* The first n members of a set of versions, in version order: a JSON-RPC
\* list request with start 0 and limit n.
FirstN(S, n) == {v \in S : Cardinality({w \in S : w <= v}) <= n}

\* A call at point pt fails.
Fault(pt) ==
  /\ pt \in FailPoints
  /\ faults < MaxFaults
  /\ faults' = faults + 1

\* DiemBridge::new, before bridge() first calls init_state.
Init ==
  /\ chain = <<>>
  /\ pc = "start"
  /\ trusted = 0
  /\ seqNum = 0
  /\ receivedEvents = {}
  /\ transactions = {}
  /\ fetched = {}
  /\ todo = {}
  /\ forwarded = {}
  /\ faults = 0

\* The ledger commits a transaction of the account.
Commit(k) ==
  /\ Len(chain) < MaxVersion
  /\ chain' = Append(chain, k)
  /\ UNCHANGED <<pc, trusted, seqNum, receivedEvents, transactions,
                 fetched, todo, forwarded, faults>>

\* init_state once its state proof arrived: trusted_state is reset to the
\* genesis ledger info (version 0), then verify_state_proof ratchets it to
\* the latest ledger info.  Its result is ignored (`let _ =`), so a proof
\* that does not verify leaves the trusted state at genesis.
Ratchet ==
  \/ trusted' = Len(chain)
  \/ "verify" \in FailPoints /\ trusted' = 0

\* bridge(): init_state(Some(pr)) and its `?`.  The state proof request
\* failing, or pRuntime refusing SetTrustedState, ends the bridge.  A
\* verified state proof makes the latest ledger version trusted.
Start ==
  /\ pc = "start"
  /\ \/ /\ Fault("state")
        /\ pc' = "exited"
        /\ UNCHANGED trusted
     \/ /\ Ratchet
        /\ \/ Fault("prQuery") /\ pc' = "exited"
           \/ UNCHANGED faults /\ pc' = "idle"
  /\ UNCHANGED <<chain, seqNum, receivedEvents, transactions, fetched,
                 todo, forwarded>>

\* sync_account: read the account and send it to pRuntime; the received
\* transactions are synced only when sequence_number > 0.  A failure ends
\* this round: the loop ignores the error and calls sync_account again.
SyncAccount ==
  /\ pc = "idle"
  /\ \/ /\ Fault("account")
        /\ UNCHANGED <<pc, seqNum>>
     \/ /\ seqNum' = Cardinality(OfKind("sent"))
        /\ \/ Fault("prQuery") /\ pc' = "idle"
           \/ /\ UNCHANGED faults
              /\ pc' = IF seqNum' > 0 THEN "recv" ELSE "sent"
  /\ UNCHANGED <<chain, trusted, receivedEvents, transactions, fetched,
                 todo, forwarded>>

\* The common part of sync_receiving_transactions and
\* sync_sent_transactions once the list is fetched: the entries not in
\* `seen` are new; if there are any, init_state(None) refreshes the
\* trusted state (its failure ends the round) before the loop over them.
Collect(list, seen, loopPc) ==
  \/ /\ list \ seen # {}
     /\ Fault("state")
     /\ pc' = "idle"
     /\ UNCHANGED <<trusted, fetched, todo>>
  \/ /\ IF list \ seen # {} THEN Ratchet ELSE UNCHANGED trusted
     /\ fetched' = list
     /\ todo' = list \ seen
     /\ pc' = loopPc
     /\ UNCHANGED faults

\* sync_receiving_transactions up to its loop: the received events are
\* requested from 0 with limit sequence_number.
SyncReceiving ==
  /\ pc = "recv"
  /\ \/ /\ Fault("events")
        /\ pc' = "idle"
        /\ UNCHANGED <<trusted, fetched, todo>>
     \/ Collect(FirstN(OfKind("recv"), seqNum), receivedEvents, "recvLoop")
  /\ UNCHANGED <<chain, seqNum, receivedEvents, transactions, forwarded>>

\* v is the new entry handled next: the loops go in list order.
IsNext(v) == \A w \in todo : v <= w

\* Mutant: the pRuntime query's error is dropped (`let _ =`, no `?`).
SyncTransactionWithProofIgnoreErr(v) ==
  \/ /\ \/ Fault("proof")
        \/ v > trusted /\ UNCHANGED faults
     /\ todo' = todo \ {v}
     /\ UNCHANGED <<pc, forwarded>>
  \/ /\ v <= trusted
     /\ Fault("prQuery")
     /\ todo' = todo \ {v}
     /\ UNCHANGED <<pc, forwarded>>
  \/ /\ v <= trusted
     /\ forwarded' = forwarded \cup {v}
     /\ todo' = todo \ {v}
     /\ UNCHANGED <<pc, faults>>

\* sync_transaction_with_proof(v): get_transaction_proof failing is only
\* printed, and so is the node's refusal of a proof for a version above
\* the trusted one it is asked at; the pRuntime query failing returns the
\* error through every caller, so the round ends and the fetched list is
\* not stored.
SyncTransactionWithProof(v) ==
  \/ /\ \/ Fault("proof")
        \/ v > trusted /\ UNCHANGED faults
     /\ todo' = todo \ {v}
     /\ UNCHANGED <<pc, forwarded>>
  \/ /\ v <= trusted
     /\ Fault("prQuery")
     /\ pc' = "idle"
     /\ UNCHANGED <<todo, forwarded>>
  \/ /\ v <= trusted
     /\ forwarded' = forwarded \cup {v}
     /\ todo' = todo \ {v}
     /\ UNCHANGED <<pc, faults>>

\* One turn of the loop over new_events: get_transaction_by_version failing
\* is only printed.
ReceiveOne ==
  /\ pc = "recvLoop"
  /\ \E v \in todo :
       /\ IsNext(v)
       /\ \/ /\ Fault("txnByVersion")
             /\ todo' = todo \ {v}
             /\ UNCHANGED <<pc, forwarded>>
          \/ SyncTransactionWithProof(v)
  /\ UNCHANGED <<chain, trusted, seqNum, receivedEvents, transactions,
                 fetched>>

\* The end of sync_receiving_transactions: every fetched event, handled or
\* not, is stored; sync_account goes on to the sent transactions.
ReceiveDone ==
  /\ pc = "recvLoop"
  /\ todo = {}
  /\ receivedEvents' = fetched
  /\ pc' = "sent"
  /\ UNCHANGED <<chain, trusted, seqNum, transactions, fetched, todo,
                 forwarded, faults>>

\* sync_sent_transactions up to its loop: the account's transactions are
\* requested from 0 with limit sequence_number.
SyncSent ==
  /\ pc = "sent"
  /\ \/ /\ Fault("accountTxns")
        /\ pc' = "idle"
        /\ UNCHANGED <<trusted, fetched, todo>>
     \/ Collect(FirstN(OfKind("sent"), seqNum), transactions, "sentLoop")
  /\ UNCHANGED <<chain, seqNum, receivedEvents, transactions, forwarded>>

\* One turn of the loop over need_sync_transactions.
SendOne ==
  /\ pc = "sentLoop"
  /\ \E v \in todo : IsNext(v) /\ SyncTransactionWithProof(v)
  /\ UNCHANGED <<chain, trusted, seqNum, receivedEvents, transactions,
                 fetched>>

\* The end of sync_sent_transactions and of the round.
SentDone ==
  /\ pc = "sentLoop"
  /\ todo = {}
  /\ transactions' = fetched
  /\ pc' = "idle"
  /\ UNCHANGED <<chain, trusted, seqNum, receivedEvents, fetched, todo,
                 forwarded, faults>>

\* main() returns once bridge() has: the process is gone.
Exited ==
  /\ pc = "exited"
  /\ UNCHANGED vars

BridgeStep ==
  \/ Start \/ SyncAccount \/ SyncReceiving \/ ReceiveOne \/ ReceiveDone
  \/ SyncSent \/ SendOne \/ SentDone

Next ==
  \/ \E k \in Kinds : Commit(k)
  \/ BridgeStep
  \/ Exited

\* The bridge is one task looping forever; it always takes its next step.
Spec == Init /\ [][Next]_vars /\ WF_vars(BridgeStep)

-----------------------------------------------------------------------------
(* Properties.                                                             *)

TypeOK ==
  /\ chain \in Seq(Kinds)
  /\ Len(chain) <= MaxVersion
  /\ pc \in PCs
  /\ trusted \in 0 .. MaxVersion
  /\ seqNum \in 0 .. MaxVersion
  /\ receivedEvents \subseteq Versions
  /\ transactions \subseteq Versions
  /\ fetched \subseteq Versions
  /\ todo \subseteq fetched
  /\ forwarded \subseteq Versions
  /\ faults \in 0 .. MaxFaults

\* The bridge never marks a transaction as seen (received_events,
\* transactions) that it has not forwarded to pRuntime: the next rounds
\* only forward what is not seen, so such a transaction is lost for good.
SeenForwarded == receivedEvents \cup transactions \subseteq forwarded

\* The trusted state only ratchets forward, as for any light client:
\* verify_state_proof refuses a ledger info older than the trusted one
\* (its ensure!), but init_state first resets the trusted state to
\* genesis and every proof the bridge asks for afterwards is anchored at
\* the trusted version.
TrustedMonotonic == [][trusted' >= trusted]_vars

\* Every transaction the account sends is eventually forwarded to pRuntime,
\* unless the bridge ended at start-up.
SentForwarded ==
  \A v \in Versions :
    (v \in OfKind("sent")) ~> (v \in forwarded \/ pc = "exited")

\* Whatever calls fail, the bridge eventually gets through a whole round
\* that reaches each transaction the account sends: it is stored in
\* DiemBridge::transactions (forwarded or, after a printed failure, not),
\* unless the bridge ended at start-up.  The limit of the request is the
\* sequence_number read at the start of the round, so a transaction
\* committed later must be fetched by a later round.
SentSettled ==
  \A v \in Versions :
    (v \in OfKind("sent")) ~> (v \in transactions \/ pc = "exited")

\* Every payment the account receives is eventually forwarded to pRuntime,
\* unless the bridge ended at start-up.
ReceivedForwarded ==
  \A v \in Versions :
    (v \in OfKind("recv")) ~> (v \in forwarded \/ pc = "exited")

=============================================================================
