--------------------------- MODULE DiemBridgeProofs ---------------------------
(***************************************************************************)
(* Theorems about the Diem bridge of DiemBridge.tla, for every ledger      *)
(* bound, fault budget and set of failing calls that the hypotheses of     *)
(* each theorem allow.                                                     *)
(***************************************************************************)
EXTENDS DiemBridge, FiniteSetTheorems, TLAPS

USE BridgeAssumption

\* State proofs always verify: verify_state_proof's result, which init_state
\* ignores, is never an error.
Verified == "verify" \notin FailPoints

\* Besides, the per-transaction fetches (get_transaction_by_version,
\* get_transaction_proof), whose failure is only printed, never fail.
Lossless ==
  /\ Verified
  /\ "txnByVersion" \notin FailPoints
  /\ "proof" \notin FailPoints

\* TypeOK, and the trusted version never runs ahead of the ledger.
Inv == TypeOK /\ trusted <= Len(chain)

\* Inside either loop, every fetched entry is still to do or forwarded, and
\* what is still to do lies within the trusted ledger state.
LoopOK ==
  pc \in {"recvLoop", "sentLoop"} =>
    /\ fetched \subseteq todo \cup forwarded
    /\ \A v \in todo : v <= trusted

\* The strengthening of SeenForwarded that is inductive.
SInv == Inv /\ SeenForwarded /\ LoopOK

-----------------------------------------------------------------------------
(* Lemmas about the operators of the model.                                *)

\* The versions of one kind lie in the ledger, so there are at most as many
\* as the ledger has versions: sync_account's sequence_number is bounded.
LEMMA OfKindOK ==
  ASSUME NEW k, chain \in Seq(Kinds)
  PROVE  /\ OfKind(k) \subseteq 1 .. Len(chain)
         /\ Cardinality(OfKind(k)) \in 0 .. Len(chain)
<1>1. OfKind(k) \subseteq 1 .. Len(chain)
  BY DEF OfKind
<1>2. /\ IsFiniteSet(1 .. Len(chain))
      /\ Cardinality(1 .. Len(chain)) = Len(chain)
  <2>1. Len(chain) \in Nat
    OBVIOUS
  <2>2. QED
    BY <2>1, FS_Interval
<1>3. /\ IsFiniteSet(OfKind(k))
      /\ Cardinality(OfKind(k)) <= Len(chain)
  BY <1>1, <1>2, FS_Subset
<1>4. Cardinality(OfKind(k)) \in Nat
  BY <1>3, FS_CardinalityType
<1>5. QED
  BY <1>1, <1>3, <1>4

\* A list request returns members of the list it is made on.
LEMMA FirstNSubset ==
  ASSUME NEW S, NEW n
  PROVE  FirstN(S, n) \subseteq S
BY DEF FirstN

\* A verified refresh moves the trusted version up to the ledger's end.
LEMMA RatchetUp ==
  ASSUME Inv, Verified, Ratchet
  PROVE  /\ trusted' = Len(chain)
         /\ trusted' >= trusted
BY DEF Ratchet, Verified, Inv

-----------------------------------------------------------------------------
(* Inv is inductive.                                                       *)

LEMMA InitInv == Init => Inv
BY DEF Init, Inv, TypeOK, PCs

LEMMA CommitInv ==
  ASSUME Inv, NEW k \in Kinds, Commit(k)
  PROVE  Inv'
BY DEF Commit, Inv, TypeOK

LEMMA StartInv ==
  ASSUME Inv, Start
  PROVE  Inv'
<1>1. trusted' \in 0 .. Len(chain)
  BY DEF Start, Ratchet, Inv, TypeOK
<1>2. faults' \in 0 .. MaxFaults
  BY DEF Start, Fault, Inv, TypeOK
<1>3. QED
  BY <1>1, <1>2 DEF Start, Inv, TypeOK, PCs

LEMMA SyncAccountInv ==
  ASSUME Inv, SyncAccount
  PROVE  Inv'
<1>1. seqNum' \in 0 .. MaxVersion
  <2>1. Cardinality(OfKind("sent")) \in 0 .. MaxVersion
    BY OfKindOK DEF Inv, TypeOK
  <2>2. QED
    BY <2>1 DEF SyncAccount, Inv, TypeOK
<1>2. faults' \in 0 .. MaxFaults
  BY DEF SyncAccount, Fault, Inv, TypeOK
<1>3. QED
  BY <1>1, <1>2 DEF SyncAccount, Inv, TypeOK, PCs

\* Collect on a list of ledger versions keeps Inv (the pc is checked by
\* the callers, which fix it).
LEMMA CollectInv ==
  ASSUME Inv, NEW list \in SUBSET (1 .. Len(chain)), NEW seen, NEW lp,
         Collect(list, seen, lp), UNCHANGED chain
  PROVE  /\ trusted' \in 0 .. Len(chain')
         /\ fetched' \subseteq Versions
         /\ todo' \subseteq fetched'
         /\ faults' \in 0 .. MaxFaults
<1>1. CASE list \ seen # {} /\ Fault("state") /\ pc' = "idle"
           /\ UNCHANGED <<trusted, fetched, todo>>
  BY <1>1 DEF Fault, Inv, TypeOK
<1>2. CASE /\ IF list \ seen # {} THEN Ratchet ELSE UNCHANGED trusted
           /\ fetched' = list
           /\ todo' = list \ seen
           /\ pc' = lp
           /\ UNCHANGED faults
  <2>1. trusted' \in 0 .. Len(chain')
    BY <1>2 DEF Ratchet, Inv, TypeOK
  <2>2. QED
    BY <1>2, <2>1 DEF Inv, TypeOK, Versions
<1>3. QED
  BY <1>1, <1>2 DEF Collect

LEMMA SyncReceivingInv ==
  ASSUME Inv, SyncReceiving
  PROVE  Inv'
<1> DEFINE list == FirstN(OfKind("recv"), seqNum)
<1>1. list \in SUBSET (1 .. Len(chain))
  BY OfKindOK, FirstNSubset DEF Inv, TypeOK
<1>2. CASE /\ Fault("events")
           /\ pc' = "idle"
           /\ UNCHANGED <<trusted, fetched, todo>>
  BY <1>2 DEF SyncReceiving, Fault, Inv, TypeOK, PCs
<1>3. CASE Collect(list, receivedEvents, "recvLoop")
  <2>1. pc' = "idle" \/ pc' = "recvLoop"
    BY <1>3 DEF Collect
  <2>2. UNCHANGED <<chain, seqNum, receivedEvents, transactions, forwarded>>
    BY DEF SyncReceiving
  <2>3. /\ trusted' \in 0 .. Len(chain')
        /\ fetched' \subseteq Versions
        /\ todo' \subseteq fetched'
        /\ faults' \in 0 .. MaxFaults
    BY <1>1, <1>3, <2>2, CollectInv
  <2>4. QED
    BY <2>1, <2>2, <2>3 DEF Inv, TypeOK, PCs
<1>4. QED
  BY <1>2, <1>3 DEF SyncReceiving

LEMMA SyncSentInv ==
  ASSUME Inv, SyncSent
  PROVE  Inv'
<1> DEFINE list == FirstN(OfKind("sent"), seqNum)
<1>1. list \in SUBSET (1 .. Len(chain))
  BY OfKindOK, FirstNSubset DEF Inv, TypeOK
<1>2. CASE /\ Fault("accountTxns")
           /\ pc' = "idle"
           /\ UNCHANGED <<trusted, fetched, todo>>
  BY <1>2 DEF SyncSent, Fault, Inv, TypeOK, PCs
<1>3. CASE Collect(list, transactions, "sentLoop")
  <2>1. pc' = "idle" \/ pc' = "sentLoop"
    BY <1>3 DEF Collect
  <2>2. UNCHANGED <<chain, seqNum, receivedEvents, transactions, forwarded>>
    BY DEF SyncSent
  <2>3. /\ trusted' \in 0 .. Len(chain')
        /\ fetched' \subseteq Versions
        /\ todo' \subseteq fetched'
        /\ faults' \in 0 .. MaxFaults
    BY <1>1, <1>3, <2>2, CollectInv
  <2>4. QED
    BY <2>1, <2>2, <2>3 DEF Inv, TypeOK, PCs
<1>4. QED
  BY <1>2, <1>3 DEF SyncSent

\* One step of either loop on the entry v.
LEMMA SyncOneInv ==
  ASSUME Inv, NEW v \in todo, SyncTransactionWithProof(v),
         UNCHANGED <<chain, trusted, seqNum, receivedEvents, transactions,
                     fetched>>
  PROVE  Inv'
<1>1. v \in Versions
  BY DEF Inv, TypeOK
<1>2. CASE /\ \/ Fault("proof")
              \/ v > trusted /\ UNCHANGED faults
           /\ todo' = todo \ {v}
           /\ UNCHANGED <<pc, forwarded>>
  BY <1>2 DEF Fault, Inv, TypeOK
<1>3. CASE /\ Fault("prQuery")
           /\ pc' = "idle"
           /\ UNCHANGED <<todo, forwarded>>
  BY <1>3 DEF Fault, Inv, TypeOK, PCs
<1>4. CASE /\ forwarded' = forwarded \cup {v}
           /\ todo' = todo \ {v}
           /\ UNCHANGED <<pc, faults>>
  BY <1>1, <1>4 DEF Inv, TypeOK
<1>5. QED
  BY <1>2, <1>3, <1>4 DEF SyncTransactionWithProof

LEMMA ReceiveOneInv ==
  ASSUME Inv, ReceiveOne
  PROVE  Inv'
<1>1. PICK v \in todo :
        /\ IsNext(v)
        /\ \/ /\ Fault("txnByVersion")
              /\ todo' = todo \ {v}
              /\ UNCHANGED <<pc, forwarded>>
           \/ SyncTransactionWithProof(v)
  BY DEF ReceiveOne
<1>2. UNCHANGED <<chain, trusted, seqNum, receivedEvents, transactions,
                  fetched>>
  BY DEF ReceiveOne
<1>3. QED
  BY <1>1, <1>2, SyncOneInv DEF Fault, Inv, TypeOK

LEMMA SendOneInv ==
  ASSUME Inv, SendOne
  PROVE  Inv'
BY SyncOneInv DEF SendOne

LEMMA NextInv ==
  ASSUME Inv, [Next]_vars
  PROVE  Inv'
<1>1. CASE \E k \in Kinds : Commit(k)
  BY <1>1, CommitInv
<1>2. CASE Start
  BY <1>2, StartInv
<1>3. CASE SyncAccount
  BY <1>3, SyncAccountInv
<1>4. CASE SyncReceiving
  BY <1>4, SyncReceivingInv
<1>5. CASE ReceiveOne
  BY <1>5, ReceiveOneInv
<1>6. CASE ReceiveDone
  BY <1>6 DEF ReceiveDone, Inv, TypeOK, PCs
<1>7. CASE SyncSent
  BY <1>7, SyncSentInv
<1>8. CASE SendOne
  BY <1>8, SendOneInv
<1>9. CASE SentDone
  BY <1>9 DEF SentDone, Inv, TypeOK, PCs
<1>10. CASE Exited \/ UNCHANGED vars
  BY <1>10 DEF Exited, vars, Inv, TypeOK
<1>11. QED
  BY <1>1, <1>2, <1>3, <1>4, <1>5, <1>6, <1>7, <1>8, <1>9, <1>10
  DEF Next, BridgeStep

\* The bridge's variables keep their types, whatever calls fail.
THEOREM TypeCorrect == Spec => []TypeOK
<1>1. Init => Inv
  BY InitInv
<1>2. Inv /\ [Next]_vars => Inv'
  BY NextInv
<1>3. QED
  BY <1>1, <1>2, PTL DEF Spec, Inv

-----------------------------------------------------------------------------
(* Nothing is stored as seen unless it was forwarded, if no per-           *)
(* transaction fetch fails.                                                *)

\* The list's entries not yet seen are within the ledger after a verified
\* refresh, and those seen are forwarded: so Collect enters its loop with
\* LoopOK, or ends the round.
LEMMA CollectLoop ==
  ASSUME Inv, Verified, NEW list \in SUBSET (1 .. Len(chain)),
         NEW seen, seen \subseteq forwarded, NEW lp,
         Collect(list, seen, lp), UNCHANGED <<chain, forwarded>>
  PROVE  \/ pc' = "idle" /\ UNCHANGED todo
         \/ /\ pc' = lp
            /\ fetched' \subseteq todo' \cup forwarded'
            /\ \A v \in todo' : v <= trusted'
<1>1. CASE list \ seen # {} /\ Ratchet
  <2>1. trusted' = Len(chain)
    BY <1>1, RatchetUp
  <2>2. CASE Fault("state") /\ pc' = "idle" /\ UNCHANGED todo
    BY <2>2
  <2>3. CASE /\ fetched' = list
             /\ todo' = list \ seen
             /\ pc' = lp
    BY <2>1, <2>3
  <2>4. QED
    BY <1>1, <2>2, <2>3 DEF Collect
<1>2. CASE list \ seen = {}
  BY <1>2 DEF Collect
<1>3. QED
  BY <1>1, <1>2 DEF Collect

\* One step of either loop keeps every fetched entry to do or forwarded:
\* with the fetches reliable, an entry leaves todo only when forwarded.
LEMMA SyncOneLoop ==
  ASSUME SInv, Lossless, pc \in {"recvLoop", "sentLoop"},
         NEW v \in todo, SyncTransactionWithProof(v),
         UNCHANGED <<trusted, receivedEvents, transactions, fetched>>
  PROVE  SeenForwarded' /\ LoopOK'
<1>1. v <= trusted
  BY DEF SInv, LoopOK
<1>2. ~Fault("proof")
  BY DEF Fault, Lossless
<1>3. CASE pc' = "idle" /\ UNCHANGED forwarded
  BY <1>3 DEF SInv, SeenForwarded, LoopOK
<1>4. CASE /\ forwarded' = forwarded \cup {v}
           /\ todo' = todo \ {v}
           /\ UNCHANGED pc
  <2>1. SeenForwarded'
    BY <1>4 DEF SInv, SeenForwarded
  <2>2. fetched' \subseteq todo' \cup forwarded'
    BY <1>4 DEF SInv, LoopOK
  <2>3. \A w \in todo' : w <= trusted'
    BY <1>4 DEF SInv, LoopOK
  <2>4. QED
    BY <2>1, <2>2, <2>3 DEF LoopOK
<1>5. v \in Nat /\ trusted \in Nat
  BY DEF SInv, Inv, TypeOK, Versions
<1>6. QED
  BY <1>1, <1>2, <1>3, <1>4, <1>5 DEF SyncTransactionWithProof

\* SInv is inductive when no per-transaction fetch fails.
LEMMA NextSInv ==
  ASSUME SInv, Lossless, [Next]_vars
  PROVE  SInv'
<1>1. SUFFICES SeenForwarded' /\ LoopOK'
  BY NextInv DEF SInv
<1>2. Verified
  BY DEF Lossless
<1>3. CASE \E k \in Kinds : Commit(k)
  BY <1>3 DEF Commit, SInv, SeenForwarded, LoopOK
<1>4. CASE Start \/ SyncAccount
  BY <1>4 DEF Start, SyncAccount, SInv, SeenForwarded, LoopOK
<1>5. CASE SyncReceiving
  <2>1. FirstN(OfKind("recv"), seqNum) \in SUBSET (1 .. Len(chain))
    BY OfKindOK, FirstNSubset DEF SInv, Inv, TypeOK
  <2>2. CASE Fault("events") /\ pc' = "idle"
    BY <1>5, <2>2 DEF SyncReceiving, SInv, SeenForwarded, LoopOK
  <2>3. CASE Collect(FirstN(OfKind("recv"), seqNum), receivedEvents,
                     "recvLoop")
    <3>1. UNCHANGED <<chain, receivedEvents, transactions, forwarded>>
      BY <1>5 DEF SyncReceiving
    <3>2. QED
      BY <1>2, <2>1, <2>3, <3>1, CollectLoop DEF SInv, SeenForwarded, LoopOK
  <2>4. QED
    BY <1>5, <2>2, <2>3 DEF SyncReceiving
<1>6. CASE SyncSent
  <2>1. FirstN(OfKind("sent"), seqNum) \in SUBSET (1 .. Len(chain))
    BY OfKindOK, FirstNSubset DEF SInv, Inv, TypeOK
  <2>2. CASE Fault("accountTxns") /\ pc' = "idle"
    BY <1>6, <2>2 DEF SyncSent, SInv, SeenForwarded, LoopOK
  <2>3. CASE Collect(FirstN(OfKind("sent"), seqNum), transactions,
                     "sentLoop")
    <3>1. UNCHANGED <<chain, receivedEvents, transactions, forwarded>>
      BY <1>6 DEF SyncSent
    <3>2. QED
      BY <1>2, <2>1, <2>3, <3>1, CollectLoop DEF SInv, SeenForwarded, LoopOK
  <2>4. QED
    BY <1>6, <2>2, <2>3 DEF SyncSent
<1>7. CASE ReceiveOne
  <2>1. PICK v \in todo : SyncTransactionWithProof(v)
    BY <1>7 DEF ReceiveOne, Fault, Lossless
  <2>2. QED
    BY <1>7, <2>1, SyncOneLoop DEF ReceiveOne, SInv
<1>8. CASE SendOne
  <2>1. PICK v \in todo : SyncTransactionWithProof(v)
    BY <1>8 DEF SendOne
  <2>2. QED
    BY <1>8, <2>1, SyncOneLoop DEF SendOne, SInv
<1>9. CASE ReceiveDone \/ SentDone
  BY <1>9 DEF ReceiveDone, SentDone, SInv, SeenForwarded, LoopOK
<1>10. CASE Exited \/ UNCHANGED vars
  BY <1>10 DEF Exited, vars, SInv, SeenForwarded, LoopOK
<1>11. QED
  BY <1>1, <1>3, <1>4, <1>5, <1>6, <1>7, <1>8, <1>9, <1>10
  DEF Next, BridgeStep, SInv

\* Every transaction the bridge stores as seen (received_events,
\* transactions) was forwarded to pRuntime (SeenForwarded), for every
\* ledger bound and fault budget, when the only calls that fail are those
\* whose error ends the round: the round is then cut off before its list
\* is stored.  (bridge_lost shows what a per-transaction failure does.)
THEOREM SeenForwardedHolds ==
  ASSUME Lossless
  PROVE  Spec => []SeenForwarded
<1>1. Init => SInv
  BY InitInv DEF Init, SInv, SeenForwarded, LoopOK
<1>2. SInv /\ [Next]_vars => SInv'
  BY NextSInv
<1>3. SInv => SeenForwarded
  BY DEF SInv
<1>4. QED
  BY <1>1, <1>2, <1>3, PTL DEF Spec

=============================================================================
