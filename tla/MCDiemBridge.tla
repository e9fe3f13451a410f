---------------------------- MODULE MCDiemBridge ----------------------------
EXTENDS DiemBridge, TLC

\* The failures the bridge recovers from: every call whose failure ends the
\* round before anything is stored.
MCRecoverable == {"state", "prQuery", "account", "events", "accountTxns"}

\* Every call may fail; the node's state proofs verify.
MCAllPoints == Points \ {"verify"}

\* The node serves state proofs that do not verify.
MCUnverified == {"verify"}

\* No call fails.
MCReliable == {}

\* Only the fetches of a single transaction or of its proof fail.
MCLossy == {"txnByVersion", "proof"}

=============================================================================
