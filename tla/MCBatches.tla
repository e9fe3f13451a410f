----------------------------- MODULE MCBatches -----------------------------
(* Instantiation of Batches for TLC: a single request, a single            *)
(* notification, the empty batch, a mixed batch and a batch of two         *)
(* notifications, i.e. the messages of the unit tests of batches.rs and    *)
(* the mixed case of the spec.                                             *)
EXTENDS Batches, TLC

CONSTANTS u1, u2

MCMsgs ==
  { [single |-> TRUE,  calls |-> <<"req">>],
    [single |-> TRUE,  calls |-> <<"notif">>],
    [single |-> FALSE, calls |-> << >>],
    [single |-> FALSE, calls |-> <<"req", "notif", "req">>],
    [single |-> FALSE, calls |-> <<"notif", "notif">>] }

MCUsers == {u1, u2}

\* For the wraparound run: a request that stays open while it is answered,
\* and a batch with two requests, so that tickets are held long enough
\* for next_batch_id to come round to a live one.
MCWrapMsgs ==
  { [single |-> TRUE,  calls |-> <<"req">>],
    [single |-> FALSE, calls |-> <<"req", "req">>] }

MCWrapUsers == {u1}

=============================================================================
