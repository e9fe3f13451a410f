------------------------------ MODULE Registry ------------------------------
(***************************************************************************)
(* What BatchesState promises its host, without tickets: a registry of the *)
(* client messages in flight, each known by the number of the inject call  *)
(* that brought it (its serial, which is never reused).  For each open     *)
(* message the registry knows how many of its calls were handed out and    *)
(* which of its requests were answered; when all are, it sends the one     *)
(* response that message asked for, built from the message and the        *)
(* results computed for its requests, and forgets it.  A message without   *)
(* requests is forgotten without a response.                               *)
(***************************************************************************)
EXTENDS Naturals, Sequences, FiniteSets

CONSTANTS
  Msgs,       \* the client messages, [single, calls]
  Users,      \* user parameters
  MaxInject   \* bound on the number of messages received

VARIABLES
  open,  \* serial of an open message -> [handed, done]
  log,   \* the i-th message received, [msg, user]
  sent   \* the responses sent, in order

vars == <<open, log, sent>>

\* The result computed for request p of message s.
Result(s, p) == [serial |-> s, pos |-> p]

Calls(s) == log[s].msg.calls

\* The positions of the requests (as opposed to notifications) of s.
Reqs(s) == {p \in 1 .. Len(Calls(s)) : Calls(s)[p] = "req"}

\* Every call of s was handed out and every request of s answered.
Ready(s) == open[s].handed = Len(Calls(s)) /\ Reqs(s) \subseteq open[s].done

\* The response message s asked for: to its user, in its single or batch
\* form, one output per request, each the result computed for it.
Response(s) ==
  [serial  |-> s,
   user    |-> log[s].user,
   single  |-> log[s].msg.single,
   outputs |-> [p \in Reqs(s) |-> Result(s, p)]]

Forget(f, S) == [s \in DOMAIN f \ S |-> f[s]]

Init ==
  /\ open = [s \in {} |-> [handed |-> 0, done |-> {}]]
  /\ log = << >>
  /\ sent = << >>

\* A client message arrives; it gets the next serial.
Receive(m, u) ==
  /\ Len(log) < MaxInject
  /\ LET s == Len(log) + 1
     IN  open' = [r \in DOMAIN open \cup {s} |->
                    IF r = s THEN [handed |-> 0, done |-> {}] ELSE open[r]]
  /\ log' = Append(log, [msg |-> m, user |-> u])
  /\ UNCHANGED sent

\* The host asks for the next event.  Any set of finished messages without
\* requests may be forgotten on the way; then one call is handed out, or a
\* response is sent, or, when neither is possible, every finished message
\* without requests is forgotten.
Hand ==
  \E dropped \in SUBSET {s \in DOMAIN open : Ready(s) /\ Reqs(s) = {}} :
    \/ \E s \in DOMAIN open :
         /\ open[s].handed < Len(Calls(s))
         /\ open' = [Forget(open, dropped) EXCEPT ![s].handed = @ + 1]
         /\ UNCHANGED sent
    \/ \E s \in DOMAIN open :
         /\ Ready(s)
         /\ Reqs(s) # {}
         /\ open' = Forget(open, dropped \cup {s})
         /\ sent' = Append(sent, Response(s))
    \/ /\ \A s \in DOMAIN open :
            open[s].handed = Len(Calls(s)) /\ ~(Ready(s) /\ Reqs(s) # {})
       /\ dropped = {s \in DOMAIN open : Ready(s) /\ Reqs(s) = {}}
       /\ open' = Forget(open, dropped)
       /\ UNCHANGED sent
  /\ UNCHANGED log

\* The host answers request p of message s, handed out and not answered.
Answer(s, p) ==
  /\ s \in DOMAIN open
  /\ p \in Reqs(s)
  /\ p <= open[s].handed
  /\ p \notin open[s].done
  /\ open' = [open EXCEPT ![s].done = @ \cup {p}]
  /\ UNCHANGED <<log, sent>>

Next ==
  \/ \E m \in Msgs, u \in Users : Receive(m, u)
  \/ Hand
  \/ \E s \in DOMAIN open : \E p \in Reqs(s) : Answer(s, p)

Spec == Init /\ [][Next]_vars

=============================================================================
