--------------------------- MODULE PayoutPromise ---------------------------
(***************************************************************************)
(* What the payout service promises about an order, without calls, rows,   *)
(* queues or crashes: an intent is recorded before anything is sent        *)
(* ("write-ahead"), at most one transaction is ever sent for the order     *)
(* ("preventing duplicate payouts"), and the recipient is marked as paid   *)
(* at most once and only for an order that was recorded.                   *)
(***************************************************************************)
CONSTANTS Orders, Hashes, NoHash

VARIABLES
  intended,  \* orders with a durable record of the intent to pay
  sent,      \* the transaction sent for each order
  marked     \* orders whose recipient counts as paid

vars == <<intended, sent, marked>>

TypeOK ==
  /\ intended \in SUBSET Orders
  /\ sent \in [Orders -> Hashes \cup {NoHash}]
  /\ marked \in SUBSET Orders

Init ==
  /\ intended = {}
  /\ sent = [o \in Orders |-> NoHash]
  /\ marked = {}

Intend(o) ==
  /\ o \notin intended
  /\ intended' = intended \cup {o}
  /\ UNCHANGED <<sent, marked>>

Submit(o, h) ==
  /\ o \in intended /\ sent[o] = NoHash
  /\ sent' = [sent EXCEPT ![o] = h]
  /\ UNCHANGED <<intended, marked>>

Mark(o) ==
  /\ o \in intended \ marked
  /\ marked' = marked \cup {o}
  /\ UNCHANGED <<intended, sent>>

Next == \E o \in Orders : Intend(o) \/ Mark(o) \/ \E h \in Hashes : Submit(o, h)

Spec == Init /\ [][Next]_vars
=============================================================================
