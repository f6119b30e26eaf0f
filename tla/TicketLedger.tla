---------------------------- MODULE TicketLedger ----------------------------
(***************************************************************************)
(* The bookkeeping of command tickets in src/motion/controller.py, as      *)
(* operators on a record that the controller guards with its lock: the two *)
(* futures of every ticket, the tickets in flight, the request ids the     *)
(* owner has begun and the bounded cache of recent results.                *)
(*                                                                         *)
(* Tickets are numbered in the order submit() creates them.  A future is   *)
(* "none" until it is resolved; of a result only its state is kept.        *)
(***************************************************************************)
EXTENDS Integers, FiniteSets

CONSTANTS
  MaxTickets,  \* bound: tickets created in one behaviour
  RecentMax,   \* results the recent cache holds (256 in the code)
  Id,          \* request ids
  Menu,        \* the requests that clients may submit, records with an id
  NoRequest    \* "this ticket does not exist yet"

ASSUME LedgerAssumption ==
  /\ MaxTickets \in Nat \ {0}
  /\ RecentMax \in Nat \ {0}
  /\ \A r \in Menu : r.id \in Id
  /\ NoRequest \notin Menu

Ticket   == 1 .. MaxTickets
NoTicket == 0
Terminal == {"completed", "failed", "cancelled"}

(* recent[t] is 0 when t is not cached; the cached tickets have the ranks  *)
(* up to RecentMax, the most recently remembered one RecentMax itself.     *)
Ledger ==
  [req     : [Ticket -> Menu \cup {NoRequest}],
   ack     : [Ticket -> {"none", "accepted"} \cup Terminal],
   done    : [Ticket -> {"none"} \cup Terminal],
   pending : SUBSET Ticket,
   started : SUBSET Id,
   recent  : [Ticket -> 0 .. RecentMax]]

EmptyLedger ==
  [req     |-> [t \in Ticket |-> NoRequest],
   ack     |-> [t \in Ticket |-> "none"],
   done    |-> [t \in Ticket |-> "none"],
   pending |-> {},
   started |-> {},
   recent  |-> [t \in Ticket |-> 0]]

Created(b) == {t \in Ticket : b.req[t] # NoRequest}

(* Remember the tickets of S, in the order of their numbers: they become   *)
(* the most recent ones and what falls below rank 1 is forgotten.          *)
Remember(recent, S) ==
  LET Lowered(rank, n) == IF rank > n THEN rank - n ELSE 0
      Newer(t) == IF t \in S THEN {u \in S : u > t}
                             ELSE {u \in S : recent[u] < recent[t]}
  IN [t \in Ticket |->
        Lowered(IF t \in S THEN RecentMax ELSE recent[t], Cardinality(Newer(t)))]

\* Fault: only the bounded cache is looked up.
KnownRecent(b, i) == {t \in Created(b) : b.req[t].id = i /\ b.recent[t] > 0}

\* Fault: only the tickets in flight are looked up.
KnownPending(b, i) == {t \in Created(b) : b.req[t].id = i /\ t \in b.pending}

(* The ticket a request with this id already has, in flight or remembered. *)
Known(b, i) ==
  {t \in Created(b) : b.req[t].id = i /\ (t \in b.pending \/ b.recent[t] > 0)}

(* A new ticket t for request r: remembered and in flight.                 *)
Opened(b, t, r) ==
  [b EXCEPT !.req[t] = r, !.pending = @ \cup {t}, !.recent = Remember(@, {t})]

(* A future is resolved once; a later result for it is dropped.            *)
Accepted(b, t) ==
  [b EXCEPT !.ack[t] = IF @ = "none" THEN "accepted" ELSE @]

(* _finish() for every ticket of S: what is in flight leaves it and is     *)
(* remembered, and the unresolved futures get the terminal state.          *)
Finished(b, S, state) ==
  LET live == S \cap b.pending IN
  [b EXCEPT
     !.ack     = [t \in Ticket |-> IF t \in S /\ b.ack[t] = "none" THEN state ELSE b.ack[t]],
     !.done    = [t \in Ticket |-> IF t \in S /\ b.done[t] = "none" THEN state ELSE b.done[t]],
     !.pending = @ \ live,
     !.started = @ \ {b.req[t].id : t \in live},
     !.recent  = Remember(@, live)]
=============================================================================
