-------------------------- MODULE TicketLedgerProofs --------------------------
(***************************************************************************)
(* What the operators of the ledger keep, for every number of tickets,     *)
(* every menu and every size of the cache of recent results.  Whoever      *)
(* keeps such a ledger cites these lemmas: the controller and the          *)
(* transports of the daemon.                                               *)
(***************************************************************************)
EXTENDS TicketLedger, FiniteSetTheorems, TLAPS

-----------------------------------------------------------------------------
(* Types.                                                                  *)

(* What is newer than a ticket is finite, so the cache stays a ranking.    *)
LEMMA RememberType ==
  ASSUME NEW recent \in [Ticket -> 0 .. RecentMax], NEW S \in SUBSET Ticket
  PROVE  Remember(recent, S) \in [Ticket -> 0 .. RecentMax]
<1>1. IsFiniteSet(Ticket)
  BY FS_Interval, LedgerAssumption DEF Ticket
<1>2. IsFiniteSet(S)
  BY <1>1, FS_Subset
<1>3. ASSUME NEW t \in Ticket
      PROVE  /\ Cardinality({u \in S : u > t}) \in Nat
             /\ Cardinality({u \in S : recent[u] < recent[t]}) \in Nat
  <2>1. {u \in S : u > t} \in SUBSET S /\ {u \in S : recent[u] < recent[t]} \in SUBSET S
    OBVIOUS
  <2>. QED
    BY <1>2, <2>1, FS_Subset, FS_CardinalityType
<1>4. ASSUME NEW n \in Nat, NEW k \in 0 .. RecentMax
      PROVE  (IF k > n THEN k - n ELSE 0) \in 0 .. RecentMax
  BY LedgerAssumption
<1>5. ASSUME NEW t \in Ticket
      PROVE  Remember(recent, S)[t] \in 0 .. RecentMax
  <2>1. CASE t \in S
    <3>. DEFINE n == Cardinality({u \in S : u > t})
    <3>1. Remember(recent, S)[t] = IF RecentMax > n THEN RecentMax - n ELSE 0
      BY <2>1 DEF Remember
    <3>2. n \in Nat
      BY <1>3, Zenon
    <3>3. RecentMax \in 0 .. RecentMax
      BY LedgerAssumption
    <3>. HIDE DEF n
    <3>. QED
      BY <1>4, <3>1, <3>2, <3>3
  <2>2. CASE t \notin S
    <3>. DEFINE n == Cardinality({u \in S : recent[u] < recent[t]})
    <3>1. Remember(recent, S)[t] = IF recent[t] > n THEN recent[t] - n ELSE 0
      BY <2>2 DEF Remember
    <3>2. n \in Nat
      BY <1>3, Zenon
    <3>3. recent[t] \in 0 .. RecentMax
      OBVIOUS
    <3>. HIDE DEF n
    <3>. QED
      BY <1>4, <3>1, <3>2, <3>3
  <2>. QED
    BY <2>1, <2>2
<1>6. Remember(recent, S) = [t \in Ticket |-> Remember(recent, S)[t]]
  BY DEF Remember
<1>. QED
  BY <1>5, <1>6

(* A new ticket is entered under a request of the menu.                    *)
LEMMA OpenedType ==
  ASSUME NEW b \in Ledger, NEW t \in Ticket, NEW r \in Menu
  PROVE  /\ Opened(b, t, r) \in Ledger
         /\ [b EXCEPT !.req[t] = r] \in Ledger
         /\ Created(Opened(b, t, r)) = Created(b) \cup {t}
         /\ Created([b EXCEPT !.req[t] = r]) = Created(b) \cup {t}
<1>1. Remember(b.recent, {t}) \in [Ticket -> 0 .. RecentMax]
  BY RememberType DEF Ledger
<1>2. Opened(b, t, r) \in Ledger
  BY <1>1 DEF Opened, Ledger
<1>3. [b EXCEPT !.req[t] = r] \in Ledger
  BY DEF Ledger
<1>4. Created(Opened(b, t, r)) = Created(b) \cup {t}
  BY LedgerAssumption DEF Opened, Created, Ledger
<1>5. Created([b EXCEPT !.req[t] = r]) = Created(b) \cup {t}
  BY LedgerAssumption DEF Created, Ledger
<1>. QED
  BY <1>2, <1>3, <1>4, <1>5

(* Accepting and finishing tickets keeps the ledger and its requests.      *)
LEMMA AcceptedType ==
  ASSUME NEW b \in Ledger, NEW t
  PROVE  Accepted(b, t) \in Ledger /\ Accepted(b, t).req = b.req
BY DEF Accepted, Ledger

LEMMA FinishedType ==
  ASSUME NEW b \in Ledger, NEW S, NEW state \in Terminal
  PROVE  Finished(b, S, state) \in Ledger /\ Finished(b, S, state).req = b.req
<1>1. S \cap b.pending \in SUBSET Ticket
  BY DEF Ledger
<1>2. Remember(b.recent, S \cap b.pending) \in [Ticket -> 0 .. RecentMax]
  BY <1>1, RememberType DEF Ledger
<1>. QED
  BY <1>2 DEF Finished, Ledger

-----------------------------------------------------------------------------
(* The books agree.                                                        *)

Fresh(b) == Cardinality(Created(b)) + 1

(* Tickets are numbered without gaps, and one that does not exist has no   *)
(* result.  In flight is what has no final result, an acknowledgement with *)
(* a final result included, and of each request id only one ticket is.     *)
Books(b) ==
  /\ \E n \in 0 .. MaxTickets : Created(b) = 1 .. n
  /\ \A t \in Ticket \ Created(b) : b.ack[t] = "none" /\ b.done[t] = "none"
  /\ b.pending = {t \in Created(b) : b.done[t] = "none"}
  /\ \A t \in Created(b) : b.ack[t] \in Terminal => b.done[t] # "none"
  /\ \A t, u \in b.pending : b.req[t].id = b.req[u].id => t = u

LEMMA EmptyBooks == EmptyLedger \in Ledger /\ Created(EmptyLedger) = {} /\ Books(EmptyLedger)
<1>1. 0 \in 0 .. RecentMax /\ 0 \in 0 .. MaxTickets /\ 1 .. 0 = {}
  BY LedgerAssumption
<1>2. EmptyLedger \in Ledger
  BY <1>1 DEF EmptyLedger, Ledger
<1>3. Created(EmptyLedger) = {}
  BY DEF EmptyLedger, Created
<1>. QED
  BY <1>1, <1>2, <1>3 DEF EmptyLedger, Books

LEMMA FreshTicket ==
  ASSUME NEW b \in Ledger, Books(b)
  PROVE  /\ Fresh(b) \in Nat /\ Fresh(b) \notin Created(b)
         /\ Created(b) \cup {Fresh(b)} = 1 .. Fresh(b)
<1>1. PICK n \in 0 .. MaxTickets : Created(b) = 1 .. n
  BY DEF Books
<1>2. n \in Nat
  BY <1>1, LedgerAssumption
<1>3. Cardinality(1 .. n) = n
  <2>1. Cardinality(1 .. n) = IF 1 > n THEN 0 ELSE n - 1 + 1
    BY <1>2, FS_Interval
  <2>. QED
    BY <1>2, <2>1
<1>4. Fresh(b) = n + 1
  BY <1>1, <1>3 DEF Fresh
<1>. QED
  BY <1>1, <1>2, <1>4

(* The fields of a finished ledger.                                        *)
LEMMA FinishedFields ==
  ASSUME NEW b \in Ledger, NEW S, NEW state \in Terminal
  PROVE  LET c == Finished(b, S, state)
         IN  /\ c \in Ledger /\ c.req = b.req /\ Created(c) = Created(b)
             /\ c.pending = b.pending \ S
             /\ c.started = b.started \ {b.req[t].id : t \in S \cap b.pending}
             /\ \A t \in Ticket :
                  /\ c.ack[t] = IF t \in S /\ b.ack[t] = "none" THEN state ELSE b.ack[t]
                  /\ c.done[t] = IF t \in S /\ b.done[t] = "none" THEN state ELSE b.done[t]
<1> DEFINE c == Finished(b, S, state)
<1>1. c \in Ledger /\ c.req = b.req
  BY FinishedType
<1>2. Created(c) = Created(b)
  BY <1>1 DEF Created
<1>3. /\ c.pending = b.pending \ (S \cap b.pending)
      /\ c.started = b.started \ {b.req[t].id : t \in S \cap b.pending}
  BY DEF Finished, Ledger
<1>4. /\ c.ack = [t \in Ticket |-> IF t \in S /\ b.ack[t] = "none" THEN state ELSE b.ack[t]]
      /\ c.done = [t \in Ticket |-> IF t \in S /\ b.done[t] = "none" THEN state ELSE b.done[t]]
  BY DEF Finished, Ledger
<1> HIDE DEF c
<1>. QED
  BY <1>1, <1>2, <1>3, <1>4, Zenon DEF c

LEMMA FinishedBooks ==
  ASSUME NEW b \in Ledger, Books(b), NEW S, S \cap Ticket \subseteq Created(b),
         NEW state \in Terminal
  PROVE  Books(Finished(b, S, state))
<1> DEFINE c == Finished(b, S, state)
<1>1. /\ c.req = b.req /\ Created(c) = Created(b) /\ c.pending = b.pending \ S
      /\ \A t \in Ticket :
           /\ c.ack[t] = IF t \in S /\ b.ack[t] = "none" THEN state ELSE b.ack[t]
           /\ c.done[t] = IF t \in S /\ b.done[t] = "none" THEN state ELSE b.done[t]
  BY FinishedFields
<1>2. Created(b) \subseteq Ticket /\ state # "none"
  BY DEF Created, Terminal
<1> HIDE DEF c
<1>3. c.pending = {t \in Created(c) : c.done[t] = "none"}
  BY <1>1, <1>2 DEF Books
<1>4. \A t \in Ticket \ Created(c) : c.ack[t] = "none" /\ c.done[t] = "none"
  BY <1>1, <1>2 DEF Books
<1>5. \A t \in Created(c) : c.ack[t] \in Terminal => c.done[t] # "none"
  BY <1>1, <1>2 DEF Books
<1>. QED
  BY <1>1, <1>3, <1>4, <1>5 DEF Books, c

(* Finishing a ticket takes no claim from another: its id is its own.      *)
LEMMA FinishedClaims ==
  ASSUME NEW b \in Ledger, Books(b), NEW S, NEW state \in Terminal,
         NEW u \in b.pending, u \notin S
  PROVE  b.req[u].id \in Finished(b, S, state).started <=> b.req[u].id \in b.started
<1> DEFINE c == Finished(b, S, state)
<1>1. c.started = b.started \ {b.req[t].id : t \in S \cap b.pending}
  BY FinishedFields
<1>2. \A t \in S \cap b.pending : b.req[t].id # b.req[u].id
  BY DEF Books
<1> HIDE DEF c
<1>. QED
  BY <1>1, <1>2 DEF c

LEMMA AcceptedFields ==
  ASSUME NEW b \in Ledger, NEW t \in Ticket
  PROVE  LET c == Accepted(b, t)
         IN  /\ c \in Ledger /\ c.req = b.req /\ Created(c) = Created(b)
             /\ c.pending = b.pending /\ c.started = b.started /\ c.done = b.done
             /\ \A u \in Ticket :
                  c.ack[u] = IF u = t /\ b.ack[u] = "none" THEN "accepted" ELSE b.ack[u]
<1>1. Accepted(b, t) \in Ledger /\ Accepted(b, t).req = b.req
  BY AcceptedType
<1>. QED
  BY <1>1 DEF Accepted, Created, Ledger

LEMMA AcceptedBooks ==
  ASSUME NEW b \in Ledger, Books(b), NEW t \in Created(b)
  PROVE  Books(Accepted(b, t))
<1> DEFINE c == Accepted(b, t)
<1>1. t \in Ticket /\ "accepted" \notin Terminal
  BY DEF Created, Terminal
<1>2. /\ c.req = b.req /\ Created(c) = Created(b) /\ c.pending = b.pending
      /\ c.done = b.done
      /\ \A u \in Ticket :
           c.ack[u] = IF u = t /\ b.ack[u] = "none" THEN "accepted" ELSE b.ack[u]
  BY <1>1, AcceptedFields
<1> HIDE DEF c
<1>. QED
  BY <1>1, <1>2 DEF Books, Created, c

(* Nothing but the claims of the owner or the cache has changed.           *)
LEMMA SameBooks ==
  ASSUME NEW b, NEW c, Books(b), c.req = b.req, c.ack = b.ack, c.done = b.done,
         c.pending = b.pending
  PROVE  Books(c)
<1>1. Created(c) = Created(b)
  BY DEF Created
<1>. QED
  BY <1>1 DEF Books

(* A new ticket has no result yet, and no other of its id is in flight.    *)
LEMMA OpenedBooks ==
  ASSUME NEW b \in Ledger, Books(b), NEW r \in Menu, Fresh(b) \in Ticket,
         Known(b, r.id) = {}
  PROVE  LET c == Opened(b, Fresh(b), r)
         IN  /\ c \in Ledger /\ Books(c) /\ Created(c) = Created(b) \cup {Fresh(b)}
             /\ c.req = [b.req EXCEPT ![Fresh(b)] = r]
             /\ c.pending = b.pending \cup {Fresh(b)}
             /\ c.ack = b.ack /\ c.done = b.done /\ c.started = b.started
<1> DEFINE t == Fresh(b)
           c == Opened(b, t, r)
<1>1. /\ t \in Nat /\ t \notin Created(b) /\ t \in Ticket
      /\ Created(b) \cup {t} = 1 .. t
  BY FreshTicket
<1>2. c \in Ledger /\ Created(c) = Created(b) \cup {t}
  BY <1>1, OpenedType
<1>3. /\ c.req = [b.req EXCEPT ![t] = r] /\ c.pending = b.pending \cup {t}
      /\ c.ack = b.ack /\ c.done = b.done /\ c.started = b.started
  BY <1>1 DEF Opened, Ledger
<1> HIDE DEF c, t
<1>4. \E n \in 0 .. MaxTickets : Created(c) = 1 .. n
  <2>1. t \in 0 .. MaxTickets
    BY <1>1, LedgerAssumption DEF Ticket
  <2>. QED
    BY <1>1, <1>2, <2>1
<1>5. \A u \in Ticket \ Created(c) : c.ack[u] = "none" /\ c.done[u] = "none"
  BY <1>2, <1>3 DEF Books
<1>6. b.ack[t] = "none" /\ b.done[t] = "none"
  BY <1>1 DEF Books
<1>7. c.pending = {u \in Created(c) : c.done[u] = "none"}
  BY <1>1, <1>2, <1>3, <1>6 DEF Books
<1>8. \A u \in Created(c) : c.ack[u] \in Terminal => c.done[u] # "none"
  <2>1. "none" \notin Terminal
    BY DEF Terminal
  <2>. QED
    BY <1>2, <1>3, <1>6, <2>1 DEF Books
<1>9. ASSUME NEW u \in b.pending
      PROVE  u \in Ticket /\ u # t /\ c.req[u] = b.req[u] /\ b.req[u].id # r.id
  <2>1. u \in Created(b) /\ u \in Ticket
    BY DEF Books, Created
  <2>2. u # t /\ c.req[u] = b.req[u]
    BY <1>1, <1>3, <2>1 DEF Ledger
  <2>. QED
    BY <2>1, <2>2 DEF Known
<1>10. c.req[t] = r
  BY <1>1, <1>3 DEF Ledger
<1>11. \A u, v \in c.pending : c.req[u].id = c.req[v].id => u = v
  BY <1>3, <1>9, <1>10 DEF Books
<1>12. Books(c)
  BY <1>4, <1>5, <1>7, <1>8, <1>11 DEF Books
<1>. QED
  BY <1>2, <1>3, <1>12 DEF c, t

\* A ticket for a request, not in flight.
Entered(b, t, r) == [b EXCEPT !.req[t] = r]

\* From b to c ticket t was created for request r and ended at once.
RefusedIn(b, c, t, r) ==
  /\ c \in Ledger /\ Books(c) /\ Created(c) = Created(b) \cup {t}
  /\ c.req = [b.req EXCEPT ![t] = r]
  /\ c.pending = b.pending /\ c.started = b.started
  /\ \A u \in Ticket \ {t} : c.ack[u] = b.ack[u] /\ c.done[u] = b.done[u]
  /\ c.ack[t] \in Terminal /\ c.done[t] \in Terminal

LEMMA RefusedBooks ==
  ASSUME NEW b \in Ledger, Books(b), NEW r \in Menu,
         NEW t \in Ticket, t = Fresh(b), NEW state \in Terminal
  PROVE  RefusedIn(b, Finished(Entered(b, t, r), {t}, state), t, r)
<1> DEFINE e == Entered(b, t, r)
           c == Finished(e, {t}, state)
<1>1. /\ t \in Nat /\ t \notin Created(b) /\ t \in Ticket
      /\ Created(b) \cup {t} = 1 .. t
  BY FreshTicket
<1>2. e \in Ledger /\ Created(e) = Created(b) \cup {t}
  BY <1>1, OpenedType DEF Entered
<1>3. /\ e.req = [b.req EXCEPT ![t] = r] /\ e.pending = b.pending
      /\ e.ack = b.ack /\ e.done = b.done /\ e.started = b.started
  BY <1>1 DEF Entered, Ledger
<1>4. t \notin b.pending /\ b.ack[t] = "none" /\ b.done[t] = "none"
  BY <1>1 DEF Books
<1> HIDE DEF e
<1>5. /\ c \in Ledger /\ c.req = e.req /\ Created(c) = Created(e)
      /\ c.pending = e.pending \ {t}
      /\ c.started = e.started \ {e.req[u].id : u \in {t} \cap e.pending}
      /\ \A u \in Ticket :
           /\ c.ack[u] = IF u \in {t} /\ e.ack[u] = "none" THEN state ELSE e.ack[u]
           /\ c.done[u] = IF u \in {t} /\ e.done[u] = "none" THEN state ELSE e.done[u]
  BY <1>2, FinishedFields
<1> HIDE DEF c
<1>6. c.pending = b.pending /\ c.started = b.started
  <2>1. {t} \cap e.pending = {}
    BY <1>3, <1>4
  <2>2. {e.req[u].id : u \in {t} \cap e.pending} = {}
    BY <2>1
  <2>3. c.started = b.started \ {}
    BY <1>3, <1>5, <2>2
  <2>. QED
    BY <1>3, <1>4, <1>5, <2>3
<1>7. \A u \in Ticket \ {t} : c.ack[u] = b.ack[u] /\ c.done[u] = b.done[u]
  BY <1>3, <1>5
<1>8. c.done[t] = state /\ c.ack[t] = state /\ state # "none"
  BY <1>1, <1>3, <1>4, <1>5 DEF Terminal
<1>9. \E n \in 0 .. MaxTickets : Created(c) = 1 .. n
  <2>1. t \in 0 .. MaxTickets
    BY <1>1, LedgerAssumption DEF Ticket
  <2>. QED
    BY <1>1, <1>2, <1>5, <2>1
<1>10. Created(b) \subseteq Ticket
  BY DEF Created
<1>11. \A u \in Ticket \ Created(c) : c.ack[u] = "none" /\ c.done[u] = "none"
  BY <1>2, <1>5, <1>7 DEF Books
<1>12. c.pending = {u \in Created(c) : c.done[u] = "none"}
  BY <1>1, <1>2, <1>5, <1>6, <1>7, <1>8, <1>10 DEF Books
<1>13. \A u \in Created(c) : c.ack[u] \in Terminal => c.done[u] # "none"
  BY <1>1, <1>2, <1>5, <1>7, <1>8, <1>10 DEF Books
<1>14. \A u, v \in c.pending : c.req[u].id = c.req[v].id => u = v
  <2>1. \A u \in b.pending : c.req[u] = b.req[u]
    BY <1>3, <1>4, <1>5 DEF Ledger
  <2>. QED
    BY <1>6, <2>1 DEF Books
<1>15. Books(c)
  BY <1>9, <1>11, <1>12, <1>13, <1>14 DEF Books
<1>. QED
  BY <1>2, <1>3, <1>5, <1>6, <1>7, <1>8, <1>15 DEF RefusedIn, c, e

-----------------------------------------------------------------------------
(* How a ledger may go on.                                                 *)

(* A ticket that exists keeps its request and its results; a new one is    *)
(* open, or it has failed at once.                                         *)
Later(b, c) ==
  /\ Created(b) \subseteq Created(c)
  /\ \A t \in Created(b) :
       /\ c.req[t] = b.req[t]
       /\ b.done[t] # "none" => c.done[t] = b.done[t]
       /\ b.ack[t] # "none" => c.ack[t] = b.ack[t]
  /\ \A t \in Created(c) \ Created(b) :
       c.done[t] = "failed" \/ (c.done[t] = "none" /\ c.ack[t] = "none")

(* The tickets of S have been ended and nobody was given a new one; the    *)
(* claims of the others are kept.                                          *)
Reduced(b, c, S) ==
  /\ c \in Ledger /\ Books(c) /\ Later(b, c)
  /\ c.req = b.req /\ Created(c) = Created(b)
  /\ c.pending = b.pending \ S
  /\ \A u \in b.pending \ S : b.req[u].id \in c.started <=> b.req[u].id \in b.started

LEMMA FinishedReduces ==
  ASSUME NEW b \in Ledger, Books(b), NEW S, S \cap Ticket \subseteq Created(b),
         NEW state \in Terminal
  PROVE  Reduced(b, Finished(b, S, state), S)
<1> DEFINE c == Finished(b, S, state)
<1>1. /\ c \in Ledger /\ c.req = b.req /\ Created(c) = Created(b)
      /\ c.pending = b.pending \ S
      /\ \A t \in Ticket :
           /\ c.ack[t] = IF t \in S /\ b.ack[t] = "none" THEN state ELSE b.ack[t]
           /\ c.done[t] = IF t \in S /\ b.done[t] = "none" THEN state ELSE b.done[t]
  BY FinishedFields
<1>2. Books(c)
  BY FinishedBooks
<1>3. \A u \in b.pending \ S : b.req[u].id \in c.started <=> b.req[u].id \in b.started
  BY FinishedClaims
<1>4. Created(b) \subseteq Ticket
  BY DEF Created
<1> HIDE DEF c
<1>5. Later(b, c)
  BY <1>1, <1>4 DEF Later
<1>. QED
  BY <1>1, <1>2, <1>3, <1>5 DEF Reduced, c

LEMMA AcceptedReduces ==
  ASSUME NEW b \in Ledger, Books(b), NEW t \in Created(b)
  PROVE  Reduced(b, Accepted(b, t), {})
<1> DEFINE c == Accepted(b, t)
<1>1. t \in Ticket /\ Created(b) \subseteq Ticket
  BY DEF Created
<1>2. /\ c \in Ledger /\ c.req = b.req /\ Created(c) = Created(b)
      /\ c.pending = b.pending /\ c.started = b.started /\ c.done = b.done
      /\ \A u \in Ticket :
           c.ack[u] = IF u = t /\ b.ack[u] = "none" THEN "accepted" ELSE b.ack[u]
  BY <1>1, AcceptedFields
<1>3. Books(c)
  BY AcceptedBooks
<1> HIDE DEF c
<1>4. Later(b, c)
  BY <1>1, <1>2 DEF Later
<1>. QED
  BY <1>2, <1>3, <1>4 DEF Reduced, c

LEMMA ReducedTwice ==
  ASSUME NEW b, NEW c, NEW d, NEW S, NEW T, Reduced(b, c, S), Reduced(c, d, T)
  PROVE  Reduced(b, d, S \cup T)
<1>1. d.pending = b.pending \ (S \cup T)
  BY DEF Reduced
<1>2. Later(b, d)
  BY DEF Reduced, Later
<1>3. ASSUME NEW u \in b.pending \ (S \cup T)
      PROVE  b.req[u].id \in d.started <=> b.req[u].id \in b.started
  <2>1. u \in b.pending \ S /\ u \in c.pending \ T /\ c.req = b.req
    BY DEF Reduced
  <2>2. b.req[u].id \in c.started <=> b.req[u].id \in b.started
    BY <2>1 DEF Reduced
  <2>3. c.req[u].id \in d.started <=> c.req[u].id \in c.started
    BY <2>1 DEF Reduced
  <2>. QED
    BY <2>1, <2>2, <2>3
<1>. QED
  BY <1>1, <1>2, <1>3 DEF Reduced

LEMMA ReducedByNothing ==
  ASSUME NEW b \in Ledger, Books(b)
  PROVE  Reduced(b, b, {})
  BY DEF Reduced, Later

(* Only the cache has changed.                                             *)
LEMMA RememberedReduces ==
  ASSUME NEW b \in Ledger, Books(b), NEW S \in SUBSET Ticket
  PROVE  Reduced(b, [b EXCEPT !.recent = Remember(@, S)], {})
<1> DEFINE c == [b EXCEPT !.recent = Remember(@, S)]
<1>1. Remember(b.recent, S) \in [Ticket -> 0 .. RecentMax]
  BY RememberType DEF Ledger
<1>2. /\ c \in Ledger /\ c.req = b.req /\ c.ack = b.ack /\ c.done = b.done
      /\ c.pending = b.pending /\ c.started = b.started
  BY <1>1 DEF Ledger
<1> HIDE DEF c
<1>3. Books(c) /\ Created(c) = Created(b)
  BY <1>2, SameBooks DEF Created
<1>. QED
  BY <1>2, <1>3 DEF Reduced, Later, c

(* Ticket t was created for request r, and then the tickets of S ended.    *)
Grown(b, c, t, r, S) ==
  /\ c \in Ledger /\ Books(c) /\ Later(b, c)
  /\ t \in Ticket \ Created(b) /\ Created(c) = Created(b) \cup {t}
  /\ c.req[t] = r /\ \A u \in Created(b) : c.req[u] = b.req[u]
  /\ c.pending = (b.pending \cup {t}) \ S
  /\ \A u \in b.pending \ S : b.req[u].id \in c.started <=> b.req[u].id \in b.started

LEMMA RefusedGrows ==
  ASSUME NEW b \in Ledger, Books(b), NEW r \in Menu,
         NEW t \in Ticket, t = Fresh(b)
  PROVE  Grown(b, Finished(Entered(b, t, r), {t}, "failed"), t, r, {t})
<1> DEFINE c == Finished(Entered(b, t, r), {t}, "failed")
<1>1. "failed" \in Terminal
  BY DEF Terminal
<1>2. RefusedIn(b, c, t, r)
  BY <1>1, RefusedBooks
<1>3. t \notin Created(b) /\ Created(b) \subseteq Ticket
  BY FreshTicket DEF Created
<1>4. c.done[t] = "failed"
  <2>1. Entered(b, t, r) \in Ledger /\ b.done = Entered(b, t, r).done
    BY OpenedType DEF Entered, Ledger
  <2>2. c.done[t] = IF t \in {t} /\ b.done[t] = "none" THEN "failed" ELSE b.done[t]
    BY <1>1, <2>1, FinishedFields
  <2>. QED
    BY <1>3, <2>2 DEF Books
<1> HIDE DEF c
<1>5. /\ c \in Ledger /\ Books(c) /\ Created(c) = Created(b) \cup {t}
      /\ c.req = [b.req EXCEPT ![t] = r]
      /\ c.pending = b.pending /\ c.started = b.started
      /\ \A u \in Ticket \ {t} : c.ack[u] = b.ack[u] /\ c.done[u] = b.done[u]
  BY <1>2 DEF RefusedIn
<1>6. c.req[t] = r /\ \A u \in Created(b) : c.req[u] = b.req[u]
  BY <1>3, <1>5 DEF Ledger
<1>7. t \notin b.pending
  BY <1>3 DEF Books
<1>8. Later(b, c)
  BY <1>3, <1>4, <1>5, <1>6 DEF Later
<1>. QED
  BY <1>3, <1>5, <1>6, <1>7, <1>8 DEF Grown, c

LEMMA OpenedGrows ==
  ASSUME NEW b \in Ledger, Books(b), NEW r \in Menu, NEW t \in Ticket, t = Fresh(b),
         Known(b, r.id) = {}
  PROVE  Grown(b, Opened(b, t, r), t, r, {})
<1> DEFINE c == Opened(b, t, r)
<1>1. t \notin Created(b) /\ Created(b) \subseteq Ticket
  BY FreshTicket DEF Created
<1>2. /\ c \in Ledger /\ Books(c) /\ Created(c) = Created(b) \cup {t}
      /\ c.req = [b.req EXCEPT ![t] = r]
      /\ c.pending = b.pending \cup {t}
      /\ c.ack = b.ack /\ c.done = b.done /\ c.started = b.started
  BY OpenedBooks
<1> HIDE DEF c
<1>3. c.req[t] = r /\ \A u \in Created(b) : c.req[u] = b.req[u]
  BY <1>1, <1>2 DEF Ledger
<1>4. c.done[t] = "none" /\ c.ack[t] = "none"
  BY <1>1, <1>2 DEF Books
<1>5. Later(b, c)
  BY <1>1, <1>2, <1>3, <1>4 DEF Later
<1>. QED
  BY <1>1, <1>2, <1>3, <1>5 DEF Grown, c

LEMMA GrownFinished ==
  ASSUME NEW b \in Ledger, Books(b), NEW r \in Menu, NEW t \in Ticket, t = Fresh(b),
         Known(b, r.id) = {}, NEW S, S \cap Ticket \subseteq Created(b) \cup {t},
         NEW state \in Terminal, t \in S => state = "failed"
  PROVE  Grown(b, Finished(Opened(b, t, r), S, state), t, r, S)
<1> DEFINE c == Opened(b, t, r)
           d == Finished(c, S, state)
<1>1. Grown(b, c, t, r, {})
  BY OpenedGrows
<1>2. c.done[t] = "none" /\ c.ack[t] = "none"
  <2>1. t \notin Created(b) /\ c.ack = b.ack /\ c.done = b.done
    BY FreshTicket, OpenedBooks
  <2>. QED
    BY <2>1 DEF Books
<1> HIDE DEF c
<1>3. Reduced(c, d, S)
  BY <1>1, FinishedReduces DEF Grown
<1>4. /\ d.done[t] = IF t \in S /\ c.done[t] = "none" THEN state ELSE c.done[t]
      /\ d.ack[t] = IF t \in S /\ c.ack[t] = "none" THEN state ELSE c.ack[t]
  BY <1>1, FinishedFields DEF Grown
<1> HIDE DEF d
<1>5. d.done[t] = "failed" \/ (d.done[t] = "none" /\ d.ack[t] = "none")
  BY <1>2, <1>4
<1>6. /\ Created(b) \subseteq Created(c) /\ Created(d) = Created(c) /\ d.req = c.req
      /\ Created(c) = Created(b) \cup {t}
  BY <1>1, <1>3 DEF Grown, Reduced
<1>7. Later(b, d)
  <2>1. Later(b, c) /\ Later(c, d)
    BY <1>1, <1>3 DEF Grown, Reduced
  <2>. QED
    BY <1>5, <1>6, <2>1 DEF Later
<1>8. ASSUME NEW u \in b.pending \ S
      PROVE  b.req[u].id \in d.started <=> b.req[u].id \in b.started
  <2>1. u \in Created(b) /\ u \in c.pending \ S
    BY <1>1 DEF Books, Grown
  <2>2. c.req[u] = b.req[u] /\ (b.req[u].id \in c.started <=> b.req[u].id \in b.started)
    BY <1>1, <2>1 DEF Grown
  <2>3. c.req[u].id \in d.started <=> c.req[u].id \in c.started
    BY <1>3, <2>1 DEF Reduced
  <2>. QED
    BY <2>2, <2>3
<1>9. d.pending = (b.pending \cup {t}) \ S /\ d \in Ledger /\ Books(d)
  BY <1>1, <1>3 DEF Grown, Reduced
<1>. QED
  BY <1>1, <1>6, <1>7, <1>8, <1>9 DEF Grown, c, d

-----------------------------------------------------------------------------
(* The cache of recent results.                                            *)

(* Of the tickets O that were ever remembered, N[t] are the ones that were *)
(* remembered after t was: the cache has forgotten t when there are        *)
(* RecentMax of them.                                                      *)
Newest(recent, O, N) ==
  /\ N \in [O -> SUBSET O]
  /\ \A t \in O : t \notin N[t] /\ \A u \in N[t] : N[u] \subseteq N[t]
  /\ \A t, u \in O : t = u \/ u \in N[t] \/ t \in N[u]
  /\ \A t \in O : recent[t] = IF RecentMax > Cardinality(N[t])
                                THEN RecentMax - Cardinality(N[t]) ELSE 0
  /\ \A t \in Ticket \ O : recent[t] = 0

LEMMA TicketSets ==
  ASSUME NEW A \in SUBSET Ticket, NEW B \in SUBSET Ticket
  PROVE  /\ IsFiniteSet(A) /\ Cardinality(A) \in Nat
         /\ A \subseteq B => Cardinality(A) <= Cardinality(B)
         /\ Cardinality(A \cup B) = Cardinality(A) + Cardinality(B \ A)
<1>1. IsFiniteSet(Ticket)
  BY FS_Interval, LedgerAssumption DEF Ticket
<1>2. IsFiniteSet(A) /\ IsFiniteSet(B) /\ IsFiniteSet(B \ A)
  <2>1. B \ A \in SUBSET Ticket
    OBVIOUS
  <2>. QED
    BY <1>1, <2>1, FS_Subset
<1>3. Cardinality(A) \in Nat /\ Cardinality(B \ A) \in Nat
  BY <1>2, FS_CardinalityType
<1>4. A \subseteq B => Cardinality(A) <= Cardinality(B)
  BY <1>2, FS_Subset
<1>5. Cardinality(A \cup B) = Cardinality(A) + Cardinality(B \ A)
  <2>1. A \cup B = A \cup (B \ A) /\ A \cap (B \ A) = {}
    OBVIOUS
  <2>2. Cardinality(A \cup (B \ A))
          = Cardinality(A) + Cardinality(B \ A) - Cardinality(A \cap (B \ A))
    BY <1>2, FS_Union
  <2>3. Cardinality(A \cap (B \ A)) = 0
    BY <2>1, FS_EmptySet
  <2>4. Cardinality(A \cup B) = Cardinality(A) + Cardinality(B \ A) - 0
    BY <2>1, <2>2, <2>3, Zenon
  <2> DEFINE a == Cardinality(A)
             b == Cardinality(B \ A)
             c == Cardinality(A \cup B)
  <2>5. a \in Nat /\ b \in Nat /\ c = a + b - 0
    BY <1>3, <2>4
  <2> HIDE DEF a, b, c
  <2>6. c = a + b
    BY <2>5
  <2>. QED
    BY <2>6 DEF a, b, c
<1>. QED
  BY <1>2, <1>3, <1>4, <1>5

(* What is remembered becomes newer than everything else.                  *)
LEMMA RememberOrder ==
  ASSUME NEW recent \in [Ticket -> 0 .. RecentMax], NEW O \in SUBSET Ticket, NEW N,
         Newest(recent, O, N), NEW S \in SUBSET Ticket
  PROVE  \E M : Newest(Remember(recent, S), O \cup S, M)
<1> DEFINE new == Remember(recent, S)
           P == O \cup S
           M == [t \in P |-> IF t \in S THEN {u \in S : u > t} ELSE N[t] \cup S]
<1>1. /\ N \in [O -> SUBSET O]
      /\ \A t \in O : t \notin N[t] /\ \A u \in N[t] : N[u] \subseteq N[t]
      /\ \A t, u \in O : t = u \/ u \in N[t] \/ t \in N[u]
      /\ \A t \in O : recent[t] = IF RecentMax > Cardinality(N[t])
                                    THEN RecentMax - Cardinality(N[t]) ELSE 0
      /\ \A t \in Ticket \ O : recent[t] = 0
  BY DEF Newest
<1>2. /\ RecentMax \in Nat /\ P \in SUBSET Ticket
      /\ \A t \in Ticket : t \in Int
  BY LedgerAssumption DEF Ticket
<1>3. \A t \in O : N[t] \in SUBSET Ticket /\ N[t] \subseteq O
  BY <1>1
<1>4. M \in [P -> SUBSET P]
  BY <1>3
<1>5. \A t \in P : t \notin M[t] /\ \A u \in M[t] : M[u] \subseteq M[t]
  <2>1. ASSUME NEW t \in P, t \in S
        PROVE  t \notin M[t] /\ \A u \in M[t] : M[u] \subseteq M[t]
    <3>1. M[t] = {u \in S : u > t}
      BY <2>1
    <3>2. \A u \in S : M[u] = {v \in S : v > u}
      OBVIOUS
    <3> HIDE DEF M
    <3>3. \A u, v \in S : u > t /\ v > u => v > t
      BY <1>2, <2>1
    <3>. QED
      BY <1>2, <2>1, <3>1, <3>2, <3>3
  <2>2. ASSUME NEW t \in P, t \notin S
        PROVE  t \notin M[t] /\ \A u \in M[t] : M[u] \subseteq M[t]
    <3>1. t \in O /\ M[t] = N[t] \cup S
      BY <2>2
    <3>2. ASSUME NEW u \in M[t] PROVE M[u] \subseteq M[t]
      <4>1. CASE u \in S
        BY <3>1, <4>1
      <4>2. CASE u \notin S
        <5>1. u \in N[t] /\ u \in O
          BY <1>3, <3>1, <4>2
        <5>2. M[u] = N[u] \cup S
          BY <4>2, <5>1
        <5>. QED
          BY <1>1, <3>1, <5>1, <5>2
      <4>. QED
        BY <4>1, <4>2
    <3>. QED
      BY <1>1, <2>2, <3>1, <3>2
  <2>. QED
    BY <2>1, <2>2
<1>6. \A t, u \in P : t = u \/ u \in M[t] \/ t \in M[u]
  <2>1. ASSUME NEW t \in P, NEW u \in P, t # u
        PROVE  u \in M[t] \/ t \in M[u]
    <3>1. CASE t \in S /\ u \in S
      <4>1. M[t] = {v \in S : v > t} /\ M[u] = {v \in S : v > u}
        BY <3>1
      <4> HIDE DEF M
      <4>. QED
        BY <1>2, <2>1, <3>1, <4>1
    <3>2. CASE t \in S /\ u \notin S
      <4>1. M[u] = N[u] \cup S
        BY <3>2
      <4>. QED
        BY <3>2, <4>1
    <3>3. CASE t \notin S /\ u \in S
      <4>1. M[t] = N[t] \cup S
        BY <3>3
      <4>. QED
        BY <3>3, <4>1
    <3>4. CASE t \notin S /\ u \notin S
      <4>1. M[t] = N[t] \cup S /\ M[u] = N[u] \cup S /\ t \in O /\ u \in O
        BY <3>4
      <4>. QED
        BY <1>1, <2>1, <4>1
    <3>. QED
      BY <3>1, <3>2, <3>3, <3>4
  <2>. QED
    BY <2>1
<1>7. ASSUME NEW t \in P, t \in S
      PROVE  new[t] = IF RecentMax > Cardinality(M[t])
                        THEN RecentMax - Cardinality(M[t]) ELSE 0
  <2>1. M[t] = {u \in S : u > t} /\ t \in Ticket
    BY <1>7
  <2>. QED
    BY <1>7, <2>1 DEF Remember
<1>8. ASSUME NEW t \in P, t \notin S
      PROVE  new[t] = IF RecentMax > Cardinality(M[t])
                        THEN RecentMax - Cardinality(M[t]) ELSE 0
  <2> DEFINE Newer == {u \in S : recent[u] < recent[t]}
             n == Cardinality(Newer)
             c == Cardinality(N[t])
             m == Cardinality(N[t] \cup S)
             r == recent[t]
  <2>1. t \in O /\ M[t] = N[t] \cup S /\ t \in Ticket
    BY <1>8
  <2>2. new[t] = IF r > n THEN r - n ELSE 0
    BY <1>8, <2>1 DEF Remember
  <2>3. r = IF RecentMax > c THEN RecentMax - c ELSE 0
    BY <1>1, <2>1
  <2>4. N[t] \in SUBSET Ticket /\ Newer \in SUBSET Ticket /\ S \ N[t] \in SUBSET Ticket
    BY <1>3, <2>1
  <2>5. n \in Nat /\ c \in Nat /\ Cardinality(S \ N[t]) \in Nat
    <3>. HIDE DEF Newer
    <3>. QED
      BY <2>4, TicketSets
  <2>6. m = c + Cardinality(S \ N[t])
    BY <2>4, TicketSets
  <2>7. CASE r > 0
    <3>1. RecentMax > c /\ r = RecentMax - c
      BY <2>3, <2>7
    <3>2. ASSUME NEW u \in S, u \in N[t]
          PROVE  ~(recent[u] < recent[t])
      <4>1. u \in O /\ N[u] \subseteq N[t] /\ N[u] \in SUBSET Ticket
        BY <1>1, <1>3, <2>1, <3>2
      <4>2. Cardinality(N[u]) <= c /\ Cardinality(N[u]) \in Nat
        BY <2>4, <4>1, TicketSets
      <4>3. recent[u] = IF RecentMax > Cardinality(N[u])
                          THEN RecentMax - Cardinality(N[u]) ELSE 0
        BY <1>1, <4>1
      <4> DEFINE k == Cardinality(N[u])
                 s == recent[u]
      <4>4. k <= c /\ k \in Nat /\ s = IF RecentMax > k THEN RecentMax - k ELSE 0
        BY <4>2, <4>3
      <4> HIDE DEF k, s, c, r
      <4>5. ~(s < r)
        BY <1>2, <2>5, <3>1, <4>4
      <4>. QED
        BY <4>5 DEF s, r
    <3>3. ASSUME NEW u \in S, u \notin N[t]
          PROVE  recent[u] < recent[t]
      <4>1. CASE u \in O
        <5>1. t \in N[u] /\ N[t] \subseteq N[u] /\ t \notin N[t] /\ N[u] \in SUBSET Ticket
          BY <1>1, <1>3, <1>8, <2>1, <3>3, <4>1
        <5>2. Cardinality(N[t] \cup {t}) = c + 1
          BY <2>4, <5>1, TicketSets, FS_AddElement
        <5>3. N[t] \cup {t} \in SUBSET Ticket /\ N[t] \cup {t} \subseteq N[u]
          BY <2>1, <2>4, <5>1
        <5>4. c + 1 <= Cardinality(N[u]) /\ Cardinality(N[u]) \in Nat
          BY <5>1, <5>2, <5>3, TicketSets
        <5>5. recent[u] = IF RecentMax > Cardinality(N[u])
                            THEN RecentMax - Cardinality(N[u]) ELSE 0
          BY <1>1, <4>1
        <5> DEFINE k == Cardinality(N[u])
                   s == recent[u]
        <5>6. c + 1 <= k /\ k \in Nat /\ s = IF RecentMax > k THEN RecentMax - k ELSE 0
          BY <5>4, <5>5
        <5> HIDE DEF k, s, c, r
        <5>7. s < r
          BY <1>2, <2>5, <3>1, <5>6
        <5>. QED
          BY <5>7 DEF s, r
      <4>2. CASE u \notin O
        <5>1. recent[u] = 0
          BY <1>1, <3>3, <4>2
        <5>. QED
          BY <2>7, <5>1
      <4>. QED
        BY <4>1, <4>2
    <3>4. Newer = S \ N[t]
      BY <3>2, <3>3
    <3>5. m = c + n
      BY <2>6, <3>4
    <3> HIDE DEF m, c, n, r, Newer
    <3>6. new[t] = IF RecentMax > m THEN RecentMax - m ELSE 0
      BY <1>2, <2>2, <2>5, <3>1, <3>5
    <3>. QED
      BY <2>1, <3>6 DEF m
  <2>8. CASE ~(r > 0)
    <3>1. r = 0 /\ ~(RecentMax > c)
      <4>1. r \in 0 .. RecentMax
        BY <2>1
      <4> HIDE DEF r, c
      <4>. QED
        BY <1>2, <2>3, <2>5, <2>8, <4>1
    <3> DEFINE d == Cardinality(S \ N[t])
    <3>2. m = c + d /\ d \in Nat
      BY <2>5, <2>6
    <3> HIDE DEF d, m, c, n, r
    <3>3. new[t] = 0 /\ ~(RecentMax > m)
      BY <1>2, <2>2, <2>5, <3>1, <3>2
    <3>. QED
      BY <2>1, <3>3 DEF m
  <2>. QED
    BY <2>7, <2>8
<1>9. ASSUME NEW t \in Ticket \ P PROVE new[t] = 0
  <2> DEFINE n == Cardinality({u \in S : recent[u] < recent[t]})
  <2>1. recent[t] = 0
    BY <1>1, <1>9
  <2>2. new[t] = IF recent[t] > n THEN recent[t] - n ELSE 0
    BY <1>9 DEF Remember
  <2>3. n \in Nat
    <3>1. {u \in S : recent[u] < recent[t]} \in SUBSET Ticket
      OBVIOUS
    <3>. QED
      BY <3>1, TicketSets
  <2> HIDE DEF n
  <2>. QED
    BY <2>1, <2>2, <2>3
<1> HIDE DEF M, P, new
<1>10. Newest(new, P, M)
  BY <1>4, <1>5, <1>6, <1>7, <1>8, <1>9 DEF Newest
<1>. QED
  BY <1>10 DEF P, new

(* Whatever is in flight, accepted or cached was remembered once, and two  *)
(* of one id only with so many other tickets that the first was forgotten. *)
Cached(b) ==
  \E O \in SUBSET Created(b) :
    /\ b.pending \subseteq O
    /\ \A t \in Created(b) \ O : b.ack[t] \in Terminal
    /\ \E N : Newest(b.recent, O, N)
    /\ \A t, u \in O : t = u \/ b.req[t].id # b.req[u].id
                       \/ Cardinality(Created(b) \ {t, u}) >= RecentMax

LEMMA EmptyCached == Cached(EmptyLedger)
<1>1. Created(EmptyLedger) = {} /\ EmptyLedger.pending = {}
  BY EmptyBooks DEF EmptyLedger
<1>2. Newest(EmptyLedger.recent, {}, [t \in {} |-> {}])
  BY DEF Newest, EmptyLedger
<1>. QED
  BY <1>1, <1>2 DEF Cached

(* From b to c no ticket was created; what was remembered is in flight or  *)
(* still cached.                                                           *)
Aged(b, c) ==
  /\ c \in Ledger /\ c.req = b.req /\ c.pending \subseteq b.pending
  /\ \A t \in Ticket : b.ack[t] \in Terminal => c.ack[t] \in Terminal
  /\ \/ c.recent = b.recent
     \/ \E S \in SUBSET Ticket :
          /\ \A t \in S : t \in b.pending \/ b.recent[t] > 0
          /\ c.recent = Remember(b.recent, S)

LEMMA AgedCached ==
  ASSUME NEW b \in Ledger, NEW c, Cached(b), Aged(b, c)
  PROVE  Cached(c)
<1>1. Created(c) = Created(b) /\ c.req = b.req /\ Created(b) \subseteq Ticket
  BY DEF Aged, Created
<1>2. PICK O \in SUBSET Created(b) :
        /\ b.pending \subseteq O
        /\ \A t \in Created(b) \ O : b.ack[t] \in Terminal
        /\ \E N : Newest(b.recent, O, N)
        /\ \A t, u \in O : t = u \/ b.req[t].id # b.req[u].id
                           \/ Cardinality(Created(b) \ {t, u}) >= RecentMax
  BY DEF Cached
<1>3. PICK N : Newest(b.recent, O, N)
  BY <1>2
<1>4. c.pending \subseteq O /\ \A t \in Created(b) \ O : c.ack[t] \in Terminal
  BY <1>1, <1>2 DEF Aged
<1>5. \E M : Newest(c.recent, O, M)
  <2>1. CASE c.recent = b.recent
    BY <1>3, <2>1
  <2>2. ASSUME NEW S \in SUBSET Ticket, \A t \in S : t \in b.pending \/ b.recent[t] > 0,
               c.recent = Remember(b.recent, S)
        PROVE  \E M : Newest(c.recent, O, M)
    <3>1. \A t \in Ticket \ O : b.recent[t] = 0
      BY <1>3 DEF Newest
    <3>2. S \subseteq O
      BY <1>2, <2>2, <3>1
    <3>3. O \cup S = O /\ O \in SUBSET Ticket /\ b.recent \in [Ticket -> 0 .. RecentMax]
      BY <1>1, <3>2 DEF Ledger
    <3>4. \E M : Newest(Remember(b.recent, S), O \cup S, M)
      BY <1>3, <3>3, RememberOrder
    <3>. QED
      BY <2>2, <3>3, <3>4
  <2>. QED
    BY <2>1, <2>2 DEF Aged
<1>. QED
  BY <1>1, <1>2, <1>4, <1>5 DEF Cached

LEMMA AcceptedCached ==
  ASSUME NEW b \in Ledger, Cached(b), NEW t
  PROVE  Accepted(b, t) \in Ledger /\ Cached(Accepted(b, t))
<1>1. Accepted(b, t) \in Ledger /\ Accepted(b, t).req = b.req
  BY AcceptedType
<1>2. Aged(b, Accepted(b, t))
  BY <1>1 DEF Aged, Accepted, Ledger, Terminal
<1>. QED
  BY <1>1, <1>2, AgedCached

LEMMA FinishedCached ==
  ASSUME NEW b \in Ledger, Cached(b), NEW S, NEW state \in Terminal
  PROVE  Finished(b, S, state) \in Ledger /\ Cached(Finished(b, S, state))
<1> DEFINE c == Finished(b, S, state)
<1>1. /\ c \in Ledger /\ c.req = b.req /\ c.pending = b.pending \ S
      /\ \A t \in Ticket :
           c.ack[t] = IF t \in S /\ b.ack[t] = "none" THEN state ELSE b.ack[t]
  BY FinishedFields
<1>2. c.recent = Remember(b.recent, S \cap b.pending)
  BY DEF Finished, Ledger
<1>3. S \cap b.pending \in SUBSET Ticket
  BY DEF Ledger
<1> HIDE DEF c
<1>4. Aged(b, c)
  BY <1>1, <1>2, <1>3 DEF Aged
<1>. QED
  BY <1>1, <1>4, AgedCached DEF c

(* The owner claims a command.                                             *)
LEMMA StartedCached ==
  ASSUME NEW b \in Ledger, Cached(b), NEW i \in Id
  PROVE  Cached([b EXCEPT !.started = @ \cup {i}])
<1>1. Aged(b, [b EXCEPT !.started = @ \cup {i}])
  BY DEF Aged, Ledger
<1>. QED
  BY <1>1, AgedCached

(* A repeated request refreshes what is cached.                            *)
LEMMA TouchedCached ==
  ASSUME NEW b \in Ledger, Cached(b), NEW t \in Ticket, b.recent[t] > 0
  PROVE  Cached([b EXCEPT !.recent = Remember(@, {t})])
<1>1. Remember(b.recent, {t}) \in [Ticket -> 0 .. RecentMax]
  BY RememberType DEF Ledger
<1>2. Aged(b, [b EXCEPT !.recent = Remember(@, {t})])
  BY <1>1 DEF Aged, Ledger
<1>. QED
  BY <1>2, AgedCached

LEMMA OpenedCached ==
  ASSUME NEW b \in Ledger, Books(b), Cached(b), NEW r \in Menu,
         NEW t \in Ticket, t = Fresh(b), Known(b, r.id) = {}
  PROVE  Opened(b, t, r) \in Ledger /\ Cached(Opened(b, t, r))
<1> DEFINE c == Opened(b, t, r)
<1>1. /\ c \in Ledger /\ Created(c) = Created(b) \cup {t}
      /\ c.req = [b.req EXCEPT ![t] = r] /\ c.pending = b.pending \cup {t} /\ c.ack = b.ack
  BY OpenedBooks
<1>2. c.recent = Remember(b.recent, {t})
  BY DEF Opened, Ledger
<1>3. t \notin Created(b) /\ Created(b) \subseteq Ticket
  BY FreshTicket DEF Created
<1>4. PICK O \in SUBSET Created(b) :
        /\ b.pending \subseteq O
        /\ \A x \in Created(b) \ O : b.ack[x] \in Terminal
        /\ \E N : Newest(b.recent, O, N)
        /\ \A x, y \in O : x = y \/ b.req[x].id # b.req[y].id
                           \/ Cardinality(Created(b) \ {x, y}) >= RecentMax
  BY DEF Cached
<1>5. PICK N : Newest(b.recent, O, N)
  BY <1>4
<1> HIDE DEF c
<1>6. c.req[t] = r /\ \A x \in Created(b) : c.req[x] = b.req[x]
  BY <1>1, <1>3 DEF Ledger
<1>7. \E M : Newest(c.recent, O \cup {t}, M)
  <2>1. O \in SUBSET Ticket /\ b.recent \in [Ticket -> 0 .. RecentMax] /\ {t} \in SUBSET Ticket
    BY <1>3 DEF Ledger
  <2>. QED
    BY <1>2, <1>5, <2>1, RememberOrder
<1>8. RecentMax \in Nat
  BY LedgerAssumption
<1>9. ASSUME NEW x \in O, b.req[x].id = r.id
      PROVE  Cardinality(Created(c) \ {x, t}) >= RecentMax
  <2>1. x \notin b.pending /\ ~(b.recent[x] > 0)
    BY <1>9 DEF Known
  <2>2. /\ N[x] \in SUBSET O /\ x \notin N[x]
        /\ b.recent[x] = IF RecentMax > Cardinality(N[x])
                           THEN RecentMax - Cardinality(N[x]) ELSE 0
    BY <1>5 DEF Newest
  <2>3. N[x] \subseteq Created(c) \ {x, t}
    BY <1>1, <1>3, <2>2
  <2>4. N[x] \in SUBSET Ticket /\ Created(c) \ {x, t} \in SUBSET Ticket
    BY <1>1, <1>3, <2>2
  <2>5. /\ Cardinality(N[x]) \in Nat /\ Cardinality(Created(c) \ {x, t}) \in Nat
        /\ Cardinality(N[x]) <= Cardinality(Created(c) \ {x, t})
    BY <2>3, <2>4, TicketSets
  <2>6. Cardinality(N[x]) >= RecentMax
    BY <1>8, <2>1, <2>2, <2>5
  <2>. QED
    BY <1>8, <2>5, <2>6
<1>10. ASSUME NEW x \in O, NEW y \in O, x # y, b.req[x].id = b.req[y].id
       PROVE  Cardinality(Created(c) \ {x, y}) >= RecentMax
  <2>1. Created(b) \ {x, y} \in SUBSET Ticket /\ Created(c) \ {x, y} \in SUBSET Ticket
    BY <1>1, <1>3
  <2>2. Created(b) \ {x, y} \subseteq Created(c) \ {x, y}
    BY <1>1
  <2>3. /\ Cardinality(Created(b) \ {x, y}) \in Nat /\ Cardinality(Created(c) \ {x, y}) \in Nat
        /\ Cardinality(Created(b) \ {x, y}) <= Cardinality(Created(c) \ {x, y})
    BY <2>1, <2>2, TicketSets
  <2>. QED
    BY <1>4, <1>8, <1>10, <2>3
<1>11. \A x, y \in O \cup {t} : x = y \/ c.req[x].id # c.req[y].id
                                \/ Cardinality(Created(c) \ {x, y}) >= RecentMax
  <2>1. ASSUME NEW x \in O \cup {t}, NEW y \in O \cup {t}, x # y, c.req[x].id = c.req[y].id
        PROVE  Cardinality(Created(c) \ {x, y}) >= RecentMax
    <3>1. CASE x = t
      <4>1. y \in O /\ b.req[y].id = r.id /\ {x, y} = {y, t}
        BY <1>6, <2>1, <3>1
      <4>. QED
        BY <1>9, <4>1
    <3>2. CASE y = t
      <4>1. x \in O /\ b.req[x].id = r.id
        BY <1>6, <2>1, <3>2
      <4>. QED
        BY <1>9, <3>2, <4>1
    <3>3. CASE x # t /\ y # t
      <4>1. x \in O /\ y \in O /\ b.req[x].id = b.req[y].id
        BY <1>6, <2>1, <3>3
      <4>. QED
        BY <1>10, <2>1, <4>1
    <3>. QED
      BY <3>1, <3>2, <3>3
  <2>. QED
    BY <2>1
<1>12. c.pending \subseteq O \cup {t} /\ O \cup {t} \in SUBSET Created(c)
  BY <1>1, <1>4
<1>13. \A x \in Created(c) \ (O \cup {t}) : c.ack[x] \in Terminal
  BY <1>1, <1>4
<1>14. Cached(c)
  BY <1>7, <1>11, <1>12, <1>13 DEF Cached
<1>. QED
  BY <1>1, <1>14 DEF c

(* A ticket that is refused at once is never remembered.                   *)
LEMMA RefusedCached ==
  ASSUME NEW b \in Ledger, Books(b), Cached(b), NEW r \in Menu,
         NEW t \in Ticket, t = Fresh(b)
  PROVE  Cached(Finished(Entered(b, t, r), {t}, "failed"))
<1> DEFINE e == Entered(b, t, r)
           c == Finished(e, {t}, "failed")
<1>1. RefusedIn(b, c, t, r)
  BY RefusedBooks DEF Terminal
<1>2. t \notin Created(b) /\ t \notin b.pending /\ Created(b) \subseteq Ticket
  BY FreshTicket DEF Created, Books
<1>3. c.recent = Remember(b.recent, {})
  <2>1. e \in Ledger /\ e.recent = b.recent /\ e.pending = b.pending
    BY OpenedType DEF Entered, Ledger
  <2> HIDE DEF e
  <2>2. {t} \cap e.pending = {}
    BY <1>2, <2>1
  <2>3. c.recent = Remember(e.recent, {t} \cap e.pending)
    BY <2>1 DEF Finished, Ledger
  <2>. QED
    BY <2>1, <2>2, <2>3
<1>4. PICK O \in SUBSET Created(b) :
        /\ b.pending \subseteq O
        /\ \A x \in Created(b) \ O : b.ack[x] \in Terminal
        /\ \E N : Newest(b.recent, O, N)
        /\ \A x, y \in O : x = y \/ b.req[x].id # b.req[y].id
                           \/ Cardinality(Created(b) \ {x, y}) >= RecentMax
  BY DEF Cached
<1>5. \E M : Newest(c.recent, O, M)
  <2>1. O \in SUBSET Ticket /\ b.recent \in [Ticket -> 0 .. RecentMax] /\ {} \in SUBSET Ticket
    BY <1>2 DEF Ledger
  <2>2. \E M : Newest(Remember(b.recent, {}), O \cup {}, M)
    BY <1>4, <2>1, RememberOrder
  <2>3. O \cup {} = O
    OBVIOUS
  <2>. QED
    BY <1>3, <2>2, <2>3
<1> HIDE DEF c
<1>6. /\ Created(c) = Created(b) \cup {t} /\ c.pending = b.pending
      /\ c.req = [b.req EXCEPT ![t] = r]
      /\ \A u \in Ticket \ {t} : c.ack[u] = b.ack[u]
      /\ c.ack[t] \in Terminal
  BY <1>1 DEF RefusedIn
<1>7. \A x \in Created(b) : c.req[x] = b.req[x]
  BY <1>2, <1>6 DEF Ledger
<1>8. RecentMax \in Nat
  BY LedgerAssumption
<1>9. ASSUME NEW x \in O, NEW y \in O, x # y, c.req[x].id = c.req[y].id
      PROVE  Cardinality(Created(c) \ {x, y}) >= RecentMax
  <2>1. Created(b) \ {x, y} \in SUBSET Ticket /\ Created(c) \ {x, y} \in SUBSET Ticket
    BY <1>2, <1>6
  <2>2. Created(b) \ {x, y} \subseteq Created(c) \ {x, y}
    BY <1>6
  <2>3. /\ Cardinality(Created(b) \ {x, y}) \in Nat /\ Cardinality(Created(c) \ {x, y}) \in Nat
        /\ Cardinality(Created(b) \ {x, y}) <= Cardinality(Created(c) \ {x, y})
    BY <2>1, <2>2, TicketSets
  <2>. QED
    BY <1>4, <1>7, <1>8, <1>9, <2>3
<1>10. \A x \in Created(c) \ O : c.ack[x] \in Terminal
  BY <1>2, <1>4, <1>6
<1>11. c.pending \subseteq O /\ O \in SUBSET Created(c)
  BY <1>4, <1>6
<1>12. \A x, y \in O : x = y \/ c.req[x].id # c.req[y].id
                       \/ Cardinality(Created(c) \ {x, y}) >= RecentMax
  BY <1>9
<1>13. Cached(c)
  BY <1>5, <1>10, <1>11, <1>12 DEF Cached
<1>. QED
  BY <1>13 DEF c, e
=============================================================================
