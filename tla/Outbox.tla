------------------------------- MODULE Outbox -------------------------------
(***************************************************************************)
(* The transactional outbox of SQLTaskRepository: executions insert events *)
(* in the transaction that saves their task, delivery workers lease them   *)
(* with claim_outbox, and plain readers list them with pending_outbox;     *)
(* both acknowledge what they delivered.                                   *)
(*                                                                         *)
(* Time is counted in what is left of each lease, so a clock that never    *)
(* stops has finitely many states: claim_expires_at <= now is left <= 0.   *)
(* claim_outbox reads the clock before its transaction begins, so what it  *)
(* compares and what it grants are both late by the client's wait.  On     *)
(* PostgreSQL ack_outbox reads the row without a lock and writes it in a   *)
(* later statement; on SQLite the writer lock joins the two steps.         *)
(***************************************************************************)
EXTENDS Integers, FiniteSets

CONSTANTS NumEvents,    \* events 1..NumEvents, in order of occurred_at
          Workers,      \* delivery workers, each with its own owner_id
          Readers,      \* clients of pending_outbox: they pass no owner_id
          NoOwner,      \* claim_owner is NULL
          Limit,        \* the most events one claim or listing returns
          Lease,        \* lease_seconds
          MaxWait,      \* bound on a transaction's wait for its database
          MaxFaults     \* bound on crashes and on leases a live worker outlasts

ASSUME OutboxAssumption ==
    /\ NumEvents \in Nat
    /\ Limit \in Nat \ {0}
    /\ Lease \in Nat \ {0}
    /\ MaxWait \in Nat
    /\ MaxFaults \in Nat
    /\ NoOwner \notin Workers \cup Readers
    /\ Workers \cap Readers = {}

VARIABLES rows,         \* OutboxRow, per event
          client,       \* the worker's or reader's own program state
          delivered,    \* events that reached the consumer (external)
          faults        \* crashes and outlasted leases so far

vars == <<rows, client, delivered, faults>>

Events == 1..NumEvents
Clients == Workers \cup Readers
Stages == {"idle", "claiming", "delivering", "acking"}

Row == [state : {"absent", "pending", "acked"}, owner : Workers \cup {NoOwner},
        left : -MaxWait..Lease]

Client == [stage : Stages, wait : 0..MaxWait, batch : SUBSET Events,
           done : SUBSET Events, left : -MaxWait..Lease,
           acking : 0..NumEvents]

AbsentRow == [state |-> "absent", owner |-> NoOwner, left |-> 0]

IdleClient == [stage |-> "idle", wait |-> 0, batch |-> {}, done |-> {}, left |-> 0,
               acking |-> 0]

\* Rows and clients are well formed, and a client holds no unknown event.
TypeOK ==
    /\ rows \in [Events -> Row]
    /\ client \in [Clients -> Client]
    /\ delivered \subseteq Events
    /\ faults \in 0..MaxFaults

Init ==
    /\ rows = [e \in Events |-> AbsentRow]
    /\ client = [c \in Clients |-> IdleClient]
    /\ delivered = {}
    /\ faults = 0
-----------------------------------------------------------------------------
(* Publication, by create(), save() and the replay of the journal.         *)

\* Mutant of InsertEvent: a replayed event is written over its row.
InsertEventAgain(e) ==
    /\ rows' = [rows EXCEPT ![e] = [AbsentRow EXCEPT !.state = "pending"]]
    /\ UNCHANGED <<client, delivered, faults>>

\* An event is inserted once: an event_id that is there already, pending or
\* acknowledged, is left alone.
InsertEvent(e) ==
    /\ rows' = [rows EXCEPT ![e] = IF @.state = "absent"
                                   THEN [AbsentRow EXCEPT !.state = "pending"] ELSE @]
    /\ UNCHANGED <<client, delivered, faults>>
-----------------------------------------------------------------------------
(* Listing and leasing.                                                    *)

Pending(e) == rows[e].state = "pending"

\* The first Limit members, in the order of the events.
FirstOf(S) == {e \in S : Cardinality({f \in S : f < e}) < Limit}

\* pending_outbox lists events whoever leases them.
ListPending(c) ==
    /\ c \in Readers
    /\ client[c].stage = "idle"
    /\ \E e \in Events : Pending(e)
    /\ client' = [client EXCEPT ![c].stage = "delivering",
                                ![c].batch = FirstOf({e \in Events : Pending(e)})]
    /\ UNCHANGED <<rows, delivered, faults>>

\* claim_outbox reads the clock, then waits for its transaction.
ClaimBegins(w) ==
    /\ client[w].stage = "idle"
    /\ client' = [client EXCEPT ![w].stage = "claiming", ![w].wait = 0]
    /\ UNCHANGED <<rows, delivered, faults>>

\* Mutant of Claimable: a lease is not looked at.
ClaimableAlways(w, e) == Pending(e)

\* Mutant of Claimable: a lease that ended is not offered again.
ClaimableOnce(w, e) == Pending(e) /\ rows[e].owner = NoOwner

\* A row can be claimed when nobody leases it, when its lease had expired by
\* the time the client read the clock, or when the client leases it itself.
Claimable(w, e) ==
    /\ Pending(e)
    /\ \/ rows[e].owner \in {NoOwner, w}
       \/ rows[e].left <= -client[w].wait

\* The claim commits: the rows are leased from the time the clock was read.
ClaimCommits(w) ==
    LET taken == FirstOf({e \in Events : Claimable(w, e)})
        left  == Lease - client[w].wait
    IN  /\ client[w].stage = "claiming"
        /\ rows' = [e \in Events |-> IF e \in taken
                                     THEN [rows[e] EXCEPT !.owner = w, !.left = left]
                                     ELSE rows[e]]
        /\ client' = [client EXCEPT ![w] = [IdleClient EXCEPT
                          !.stage = IF taken = {} THEN "idle" ELSE "delivering",
                          !.batch = taken, !.left = left]]
        /\ UNCHANGED <<delivered, faults>>

\* The claim is answered with RepositoryUnavailable, before its commit or
\* after it; the worker then does not know what it leases.
ClaimFails(w) ==
    /\ client[w].stage = "claiming"
    /\ faults < MaxFaults
    /\ faults' = faults + 1
    /\ \/ UNCHANGED rows
       \/ \E taken \in {FirstOf({e \in Events : Claimable(w, e)})} :
              rows' = [e \in Events |-> IF e \in taken
                           THEN [rows[e] EXCEPT !.owner = w, !.left = Lease - client[w].wait]
                           ELSE rows[e]]
    /\ client' = [client EXCEPT ![w] = IdleClient]
    /\ UNCHANGED delivered
-----------------------------------------------------------------------------
(* Delivery, by the client, and ack_outbox.                                *)

Owner(c) == IF c \in Workers THEN c ELSE NoOwner

Deliver(c, e) ==
    /\ client[c].stage = "delivering"
    /\ e \in client[c].batch \ client[c].done
    /\ delivered' = delivered \cup {e}
    /\ client' = [client EXCEPT ![c].done = @ \cup {e}]
    /\ UNCHANGED <<rows, faults>>

\* The client has its answer, True or False, and turns to its next event.
Answered(c, e) ==
    LET me   == client[c]
        rest == me.batch \ {e}
    IN  [client EXCEPT ![c] = IF rest = {} THEN IdleClient
                              ELSE [me EXCEPT !.stage = "delivering", !.batch = rest,
                                              !.done = me.done \ {e}, !.acking = 0]]

\* ack_outbox would write the row: it is unacknowledged, and leased to
\* nobody or, unexpired, to this owner.
Acknowledgeable(c, e) ==
    /\ Pending(e)
    /\ rows[e].owner = Owner(c)
    /\ (rows[e].owner # NoOwner) => rows[e].left > 0

\* The transaction reads the row and, unless it may write, answers; an
\* acknowledged row is answered True to its owner and is not written again.
AckReads(c, e) ==
    /\ client[c].stage = "delivering"
    /\ e \in client[c].batch \cap client[c].done
    /\ client' = IF Acknowledgeable(c, e)
                 THEN [client EXCEPT ![c].stage = "acking", ![c].acking = e]
                 ELSE Answered(c, e)
    /\ UNCHANGED <<rows, delivered, faults>>

\* The UPDATE sets acknowledged_at of the row it read, and commits.  Nothing
\* reads the expiry of an acknowledged row.
AckWrites(c, e) ==
    /\ client[c].stage = "acking"
    /\ client[c].acking = e
    /\ rows' = [rows EXCEPT ![e].state = "acked", ![e].left = 0]
    /\ client' = Answered(c, e)
    /\ UNCHANGED <<delivered, faults>>

\* The acknowledgement is rolled back; the event is left to its lease.
AckFails(c, e) ==
    /\ client[c].stage = "acking"
    /\ client[c].acking = e
    /\ faults < MaxFaults
    /\ faults' = faults + 1
    /\ client' = Answered(c, e)
    /\ UNCHANGED <<rows, delivered>>
-----------------------------------------------------------------------------
(* Time and crashes.                                                       *)

Leased(e) == Pending(e) /\ rows[e].owner # NoOwner

\* A live worker's lease runs out before it has finished its batch.
Outlasted(w) == client[w].batch # {} /\ client[w].left = 1

Sooner(n) == IF n > -MaxWait THEN n - 1 ELSE n

\* Time passes for every lease and every wait.  A worker may outlast its
\* lease only finitely often, and a transaction waits no longer than the
\* timeout of its connection.
Tick ==
    /\ \E e \in Events : Leased(e)
    /\ \A w \in Workers : client[w].stage = "claiming" => client[w].wait < MaxWait
    /\ IF \E w \in Workers : Outlasted(w)
       THEN faults < MaxFaults /\ faults' = faults + 1
       ELSE UNCHANGED faults
    /\ rows' = [e \in Events |-> IF Leased(e) THEN [rows[e] EXCEPT !.left = Sooner(@)]
                                              ELSE rows[e]]
    /\ client' = [c \in Clients |->
                    CASE client[c].stage = "claiming" -> [client[c] EXCEPT !.wait = @ + 1]
                      [] client[c].batch # {} /\ c \in Workers ->
                            [client[c] EXCEPT !.left = Sooner(@)]
                      [] OTHER -> client[c]]
    /\ UNCHANGED delivered

\* A client dies and starts again with the same owner_id and an empty batch.
Crash(c) ==
    /\ client[c].stage # "idle"
    /\ faults < MaxFaults
    /\ faults' = faults + 1
    /\ client' = [client EXCEPT ![c] = IdleClient]
    /\ UNCHANGED <<rows, delivered>>

WorkerStep(w) ==
    \/ ClaimBegins(w)
    \/ ClaimCommits(w)
    \/ \E e \in Events : Deliver(w, e) \/ AckReads(w, e) \/ AckWrites(w, e)

Next ==
    \/ \E e \in Events : InsertEvent(e)
    \/ \E w \in Workers : WorkerStep(w) \/ ClaimFails(w)
    \/ \E c \in Readers :
           \/ ListPending(c)
           \/ \E e \in Events : Deliver(c, e) \/ AckReads(c, e) \/ AckWrites(c, e)
    \/ \E c \in Clients : Crash(c) \/ \E e \in Events : AckFails(c, e)
    \/ Tick

\* Workers poll for ever and time passes; nothing makes a plain reader run.
Spec ==
    /\ Init
    /\ [][Next]_vars
    /\ \A w \in Workers : WF_vars(WorkerStep(w))
    /\ WF_vars(Tick)
-----------------------------------------------------------------------------
\* claim_outbox leases an event to one worker at a time: of two workers that
\* both hold an event in their batch, at most one is still inside the lease
\* it was given, whatever transactions waited, failed or were repeated.
OneLeaseHolder ==
    \A e \in Events, v, w \in Workers :
        (/\ e \in client[v].batch /\ client[v].left > 0
         /\ e \in client[w].batch /\ client[w].left > 0
         /\ Pending(e)) => v = w

\* What the executions see of a row: leases are left out.
DeliveryState ==
    [e \in Events |-> IF rows[e].state = "acked" THEN "finished" ELSE rows[e].state]

Abstract == INSTANCE Delivery WITH state <- DeliveryState

\* Leases, late clocks, lost commits and crashed workers together keep the
\* promise of Delivery: an event is finished only after its consumer had it,
\* and a replay of the journal never makes a finished event pending again.
ImplementsDelivery == Abstract!Spec

\* While workers poll, every event that was inserted is acknowledged in the
\* end: no lease of a dead worker and no listing keeps it for ever.
EventuallyAcknowledged ==
    \A e \in Events : Pending(e) ~> rows[e].state = "acked"
=============================================================================
