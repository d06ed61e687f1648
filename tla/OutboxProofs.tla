---------------------------- MODULE OutboxProofs ----------------------------
(***************************************************************************)
(* Proofs about the outbox, for any number of events, workers, readers and *)
(* faults and any lease and batch size.  A lease is granted from a clock   *)
(* that was read before the transaction began, so the argument compares    *)
(* what is left of a lease in the row with what is left of it in the head  *)
(* of its worker (LeasesAreRows): the row never runs out first.            *)
(***************************************************************************)
EXTENDS Outbox, TLAPS

\* A client that is not delivering holds nothing, and only workers claim.
HoldsNothingIdle ==
    \A c \in Clients : /\ client[c].stage \in {"idle", "claiming"} => client[c].batch = {}
                       /\ client[c].stage = "claiming" => c \in Workers

\* A client holds events that were inserted.
HeldExist == \A c \in Clients : \A e \in client[c].batch : rows[e].state # "absent"

\* What a client has done was delivered.
DoneIsDelivered == \A c \in Clients : client[c].done \subseteq delivered

\* An acknowledgement in progress is of a held event that was delivered.
AcksAreDone ==
    \A c \in Clients : client[c].stage = "acking" =>
        client[c].acking \in client[c].batch \cap client[c].done

\* A worker inside its lease of a pending event is the owner in the row, and
\* the row grants it at least as long as the worker believes.
LeasesAreRows ==
    \A w \in Workers : \A e \in client[w].batch :
        client[w].left > 0 /\ Pending(e) =>
            rows[e].owner = w /\ rows[e].left >= client[w].left

Inv ==
    /\ TypeOK /\ HoldsNothingIdle /\ HeldExist /\ DoneIsDelivered
    /\ AcksAreDone /\ LeasesAreRows

LEMMA FirstOfIsPart == ASSUME NEW S PROVE FirstOf(S) \subseteq S
  BY DEF FirstOf

LEMMA IdleClientTyped == IdleClient \in Client
  BY OutboxAssumption DEF IdleClient, Client, Stages, Events

\* A lease counted from a clock read at most MaxWait ago.  The second conjunct, that it
\* is a number, is in the form in which LeasingInv compares the row with the worker.
LEMMA LateLease ==
    ASSUME NEW n \in 0..MaxWait
    PROVE  Lease - n \in -MaxWait..Lease /\ Lease - n >= Lease - n
  BY OutboxAssumption

\* A lease that has something left had not expired when the clock was read.
LEMMA NotExpired ==
    ASSUME NEW m \in -MaxWait..Lease, NEW n \in -MaxWait..Lease, NEW k \in 0..MaxWait,
           n > 0, m >= n
    PROVE  ~(m <= -k)
  BY OutboxAssumption

LEMMA InitInv == Init => Inv
<1> SUFFICES ASSUME Init PROVE Inv
  OBVIOUS
<1>1. AbsentRow \in Row
  BY OutboxAssumption DEF AbsentRow, Row
<1>2. TypeOK
  BY <1>1, IdleClientTyped, OutboxAssumption DEF Init, TypeOK
<1>3. \A c \in Clients : client[c].stage = "idle" /\ client[c].batch = {} /\ client[c].done = {}
  BY DEF Init, IdleClient
<1>4. HoldsNothingIdle /\ HeldExist /\ DoneIsDelivered /\ AcksAreDone /\ LeasesAreRows
  BY <1>3 DEF HoldsNothingIdle, HeldExist, DoneIsDelivered, AcksAreDone, LeasesAreRows, Clients
<1>5. QED
  BY <1>2, <1>4 DEF Inv

\* A step that changes one client and no row keeps the invariant if that client's
\* new state does.
LEMMA ClientStepInv ==
    ASSUME Inv, NEW c \in Clients, NEW x \in Client,
           client' = [client EXCEPT ![c] = x], rows' = rows,
           delivered \subseteq delivered', delivered' \subseteq Events,
           faults' \in 0..MaxFaults,
           x.stage \in {"idle", "claiming"} => x.batch = {},
           x.stage = "claiming" => c \in Workers,
           \A e \in x.batch : rows[e].state # "absent",
           x.done \subseteq delivered',
           x.stage = "acking" => x.acking \in x.batch \cap x.done,
           c \in Workers => \A e \in x.batch :
               x.left > 0 /\ Pending(e) => rows[e].owner = c /\ rows[e].left >= x.left
    PROVE  Inv'
<1> USE DEF Inv
<1>1. client'[c] = x /\ \A d \in Clients : d # c => client'[d] = client[d]
  BY DEF TypeOK
<1>2. TypeOK'
  BY DEF TypeOK
<1>3. HoldsNothingIdle' /\ HeldExist' /\ DoneIsDelivered' /\ AcksAreDone'
  BY <1>1 DEF HoldsNothingIdle, HeldExist, DoneIsDelivered, AcksAreDone
<1>4. LeasesAreRows'
  BY <1>1 DEF LeasesAreRows, Pending, Clients
<1>5. QED
  BY <1>2, <1>3, <1>4

\* Going idle is always safe.
LEMMA IdleStepInv ==
    ASSUME Inv, NEW c \in Clients, client' = [client EXCEPT ![c] = IdleClient],
           rows' = rows, delivered' = delivered, faults' \in 0..MaxFaults
    PROVE  Inv'
<1>1. IdleClient.stage = "idle" /\ IdleClient.batch = {} /\ IdleClient.done = {}
  BY DEF IdleClient
<1>2. delivered \subseteq Events
  BY DEF Inv, TypeOK
<1>3. QED
  BY <1>1, <1>2, IdleClientTyped, ClientStepInv

\* Leaving an event that was answered is safe.
LEMMA AnsweredInv ==
    ASSUME Inv, NEW c \in Clients, NEW e \in Events, client' = Answered(c, e),
           rows' = rows, delivered' = delivered, faults' \in 0..MaxFaults
    PROVE  Inv'
<1> DEFINE rest == client[c].batch \ {e}
           x == [client[c] EXCEPT !.stage = "delivering", !.batch = rest,
                                  !.done = client[c].done \ {e}, !.acking = 0]
<1>1. CASE rest = {}
  BY <1>1, IdleStepInv DEF Answered
<1>2. CASE rest # {}
  <2>0. client[c] \in Client
    BY DEF Inv, TypeOK
  <2>1. client' = [client EXCEPT ![c] = x]
    BY <1>2 DEF Answered
  <2>2. /\ x \in Client /\ x.stage = "delivering" /\ x.batch = rest
        /\ x.done = client[c].done \ {e} /\ x.left = client[c].left
    <3>1. 0 \in 0..NumEvents
      BY OutboxAssumption
    <3>2. QED
      BY <2>0, <3>1 DEF Client, Stages
  <2>3. x.done \subseteq delivered' /\ delivered' \subseteq Events
    BY <2>2 DEF Inv, DoneIsDelivered, TypeOK
  <2>4. \A f \in x.batch : rows[f].state # "absent"
    BY <2>2 DEF Inv, HeldExist
  <2>5. c \in Workers => \A f \in x.batch :
          x.left > 0 /\ Pending(f) => rows[f].owner = c /\ rows[f].left >= x.left
    BY <2>2 DEF Inv, LeasesAreRows
  <2> HIDE DEF x
  <2>6. QED
    BY <2>1, <2>2, <2>3, <2>4, <2>5, ClientStepInv
<1>3. QED
  BY <1>1, <1>2

\* A claim, answered or not, leases only rows that no worker is inside its lease of.
LEMMA LeasingInv ==
    ASSUME Inv, NEW w \in Workers, client[w].stage = "claiming",
           NEW taken, taken \subseteq {e \in Events : Claimable(w, e)},
           NEW x \in Client, x.done = {}, x.stage # "acking",
           x.stage \in {"idle", "claiming"} => x.batch = {},
           x.batch = {} \/ (x.batch = taken /\ x.left = Lease - client[w].wait),
           rows' = [e \in Events |-> IF e \in taken
                       THEN [rows[e] EXCEPT !.owner = w, !.left = Lease - client[w].wait]
                       ELSE rows[e]],
           client' = [client EXCEPT ![w] = x], delivered' = delivered,
           faults' \in 0..MaxFaults
    PROVE  Inv'
<1> DEFINE L == Lease - client[w].wait
           leased(e) == [rows[e] EXCEPT !.owner = w, !.left = L]
<1>1. w \in Clients /\ client[w] \in Client /\ client[w].wait \in 0..MaxWait
  BY DEF Inv, TypeOK, Clients, Client
<1>2. L \in -MaxWait..Lease /\ L >= L
  BY <1>1, LateLease
<1>3. client'[w] = x /\ \A d \in Clients : d # w => client'[d] = client[d]
  BY <1>1 DEF Inv, TypeOK
<1>4. \A e \in Events : /\ rows[e] \in Row /\ leased(e) \in Row
                        /\ leased(e).state = rows[e].state
                        /\ leased(e).owner = w /\ leased(e).left = L
  BY <1>2 DEF Inv, TypeOK, Row
<1>5. \A e \in Events : rows'[e] = IF e \in taken THEN leased(e) ELSE rows[e]
  OBVIOUS
<1>6. \A e \in taken : e \in Events /\ Pending(e)
                      /\ (rows[e].owner \in {NoOwner, w} \/ rows[e].left <= -client[w].wait)
  BY DEF Claimable
<1> HIDE DEF leased, L
<1>7. TypeOK'
  <2>1. rows' \in [Events -> Row]
    BY <1>4, <1>5 DEF leased, L
  <2>2. client' \in [Clients -> Client]
    BY DEF Inv, TypeOK
  <2>3. QED
    BY <2>1, <2>2 DEF Inv, TypeOK
<1>8. \A e \in Events : rows'[e].state = rows[e].state
  BY <1>4, <1>5
<1>9. HoldsNothingIdle' /\ DoneIsDelivered' /\ AcksAreDone'
  BY <1>3 DEF Inv, HoldsNothingIdle, DoneIsDelivered, AcksAreDone
<1>10. HeldExist'
  <2>1. \A d \in Clients : client[d].batch \subseteq Events
    BY DEF Inv, TypeOK, Client
  <2>2. ASSUME NEW d \in Clients, d # w PROVE \A e \in client'[d].batch : rows'[e].state # "absent"
    BY <1>3, <1>8, <2>1, <2>2 DEF Inv, HeldExist
  <2>3. \A e \in x.batch : rows'[e].state # "absent"
    BY <1>6, <1>8 DEF Pending
  <2>4. QED
    BY <1>3, <2>2, <2>3 DEF HeldExist
<1>11. LeasesAreRows'
  <2> SUFFICES ASSUME NEW v \in Workers, NEW e \in client'[v].batch,
                      client'[v].left > 0, Pending(e)'
               PROVE  rows'[e].owner = v /\ rows'[e].left >= client'[v].left
    BY DEF LeasesAreRows
  <2>1. v \in Clients
    BY DEF Clients
  <2>2. CASE v = w
    <3>1. e \in taken /\ x.left = L
      BY <1>3, <2>2 DEF L
    <3>2. rows'[e].owner = w /\ rows'[e].left = L
      BY <1>4, <1>5, <1>6, <3>1
    <3>3. client'[v].left = L
      BY <1>3, <2>2, <3>1
    <3>4. QED
      BY <1>2, <2>2, <3>2, <3>3
  <2>3. CASE v # w
    <3>1. client'[v] = client[v] /\ client[v] \in Client
      BY <1>3, <2>1, <2>3 DEF Inv, TypeOK
    <3>2. e \in Events /\ Pending(e)
      BY <1>8, <3>1 DEF Client, Pending
    <3>3. rows[e].owner = v /\ rows[e].left >= client[v].left
      BY <3>1, <3>2 DEF Inv, LeasesAreRows
    <3>4. client[v].left \in -MaxWait..Lease /\ rows[e].left \in -MaxWait..Lease
      BY <1>4, <3>1, <3>2 DEF Client, Row
    <3>5. ~(rows[e].left <= -client[w].wait)
      BY <1>1, <3>1, <3>3, <3>4, NotExpired
    <3>6. rows[e].owner \notin {NoOwner, w}
      BY <2>3, <3>3, OutboxAssumption
    <3>7. e \notin taken
      BY <1>6, <3>5, <3>6
    <3>8. QED
      BY <1>5, <3>1, <3>2, <3>3, <3>7
  <2>4. QED
    BY <2>2, <2>3
<1>12. QED
  BY <1>7, <1>9, <1>10, <1>11 DEF Inv

LEMMA InsertInv == ASSUME Inv, NEW e \in Events, InsertEvent(e) PROVE Inv'
<1> DEFINE new == [AbsentRow EXCEPT !.state = "pending"]
<1>1. new \in Row
  BY OutboxAssumption DEF AbsentRow, Row
<1>2. \A f \in Events : rows'[f] = IF f = e /\ rows[f].state = "absent" THEN new ELSE rows[f]
  BY DEF InsertEvent, Inv, TypeOK
<1>3. TypeOK'
  BY <1>1, OutboxAssumption DEF InsertEvent, Inv, TypeOK
<1>4. \A c \in Clients : \A f \in client[c].batch : f \in Events /\ rows'[f] = rows[f]
  BY <1>2 DEF Inv, HeldExist, TypeOK, Client
<1>5. client' = client /\ delivered' = delivered
  BY DEF InsertEvent
<1>6. HoldsNothingIdle' /\ HeldExist' /\ DoneIsDelivered' /\ AcksAreDone'
  BY <1>4, <1>5 DEF Inv, HoldsNothingIdle, HeldExist, DoneIsDelivered, AcksAreDone
<1>7. LeasesAreRows'
  BY <1>4, <1>5 DEF Inv, LeasesAreRows, Pending, Clients
<1>8. QED
  BY <1>3, <1>6, <1>7 DEF Inv

LEMMA AckWritesInv ==
    ASSUME Inv, NEW c \in Clients, NEW e \in Events, AckWrites(c, e) PROVE Inv'
<1> DEFINE acked == [rows[e] EXCEPT !.state = "acked", !.left = 0]
           me == client[c]
           rest == me.batch \ {e}
           x == IF rest = {} THEN IdleClient
                ELSE [me EXCEPT !.stage = "delivering", !.batch = rest,
                                !.done = me.done \ {e}, !.acking = 0]
<1>1. me \in Client /\ \A d \in Clients : client[d].batch \subseteq Events
  BY DEF Inv, TypeOK, Client
<1>2. x \in Client /\ x.batch \subseteq me.batch /\ x.done \subseteq me.done
        /\ x.stage \in {"idle", "delivering"} /\ (x.stage = "idle" => x.batch = {})
        /\ (x.batch # {} => x.left = me.left)
  <2>1. 0 \in 0..NumEvents
    BY OutboxAssumption
  <2>2. CASE rest = {}
    BY <2>2, IdleClientTyped DEF IdleClient
  <2>3. CASE rest # {}
    BY <1>1, <2>1, <2>3 DEF Client, Stages
  <2>4. QED
    BY <2>2, <2>3
<1>3. client' = [client EXCEPT ![c] = x]
  BY DEF AckWrites, Answered
<1>4. client'[c] = x /\ \A d \in Clients : d # c => client'[d] = client[d]
  BY <1>3 DEF Inv, TypeOK
<1>5. acked \in Row /\ acked.state = "acked"
  <2>1. 0 \in -MaxWait..Lease
    BY OutboxAssumption
  <2>2. QED
    BY <2>1 DEF Inv, TypeOK, Row
<1>6. rows' \in [Events -> Row] /\ \A f \in Events : rows'[f] = IF f = e THEN acked ELSE rows[f]
  BY <1>5 DEF AckWrites, Inv, TypeOK
<1> HIDE DEF x, acked
<1>7. TypeOK'
  BY <1>2, <1>3, <1>6 DEF AckWrites, Inv, TypeOK
<1>8. HoldsNothingIdle' /\ DoneIsDelivered' /\ AcksAreDone'
  BY <1>2, <1>4 DEF AckWrites, Inv, HoldsNothingIdle, DoneIsDelivered, AcksAreDone
<1>9. \A f \in Events : rows[f].state # "absent" => rows'[f].state # "absent"
  BY <1>5, <1>6
<1>10. HeldExist'
  BY <1>1, <1>2, <1>4, <1>9 DEF Inv, HeldExist
<1>11. LeasesAreRows'
  <2> SUFFICES ASSUME NEW v \in Workers, NEW f \in client'[v].batch,
                      client'[v].left > 0, Pending(f)'
               PROVE  rows'[f].owner = v /\ rows'[f].left >= client'[v].left
    BY DEF LeasesAreRows
  <2>1. v \in Clients
    BY DEF Clients
  <2>2. f \in client[v].batch /\ client'[v].left = client[v].left
    BY <1>2, <1>4, <2>1
  <2>3. f \in Events /\ f # e /\ rows'[f] = rows[f]
    BY <1>1, <1>5, <1>6, <2>1, <2>2 DEF Pending
  <2>4. QED
    BY <2>2, <2>3 DEF Inv, LeasesAreRows, Pending
<1>12. QED
  BY <1>7, <1>8, <1>10, <1>11 DEF Inv

\* Time passes alike for a row and for the worker that leases it.
LEMMA SoonerKeeps ==
    ASSUME NEW m \in -MaxWait..Lease, NEW n \in -MaxWait..Lease
    PROVE  /\ Sooner(n) \in -MaxWait..Lease
           /\ Sooner(n) > 0 => n > 0
           /\ Sooner(n) > 0 /\ m >= n => Sooner(m) >= Sooner(n)
  BY OutboxAssumption DEF Sooner

LEMMA TickInv == ASSUME Inv, Tick PROVE Inv'
<1>1. \A e \in Events : rows[e] \in Row
  BY DEF Inv, TypeOK
<1>2. \A e \in Events : /\ rows'[e] \in Row
                        /\ rows'[e].state = rows[e].state /\ rows'[e].owner = rows[e].owner
                        /\ rows'[e].left = IF Leased(e) THEN Sooner(rows[e].left) ELSE rows[e].left
  <2> SUFFICES ASSUME NEW e \in Events
               PROVE  /\ rows'[e] \in Row
                      /\ rows'[e].state = rows[e].state /\ rows'[e].owner = rows[e].owner
                      /\ rows'[e].left = IF Leased(e) THEN Sooner(rows[e].left) ELSE rows[e].left
    OBVIOUS
  <2>1. rows'[e] = IF Leased(e) THEN [rows[e] EXCEPT !.left = Sooner(rows[e].left)] ELSE rows[e]
    BY DEF Tick
  <2>2. rows[e].left \in -MaxWait..Lease
    BY <1>1 DEF Row
  <2>3. Sooner(rows[e].left) \in -MaxWait..Lease
    BY <2>2, SoonerKeeps
  <2>4. QED
    BY <1>1, <2>1, <2>3 DEF Row
<1>3. \A c \in Clients : client[c] \in Client
  BY DEF Inv, TypeOK
<1>4. \A c \in Clients :
        /\ client'[c] \in Client
        /\ client'[c].stage = client[c].stage /\ client'[c].batch = client[c].batch
        /\ client'[c].done = client[c].done /\ client'[c].acking = client[c].acking
        /\ c \in Workers /\ client[c].batch # {} => client'[c].left = Sooner(client[c].left)
  <2> SUFFICES ASSUME NEW c \in Clients
               PROVE  /\ client'[c] \in Client
                      /\ client'[c].stage = client[c].stage /\ client'[c].batch = client[c].batch
                      /\ client'[c].done = client[c].done /\ client'[c].acking = client[c].acking
                      /\ c \in Workers /\ client[c].batch # {} => client'[c].left = Sooner(client[c].left)
    OBVIOUS
  <2>1. client[c] \in Client /\ Sooner(client[c].left) \in -MaxWait..Lease
    <3>1. client[c].left \in -MaxWait..Lease
      BY <1>3 DEF Client
    <3>2. QED
      BY <1>3, <3>1, SoonerKeeps
  <2>2. CASE client[c].stage = "claiming"
    <3>1. client[c].batch = {}
      BY <2>2 DEF Inv, HoldsNothingIdle
    <3>2. client'[c] = [client[c] EXCEPT !.wait = client[c].wait + 1]
      BY <2>2, <3>1 DEF Tick
    <3>3. client[c].wait \in 0..MaxWait /\ client[c].wait < MaxWait
      BY <2>1, <2>2 DEF Tick, Inv, HoldsNothingIdle, Client
    <3>4. client[c].wait + 1 \in 0..MaxWait
      BY <3>3, OutboxAssumption
    <3>5. QED
      BY <2>1, <3>1, <3>2, <3>4 DEF Client
  <2>3. CASE client[c].stage # "claiming" /\ client[c].batch # {} /\ c \in Workers
    <3>1. client'[c] = [client[c] EXCEPT !.left = Sooner(client[c].left)]
      BY <2>3 DEF Tick
    <3>2. QED
      BY <2>1, <3>1 DEF Client
  <2>4. CASE client[c].stage # "claiming" /\ ~(client[c].batch # {} /\ c \in Workers)
    <3>1. client'[c] = client[c]
      BY <2>4 DEF Tick
    <3>2. QED
      BY <2>1, <2>4, <3>1
  <2>5. QED
    BY <2>2, <2>3, <2>4
<1>5. TypeOK'
  <2>1. rows' \in [Events -> Row] /\ client' \in [Clients -> Client]
    BY <1>2, <1>4 DEF Tick
  <2>2. faults' \in 0..MaxFaults
    BY OutboxAssumption DEF Tick, Inv, TypeOK
  <2>3. QED
    BY <2>1, <2>2 DEF Tick, Inv, TypeOK
<1>6. HoldsNothingIdle' /\ AcksAreDone'
  BY <1>4 DEF Inv, HoldsNothingIdle, AcksAreDone
<1>7. DoneIsDelivered'
  BY <1>4 DEF Tick, Inv, DoneIsDelivered
<1>8. HeldExist'
  BY <1>2, <1>3, <1>4 DEF Inv, HeldExist, Client
<1>9. LeasesAreRows'
  <2> SUFFICES ASSUME NEW w \in Workers, NEW e \in client'[w].batch,
                      client'[w].left > 0, Pending(e)'
               PROVE  rows'[e].owner = w /\ rows'[e].left >= client'[w].left
    BY DEF LeasesAreRows
  <2>1. w \in Clients /\ w # NoOwner
    BY OutboxAssumption DEF Clients
  <2>2. e \in client[w].batch /\ client'[w].left = Sooner(client[w].left)
    BY <1>4, <2>1
  <2>3. e \in Events /\ Pending(e)
    BY <1>2, <1>3, <2>1, <2>2 DEF Client, Pending
  <2>4. client[w].left \in -MaxWait..Lease /\ rows[e].left \in -MaxWait..Lease
    BY <1>1, <1>3, <2>1, <2>3 DEF Client, Row
  <2>5. client[w].left > 0
    BY <2>2, <2>4, SoonerKeeps
  <2>6. rows[e].owner = w /\ rows[e].left >= client[w].left
    BY <2>2, <2>3, <2>5 DEF Inv, LeasesAreRows
  <2>7. Sooner(rows[e].left) >= Sooner(client[w].left)
    BY <2>2, <2>4, <2>6, SoonerKeeps
  <2>8. rows'[e].left = Sooner(rows[e].left) /\ rows'[e].owner = w
    BY <1>2, <2>1, <2>3, <2>6 DEF Leased
  <2>9. QED
    BY <2>2, <2>7, <2>8
<1>10. QED
  BY <1>5, <1>6, <1>7, <1>8, <1>9 DEF Inv

\* The steps of one client, other than those that write rows.
LEMMA ListInv == ASSUME Inv, NEW c \in Clients, ListPending(c) PROVE Inv'
<1> DEFINE taken == FirstOf({e \in Events : Pending(e)})
           x == [client[c] EXCEPT !.stage = "delivering", !.batch = taken]
<1>1. client[c] \in Client /\ delivered \subseteq Events /\ faults \in 0..MaxFaults
        /\ client \in [Clients -> Client]
  BY DEF Inv, TypeOK
<1>2. taken \subseteq {e \in Events : Pending(e)}
  BY FirstOfIsPart
<1>3. client' = [client EXCEPT ![c] = x] /\ UNCHANGED <<rows, delivered, faults>>
  BY <1>1 DEF ListPending
<1> HIDE DEF taken
<1>4. /\ x \in Client /\ x.stage = "delivering" /\ x.batch = taken
      /\ x.done = client[c].done
  BY <1>1, <1>2 DEF Client, Stages
<1>5. c \notin Workers
  BY OutboxAssumption DEF ListPending
<1>6. x.done \subseteq delivered /\ \A e \in x.batch : rows[e].state # "absent"
  BY <1>2, <1>4 DEF Inv, DoneIsDelivered, Pending
<1> HIDE DEF x
<1>7. QED
  BY <1>1, <1>3, <1>4, <1>5, <1>6, ClientStepInv

LEMMA ClaimBeginsInv == ASSUME Inv, NEW w \in Workers, ClaimBegins(w) PROVE Inv'
<1> DEFINE x == [client[w] EXCEPT !.stage = "claiming", !.wait = 0]
<1>1. w \in Clients
  BY DEF Clients
<1>2. client[w] \in Client /\ delivered \subseteq Events /\ faults \in 0..MaxFaults
        /\ client \in [Clients -> Client]
  BY <1>1 DEF Inv, TypeOK
<1>3. client' = [client EXCEPT ![w] = x] /\ UNCHANGED <<rows, delivered, faults>>
  BY <1>1, <1>2 DEF ClaimBegins
<1>4. x \in Client /\ x.stage = "claiming" /\ x.batch = client[w].batch /\ x.done = client[w].done
  <2>1. 0 \in 0..MaxWait
    BY OutboxAssumption
  <2>2. QED
    BY <1>2, <2>1 DEF Client, Stages
<1>5. x.batch = {} /\ x.done \subseteq delivered
  BY <1>1, <1>4 DEF ClaimBegins, Inv, HoldsNothingIdle, DoneIsDelivered
<1> HIDE DEF x
<1>6. QED
  BY <1>1, <1>2, <1>3, <1>4, <1>5, ClientStepInv

LEMMA ClaimCommitsInv == ASSUME Inv, NEW w \in Workers, ClaimCommits(w) PROVE Inv'
<1> DEFINE taken == FirstOf({e \in Events : Claimable(w, e)})
           left == Lease - client[w].wait
           x == [IdleClient EXCEPT !.stage = IF taken = {} THEN "idle" ELSE "delivering",
                                   !.batch = taken, !.left = left]
<1>1. w \in Clients /\ client[w].wait \in 0..MaxWait /\ faults \in 0..MaxFaults
  BY DEF Inv, TypeOK, Clients, Client
<1>2. taken \subseteq {e \in Events : Claimable(w, e)}
  BY FirstOfIsPart
<1>3. left \in -MaxWait..Lease
  BY <1>1, LateLease
<1>4. /\ client[w].stage = "claiming" /\ client' = [client EXCEPT ![w] = x]
      /\ UNCHANGED <<delivered, faults>>
      /\ rows' = [e \in Events |-> IF e \in taken
                       THEN [rows[e] EXCEPT !.owner = w, !.left = left] ELSE rows[e]]
  BY DEF ClaimCommits
<1> HIDE DEF taken
<1>5. /\ x \in Client /\ x.done = {} /\ x.batch = taken /\ x.left = left
      /\ x.stage = IF taken = {} THEN "idle" ELSE "delivering"
  <2>1. taken \subseteq Events
    BY <1>2
  <2>2. QED
    BY <1>3, <2>1, IdleClientTyped DEF IdleClient, Client, Stages
<1> HIDE DEF x
<1>6. QED
  BY <1>1, <1>2, <1>4, <1>5, LeasingInv

LEMMA ClaimFailsInv == ASSUME Inv, NEW w \in Workers, ClaimFails(w) PROVE Inv'
<1> DEFINE taken == FirstOf({e \in Events : Claimable(w, e)})
<1>1. w \in Clients /\ faults' \in 0..MaxFaults
  <2>1. faults \in 0..MaxFaults /\ faults < MaxFaults /\ faults' = faults + 1
    BY DEF ClaimFails, Inv, TypeOK
  <2>2. faults' \in 0..MaxFaults
    BY <2>1, OutboxAssumption
  <2>3. QED
    BY <2>2 DEF Clients
<1>2. taken \subseteq {e \in Events : Claimable(w, e)}
  BY FirstOfIsPart
<1>3. IdleClient.stage = "idle" /\ IdleClient.batch = {} /\ IdleClient.done = {}
  BY DEF IdleClient
<1>4. CASE rows' = rows
  BY <1>1, <1>4, IdleStepInv DEF ClaimFails
<1>5. CASE rows' = [e \in Events |-> IF e \in taken
                       THEN [rows[e] EXCEPT !.owner = w, !.left = Lease - client[w].wait]
                       ELSE rows[e]]
  <2> HIDE DEF taken
  <2>1. client[w].stage = "claiming" /\ client' = [client EXCEPT ![w] = IdleClient]
          /\ delivered' = delivered
    BY DEF ClaimFails
  <2>2. QED
    BY <1>1, <1>2, <1>3, <1>5, <2>1, IdleClientTyped, LeasingInv
<1>6. QED
  BY <1>4, <1>5 DEF ClaimFails

LEMMA DeliverInv ==
    ASSUME Inv, NEW c \in Clients, NEW e \in Events, Deliver(c, e) PROVE Inv'
<1> DEFINE x == [client[c] EXCEPT !.done = client[c].done \cup {e}]
<1>1. client[c] \in Client /\ delivered' \subseteq Events /\ faults \in 0..MaxFaults
        /\ client \in [Clients -> Client]
  BY DEF Deliver, Inv, TypeOK
<1>2. client' = [client EXCEPT ![c] = x] /\ rows' = rows /\ faults' = faults
        /\ delivered \subseteq delivered' /\ e \in delivered' /\ client[c].stage = "delivering"
  BY <1>1 DEF Deliver
<1>3. /\ x \in Client /\ x.stage = client[c].stage /\ x.batch = client[c].batch
      /\ x.done = client[c].done \cup {e} /\ x.left = client[c].left
  BY <1>1 DEF Client
<1>4. x.done \subseteq delivered' /\ \A f \in x.batch : rows[f].state # "absent"
  BY <1>2, <1>3 DEF Inv, DoneIsDelivered, HeldExist
<1>5. c \in Workers => \A f \in x.batch :
        x.left > 0 /\ Pending(f) => rows[f].owner = c /\ rows[f].left >= x.left
  BY <1>3 DEF Inv, LeasesAreRows
<1> HIDE DEF x
<1>6. QED
  BY <1>1, <1>2, <1>3, <1>4, <1>5, ClientStepInv

LEMMA AckReadsInv ==
    ASSUME Inv, NEW c \in Clients, NEW e \in Events, AckReads(c, e) PROVE Inv'
<1> DEFINE x == [client[c] EXCEPT !.stage = "acking", !.acking = e]
<1>1. client[c] \in Client /\ delivered \subseteq Events /\ faults \in 0..MaxFaults
        /\ client \in [Clients -> Client]
  BY DEF Inv, TypeOK
<1>2. CASE client' = Answered(c, e)
  BY <1>1, <1>2, AnsweredInv DEF AckReads
<1>3. CASE Acknowledgeable(c, e)
  <2>1. client' = [client EXCEPT ![c] = x] /\ UNCHANGED <<rows, delivered, faults>>
          /\ e \in client[c].batch \cap client[c].done
    BY <1>1, <1>3 DEF AckReads
  <2>2. /\ x \in Client /\ x.stage = "acking" /\ x.batch = client[c].batch
        /\ x.done = client[c].done /\ x.left = client[c].left /\ x.acking = e
    <3>1. e \in 0..NumEvents
      BY OutboxAssumption DEF Events
    <3>2. QED
      BY <1>1, <3>1 DEF Client, Stages
  <2>3. x.done \subseteq delivered /\ \A f \in x.batch : rows[f].state # "absent"
    BY <2>2 DEF Inv, DoneIsDelivered, HeldExist
  <2>4. c \in Workers => \A f \in x.batch :
          x.left > 0 /\ Pending(f) => rows[f].owner = c /\ rows[f].left >= x.left
    BY <2>2 DEF Inv, LeasesAreRows
  <2> HIDE DEF x
  <2>5. QED
    BY <1>1, <2>1, <2>2, <2>3, <2>4, ClientStepInv
<1>4. QED
  BY <1>2, <1>3 DEF AckReads

LEMMA NextInv == Inv /\ [Next]_vars => Inv'
<1> SUFFICES ASSUME Inv, [Next]_vars PROVE Inv'
  OBVIOUS
<1>1. ASSUME NEW e \in Events, InsertEvent(e) PROVE Inv'
  BY <1>1, InsertInv
<1>2. ASSUME NEW w \in Workers, ClaimBegins(w) \/ ClaimCommits(w) \/ ClaimFails(w) PROVE Inv'
  BY <1>2, ClaimBeginsInv, ClaimCommitsInv, ClaimFailsInv
<1>3. ASSUME NEW c \in Clients, NEW e \in Events,
             Deliver(c, e) \/ AckReads(c, e) \/ AckWrites(c, e)
      PROVE  Inv'
  BY <1>3, DeliverInv, AckReadsInv, AckWritesInv
<1>4. ASSUME NEW c \in Clients, ListPending(c) PROVE Inv'
  BY <1>4, ListInv
<1>5. ASSUME NEW c \in Clients, Crash(c) PROVE Inv'
  <2>1. faults' \in 0..MaxFaults
    BY <1>5, OutboxAssumption DEF Crash, Inv, TypeOK
  <2>2. QED
    BY <1>5, <2>1, IdleStepInv DEF Crash
<1>6. ASSUME NEW c \in Clients, NEW e \in Events, AckFails(c, e) PROVE Inv'
  <2>1. faults' \in 0..MaxFaults
    BY <1>6, OutboxAssumption DEF AckFails, Inv, TypeOK
  <2>2. QED
    BY <1>6, <2>1, AnsweredInv DEF AckFails
<1>7. CASE Tick
  BY <1>7, TickInv
<1>8. CASE UNCHANGED vars
  BY <1>8 DEF vars, Inv, TypeOK, HoldsNothingIdle, HeldExist, DoneIsDelivered, AcksAreDone,
              LeasesAreRows, Pending
<1>9. Workers \subseteq Clients /\ Readers \subseteq Clients
  BY DEF Clients
<1>10. QED
  BY <1>1, <1>2, <1>3, <1>4, <1>5, <1>6, <1>7, <1>8, <1>9 DEF Next, WorkerStep

LEMMA Invariance == Spec => []Inv
<1>1. QED
  BY InitInv, NextInv, PTL DEF Spec

\* Rows and clients of the outbox stay well formed: no step of ack_outbox or
\* claim_outbox writes a lease beyond its bounds or holds an event that is not one.
THEOREM TypeCorrect == Spec => []TypeOK
<1>1. Inv => TypeOK
  BY DEF Inv
<1>2. QED
  BY <1>1, Invariance, PTL

\* For any number of workers and faults, claim_outbox never has two of them inside a
\* lease of the same pending event.
THEOREM LeasesExclude == Spec => []OneLeaseHolder
<1>1. Inv => OneLeaseHolder
  BY DEF Inv, LeasesAreRows, OneLeaseHolder
<1>2. QED
  BY <1>1, Invariance, PTL

-----------------------------------------------------------------------------
(* The refinement.                                                         *)

LEMMA InitDelivery == Init => Abstract!Init
  BY DEF Init, Abstract!Init, DeliveryState, AbsentRow

\* A step that leaves the state of every row alone is invisible.
LEMMA SameStates ==
    ASSUME \A e \in Events : rows'[e].state = rows[e].state
    PROVE  DeliveryState' = DeliveryState
  BY DEF DeliveryState

LEMMA NextDelivery == Inv /\ [Next]_vars => [Abstract!Next]_<<DeliveryState, delivered>>
<1> SUFFICES ASSUME Inv, [Next]_vars PROVE [Abstract!Next]_<<DeliveryState, delivered>>
  OBVIOUS
<1>0. \A e \in Events : rows[e] \in Row
  BY DEF Inv, TypeOK
<1>1. ASSUME NEW e \in Events, InsertEvent(e)
      PROVE  [Abstract!Next]_<<DeliveryState, delivered>>
  <2>1. CASE rows[e].state = "absent"
    <3>1. \A f \in Events : rows'[f].state = IF f = e THEN "pending" ELSE rows[f].state
      BY <1>1, <2>1 DEF InsertEvent, AbsentRow, Inv, TypeOK
    <3>2. DeliveryState' = [DeliveryState EXCEPT ![e] = "pending"]
      BY <3>1 DEF DeliveryState
    <3>3. DeliveryState[e] = "absent"
      BY <2>1 DEF DeliveryState
    <3>4. Abstract!Publish(e)
      BY <1>1, <3>2, <3>3 DEF Abstract!Publish, InsertEvent
    <3>5. QED
      BY <3>4 DEF Abstract!Next
  <2>2. CASE rows[e].state # "absent"
    <3>1. \A f \in Events : rows'[f].state = rows[f].state
      BY <1>1, <2>2 DEF InsertEvent, Inv, TypeOK
    <3>2. QED
      BY <1>1, <3>1, SameStates DEF InsertEvent
  <2>3. QED
    BY <2>1, <2>2
<1>2. ASSUME NEW w \in Workers, ClaimCommits(w) \/ ClaimFails(w)
      PROVE  [Abstract!Next]_<<DeliveryState, delivered>>
  <2> DEFINE taken == FirstOf({e \in Events : Claimable(w, e)})
             leased(e) == [rows[e] EXCEPT !.owner = w, !.left = Lease - client[w].wait]
  <2>0. \/ rows' = rows
        \/ rows' = [e \in Events |-> IF e \in taken THEN leased(e) ELSE rows[e]]
    BY <1>2 DEF ClaimCommits, ClaimFails
  <2>3. \A f \in Events : leased(f).state = rows[f].state
    BY <1>0 DEF Row
  <2> HIDE DEF taken, leased
  <2>1. \A f \in Events : rows'[f].state = rows[f].state
    BY <2>0, <2>3
  <2>2. QED
    BY <1>2, <2>1, SameStates DEF ClaimCommits, ClaimFails
<1>3. ASSUME NEW c \in Clients, NEW e \in Events, Deliver(c, e)
      PROVE  [Abstract!Next]_<<DeliveryState, delivered>>
  <2>1. rows[e].state # "absent"
    BY <1>3 DEF Deliver, Inv, HeldExist
  <2>2. DeliveryState[e] # "absent" /\ DeliveryState' = DeliveryState
    BY <1>3, <2>1 DEF Deliver, DeliveryState
  <2>3. Abstract!Deliver(e)
    BY <1>3, <2>2 DEF Deliver, Abstract!Deliver
  <2>4. QED
    BY <2>3 DEF Abstract!Next
<1>4. ASSUME NEW c \in Clients, NEW e \in Events, AckWrites(c, e)
      PROVE  [Abstract!Next]_<<DeliveryState, delivered>>
  <2>1. rows[e].state # "absent" /\ e \in delivered
    BY <1>4 DEF AckWrites, Inv, AcksAreDone, HeldExist, DoneIsDelivered
  <2>2. \A f \in Events : rows'[f].state = IF f = e THEN "acked" ELSE rows[f].state
    BY <1>0, <1>4 DEF AckWrites, Inv, TypeOK, Row
  <2>3. CASE rows[e].state = "pending"
    <3>1. DeliveryState' = [DeliveryState EXCEPT ![e] = "finished"]
      BY <2>2 DEF DeliveryState
    <3>2. DeliveryState[e] = "pending"
      BY <2>3 DEF DeliveryState
    <3>3. Abstract!Finish(e)
      BY <1>4, <2>1, <3>1, <3>2 DEF Abstract!Finish, AckWrites
    <3>4. QED
      BY <3>3 DEF Abstract!Next
  <2>4. CASE rows[e].state = "acked"
    <3>1. \A f \in Events : rows'[f].state = rows[f].state
      BY <2>2, <2>4
    <3>2. QED
      BY <1>4, <3>1, SameStates DEF AckWrites
  <2>5. QED
    BY <1>0, <2>1, <2>3, <2>4 DEF Row
<1>5. CASE Tick
  <2>1. \A f \in Events : rows'[f].state = rows[f].state
    BY <1>0, <1>5 DEF Tick, Row
  <2>2. QED
    BY <1>5, <2>1, SameStates DEF Tick
<1>6. CASE UNCHANGED <<rows, delivered>>
  BY <1>6, SameStates
<1>7. Workers \subseteq Clients /\ Readers \subseteq Clients
  BY DEF Clients
<1>8. QED
  BY <1>1, <1>2, <1>3, <1>4, <1>5, <1>6, <1>7
     DEF Next, WorkerStep, ClaimBegins, ListPending, AckReads, AckFails, Crash, vars

\* The outbox of SQLTaskRepository keeps the promise of Delivery for any number of
\* events, workers, readers and faults: whatever transactions wait, fail or are lost
\* and whichever leases expire, an event is acknowledged only after its consumer had
\* it, and a replayed insertion never makes an acknowledged event pending again.
THEOREM OutboxDelivers == Spec => ImplementsDelivery
<1>1. Init => Inv /\ Abstract!Init
  BY InitInv, InitDelivery
<1>2. Inv /\ [Next]_vars => Inv' /\ [Abstract!Next]_<<DeliveryState, delivered>>
  BY NextInv, NextDelivery
<1>3. QED
  BY <1>1, <1>2, PTL DEF Spec, ImplementsDelivery, Abstract!Spec
=============================================================================
