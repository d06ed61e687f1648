-------------------------- MODULE SpendingProofs --------------------------
(***************************************************************************)
(* Proofs about what may be spent: the budget ledger (BudgetLedger) and    *)
(* the calls of a routed task (RoutedTask), for every value of their       *)
(* constants.                                                              *)
(***************************************************************************)
EXTENDS BudgetLedger, RoutedTask, SumTheorems, TLAPS

-----------------------------------------------------------------------------
(***************************************************************************)
(* BudgetLedger.  The lock of the allocation makes what a transaction read *)
(* still true when it commits (ReadsAreCurrent); with it, a commit is one  *)
(* step of the abstract Allocation.                                        *)
(***************************************************************************)

\* Only the client that holds the lock has a transaction in progress.
LockExcludes == \A c \in Clients : txn[c].stage # "idle" => lock = c

\* Under the lock, the rows a transaction has read are the rows there are.
ReadsAreCurrent == \A c \in Clients : txn[c].stage = "read" => txn[c].seen = rows

\* A reservation asks for an amount, a settlement reports a cost.
AmountOf(op) == IF op = "reserve" THEN Amounts ELSE Actuals

AmountsMatch == \A c \in Clients : txn[c].stage # "idle" => txn[c].amount \in AmountOf(txn[c].op)

Inv == TypeOK /\ LockExcludes /\ ReadsAreCurrent /\ AmountsMatch

\* The rows the decisions build are rows: a new reservation and a settlement
\* keep BudgetReservationRow well formed.
LEMMA RowsWellFormed ==
    ASSUME NEW amount \in Amounts \cup Actuals, NEW row \in Row
    PROVE  FreeRow \in Row /\ HeldRow(amount) \in Row /\ SettledRow(row, amount) \in Row
<1>1. amount \in Nat
  BY AmountAssumption
<1>2. QED
  BY <1>1 DEF Row, FreeRow, HeldRow, SettledRow

\* The rows a transaction commits form a ledger.
LEMMA CommittedIsLedger ==
    ASSUME rows \in Ledger, NEW x \in Txn
    PROVE  Committed(x) \in Ledger
<1>1. x.key \in Keys /\ x.amount \in Amounts \cup Actuals
  BY DEF Txn
<1>2. rows[x.key] \in Row
  BY <1>1 DEF Ledger
<1>3. HeldRow(x.amount) \in Row /\ SettledRow(rows[x.key], x.amount) \in Row
  BY <1>1, <1>2, RowsWellFormed
<1>4. QED
  BY <1>1, <1>3 DEF Committed, Ledger

LEMMA InitInv == Init => Inv
<1> SUFFICES ASSUME Init PROVE Inv
  OBVIOUS
<1>1. FreeRow \in Row
  BY DEF FreeRow, Row
<1>2. TypeOK
  BY <1>1 DEF Init, TypeOK, Ledger
<1>3. QED
  BY <1>2 DEF Init, Inv, LockExcludes, ReadsAreCurrent, AmountsMatch, NoTxn

\* One step of any client keeps the lock exclusive and the reads current.
LEMMA NextInv == Inv /\ [Next]_vars => Inv'
<1> SUFFICES ASSUME Inv, [Next]_vars PROVE Inv'
  OBVIOUS
<1> USE DEF Inv
<1>0. NoTxn.stage = "idle" /\ NoTxn \in Txn \cup {NoTxn}
  BY DEF NoTxn
<1>1. ASSUME NEW c \in Clients, NEW op \in {"reserve", "settle"}, NEW k \in Keys,
             NEW amount \in AmountOf(op), LockedAllocation(c, op, k, amount)
      PROVE  Inv'
  <2> DEFINE x == [stage |-> "locked", op |-> op, key |-> k, amount |-> amount,
                   seen |-> rows]
  <2>1. x \in Txn /\ x.stage = "locked" /\ x.op = op /\ x.amount = amount
    BY DEF TypeOK, Txn, AmountOf
  <2>2. TypeOK'
    BY <1>1, <2>1 DEF LockedAllocation, TypeOK
  <2>3. \A d \in Clients : d # c => txn'[d] = txn[d] /\ txn[d].stage = "idle"
    BY <1>1, ClientAssumption DEF LockedAllocation, LockExcludes, TypeOK
  <2>4. txn'[c] = x /\ lock' = c /\ rows' = rows
    BY <1>1 DEF LockedAllocation, TypeOK
  <2>5. QED
    BY <2>1, <2>2, <2>3, <2>4 DEF LockExcludes, ReadsAreCurrent, AmountsMatch
<1>2. ASSUME NEW c \in Clients, ReadRows(c)
      PROVE  Inv'
  <2>1. txn[c] \in Txn
    BY <1>2, <1>0 DEF ReadRows, TypeOK
  <2>2. txn' = [txn EXCEPT ![c] = [txn[c] EXCEPT !.stage = "read", !.seen = rows]]
    BY <1>2, <2>1 DEF ReadRows, TypeOK
  <2>3. [txn[c] EXCEPT !.stage = "read", !.seen = rows] \in Txn
    BY <2>1 DEF TypeOK, Txn
  <2>4. TypeOK'
    BY <1>2, <2>2, <2>3 DEF ReadRows, TypeOK
  <2>5. txn'[c].stage = "read" /\ txn'[c].seen = rows
          /\ txn'[c].op = txn[c].op /\ txn'[c].amount = txn[c].amount
    BY <2>1, <2>2 DEF TypeOK, Txn
  <2>6. \A d \in Clients : d # c => txn'[d] = txn[d]
    BY <2>2 DEF TypeOK
  <2>7. QED
    BY <1>2, <2>4, <2>5, <2>6 DEF ReadRows, LockExcludes, ReadsAreCurrent, AmountsMatch
<1>3. ASSUME NEW c \in Clients, Release(c), txn[c].stage # "idle",
             rows' \in Ledger, granted' \subseteq Keys \X Nat
      PROVE  Inv'
  <2>1. \A d \in Clients : d # c => txn'[d] = txn[d] /\ txn[d].stage = "idle"
    BY <1>3 DEF Release, LockExcludes, TypeOK
  <2>2. txn'[c] = NoTxn
    BY <1>3 DEF Release, TypeOK
  <2>3. TypeOK'
    BY <1>3, <1>0 DEF Release, TypeOK
  <2>4. QED
    BY <1>0, <2>1, <2>2, <2>3 DEF LockExcludes, ReadsAreCurrent, AmountsMatch
<1>4. ASSUME NEW c \in Clients, NEW acknowledged \in BOOLEAN, Commit(c, acknowledged)
      PROVE  Inv'
  <2>1. txn[c] \in Txn /\ txn[c].stage # "idle"
    BY <1>4, <1>0 DEF Commit, TypeOK
  <2>2. rows' \in Ledger
    BY <1>4, <2>1, CommittedIsLedger DEF Commit, TypeOK
  <2>3. txn[c].key \in Keys /\ txn[c].amount \in Nat
    BY <2>1, AmountAssumption DEF Txn
  <2>4. granted' \subseteq Keys \X Nat
    BY <1>4, <2>3 DEF Commit, TypeOK
  <2>5. QED
    BY <1>3, <1>4, <2>1, <2>2, <2>4 DEF Commit
<1>5. ASSUME NEW c \in Clients, Rollback(c)
      PROVE  Inv'
  BY <1>3, <1>5 DEF Rollback, TypeOK
<1>6. CASE UNCHANGED vars
  BY <1>6 DEF vars, TypeOK, LockExcludes, ReadsAreCurrent, AmountsMatch
<1>7. QED
  BY <1>1, <1>2, <1>4, <1>5, <1>6 DEF Next, AmountOf

\* The rows, transactions and grants are well formed in every reachable state.
THEOREM TypeCorrect == Spec => []TypeOK
<1>1. Inv => TypeOK
  BY DEF Inv
<1>2. QED
  BY <1>1, InitInv, NextInv, PTL DEF Spec

-----------------------------------------------------------------------------
(* Callers keep what they were granted.                                    *)

\* A commit decides on the current rows, so it changes at most the row of its
\* own key, a free row only into a held one, and a held one only into a
\* settled one with the same reservation.
LEMMA CommitChangesOneRow ==
    ASSUME Inv, NEW c \in Clients, NEW acknowledged \in BOOLEAN, Commit(c, acknowledged),
           NEW k \in Keys
    PROVE  \/ rows'[k] = rows[k]
           \/ /\ k = txn[c].key
              /\ rows[k].state = "free"
              /\ rows'[k] = HeldRow(txn[c].amount)
           \/ /\ rows[k].state = "held"
              /\ rows'[k].state = "settled"
              /\ rows'[k].reserved = rows[k].reserved
<1> DEFINE x == txn[c]
<1>1. x \in Txn /\ x.seen = rows
  BY DEF Inv, TypeOK, ReadsAreCurrent, Commit, NoTxn
<1>2. rows[k] \in Row
  BY DEF Inv, TypeOK, Ledger
<1>3. SettledRow(rows[k], x.amount).state = "settled"
        /\ SettledRow(rows[k], x.amount).reserved = rows[k].reserved
  BY <1>2 DEF SettledRow, Row
<1>4. rows' = Committed(x)
  BY DEF Commit
<1>5. CASE x.op = "reserve"
  BY <1>1, <1>4, <1>5 DEF Committed, Inv, TypeOK, Ledger
<1>6. CASE x.op # "reserve"
  BY <1>1, <1>3, <1>4, <1>6 DEF Committed, Settles, Inv, TypeOK, Ledger
<1>7. QED
  BY <1>5, <1>6

LEMMA InitGranted == Init => GrantedIsHeld
  BY DEF Init, GrantedIsHeld

LEMMA NextGranted == Inv /\ GrantedIsHeld /\ [Next]_vars => GrantedIsHeld'
<1> SUFFICES ASSUME Inv, GrantedIsHeld, [Next]_vars PROVE GrantedIsHeld'
  OBVIOUS
<1>1. ASSUME NEW c \in Clients, NEW acknowledged \in BOOLEAN, Commit(c, acknowledged)
      PROVE  GrantedIsHeld'
  <2> DEFINE x == txn[c]
  <2>1. x \in Txn /\ x.seen = rows /\ x.key \in Keys
    BY <1>1 DEF Inv, TypeOK, ReadsAreCurrent, Commit, NoTxn, Txn
  <2>2. SUFFICES ASSUME NEW g \in granted'
                 PROVE  /\ rows'[g[1]].state # "free"
                        /\ rows'[g[1]].reserved = g[2]
                        /\ g[1][1] \notin ForeignTasks
    BY DEF GrantedIsHeld
  <2>3. CASE g \in granted
    <3>1. g[1] \in Keys
      BY <2>3 DEF Inv, TypeOK
    <3>2. rows[g[1]].state # "free" /\ rows[g[1]].reserved = g[2]
            /\ g[1][1] \notin ForeignTasks
      BY <2>3 DEF GrantedIsHeld
    <3>3. QED
      BY <1>1, <3>1, <3>2, CommitChangesOneRow
  <2>4. CASE g \notin granted
    <3>1. g = <<x.key, x.amount>> /\ x.op = "reserve" /\ Reserves(rows, x.key, x.amount)
      BY <1>1, <2>1, <2>2, <2>4 DEF Commit
    <3>2. VerifyTaskOwner(x.key[1])
      BY <3>1 DEF Reserves
    <3>3. CASE rows[x.key].state = "free"
      <4>1. rows'[x.key] = HeldRow(x.amount)
        BY <1>1, <2>1, <3>1, <3>3 DEF Commit, Committed, Inv, TypeOK, Ledger
      <4>2. QED
        BY <3>1, <3>2, <4>1 DEF HeldRow, VerifyTaskOwner
    <3>4. CASE rows[x.key].state # "free"
      <4>1. rows'[x.key] = rows[x.key]
        BY <1>1, <2>1, <3>1, <3>4 DEF Commit, Committed
      <4>2. rows[x.key].reserved = x.amount
        BY <3>1, <3>4 DEF Reserves
      <4>3. QED
        BY <3>1, <3>2, <3>4, <4>1, <4>2 DEF VerifyTaskOwner
    <3>5. QED
      BY <3>3, <3>4
  <2>5. QED
    BY <2>3, <2>4
<1>2. CASE UNCHANGED <<rows, granted>>
  BY <1>2 DEF GrantedIsHeld
<1>3. CASE Next
  BY <1>1, <1>2, <1>3 DEF Next, LockedAllocation, ReadRows, Rollback
<1>4. CASE UNCHANGED vars
  BY <1>2, <1>4 DEF vars
<1>5. QED
  BY <1>3, <1>4

\* A caller of reserve() that was told True holds exactly that amount from then
\* on, whatever other clients reserve, retry, settle, lose or roll back.
THEOREM GrantsAreKept == Spec => []GrantedIsHeld
<1>1. Init => Inv /\ GrantedIsHeld
  BY InitInv, InitGranted
<1>2. Inv /\ GrantedIsHeld /\ [Next]_vars => Inv' /\ GrantedIsHeld'
  BY NextInv, NextGranted
<1>3. QED
  BY <1>1, <1>2, PTL DEF Spec
-----------------------------------------------------------------------------
(* The ledger implements the abstract allocation.                          *)

\* The two modules name the same sums, ceilings and rows.
LEMMA SameSum ==
    ASSUME NEW f, NEW S
    PROVE  Alloc!SumFunctionOnSet(f, S) = SumFunctionOnSet(f, S)
  BY Zenon DEF Alloc!SumFunctionOnSet, SumFunctionOnSet, Alloc!FoldFunctionOnSet,
               FoldFunctionOnSet, Alloc!MapThenFoldSet, MapThenFoldSet

LEMMA SameFits ==
    ASSUME NEW t, NEW amount
    PROVE  Alloc!Fits(rows, t, amount) <=> Fits(rows, t, amount)
<1>1. Alloc!AppDebit(rows) = AppDebit(rows)
  BY SameSum DEF Alloc!AppDebit, AppDebit, Alloc!DebitOf, DebitOf, Alloc!Debit, Debit,
                 Alloc!Keys, Keys
<1>2. Alloc!TaskDebit(rows, t) = TaskDebit(rows, t)
  BY SameSum DEF Alloc!TaskDebit, TaskDebit, Alloc!DebitOf, DebitOf, Alloc!Debit, Debit,
                 Alloc!KeysOf, KeysOf, Alloc!Keys, Keys
<1>3. QED
  BY <1>1, <1>2 DEF Alloc!Fits, Fits

LEMMA InitAllocation == Init => Alloc!Init
  BY DEF Init, Alloc!Init, Alloc!Keys, Keys, Alloc!FreeRow, FreeRow

\* A commit that changes the rows is one Grant or one Settle; every other step
\* leaves the rows alone.
LEMMA NextAllocation == Inv /\ [Next]_vars => [Alloc!Next]_rows
<1> SUFFICES ASSUME Inv, [Next]_vars PROVE [Alloc!Next]_rows
  OBVIOUS
<1>1. ASSUME NEW c \in Clients, NEW acknowledged \in BOOLEAN, Commit(c, acknowledged)
      PROVE  [Alloc!Next]_rows
  <2> DEFINE x == txn[c]
  <2>1. /\ x \in Txn
        /\ x.key \in Keys
        /\ x.seen = rows
        /\ x.amount \in AmountOf(x.op)
        /\ rows' = Committed(x)
    BY <1>1 DEF Inv, TypeOK, ReadsAreCurrent, AmountsMatch, Commit, NoTxn, Txn
  <2>2. x.key \in Alloc!Keys
    BY <2>1 DEF Keys, Alloc!Keys
  <2>3. CASE /\ x.op = "reserve"
             /\ Reserves(rows, x.key, x.amount)
             /\ rows[x.key].state = "free"
    <3>1. rows' = [rows EXCEPT ![x.key] = HeldRow(x.amount)]
      BY <2>1, <2>3 DEF Committed
    <3>2. Fits(rows, x.key[1], x.amount)
      BY <2>3 DEF Reserves
    <3>3. Alloc!Grant(x.key, x.amount)
      BY <2>3, <3>1, <3>2, SameFits DEF Alloc!Grant, Alloc!HeldRow, HeldRow
    <3>4. x.amount \in Amounts
      BY <2>1, <2>3 DEF AmountOf
    <3>5. QED
      BY <2>2, <3>3, <3>4 DEF Alloc!Next
  <2>4. CASE x.op # "reserve" /\ Settles(rows, x.key)
    <3>1. rows' = [rows EXCEPT ![x.key] = SettledRow(@, x.amount)]
      BY <2>1, <2>4 DEF Committed
    <3>2. Alloc!Settle(x.key, x.amount)
      BY <2>4, <3>1 DEF Settles, Alloc!Settle, Alloc!SettledRow, SettledRow
    <3>3. x.amount \in Actuals
      BY <2>1, <2>4 DEF AmountOf
    <3>4. QED
      BY <2>2, <3>2, <3>3 DEF Alloc!Next
  <2>5. QED
    BY <2>1, <2>3, <2>4 DEF Committed
<1>2. CASE UNCHANGED vars
  BY <1>2 DEF vars
<1>3. QED
  BY <1>1, <1>2 DEF Next, LockedAllocation, ReadRows, Rollback

\* SQLBudgetAuthority implements the atomic allocation: concurrent, failing and
\* retried transactions never grant beyond a ceiling as it stands at the commit,
\* never change a grant and never settle an action twice.
THEOREM LedgerImplementsAllocation == Spec => ImplementsAllocation
<1>1. Init => Inv /\ Alloc!Init
  BY InitInv, InitAllocation
<1>2. Inv /\ [Next]_vars => Inv' /\ [Alloc!Next]_rows
  BY NextInv, NextAllocation
<1>3. QED
  BY <1>1, <1>2, PTL DEF Spec, ImplementsAllocation, Alloc!Spec
-----------------------------------------------------------------------------
(* The money.                                                              *)

\* Only a settlement records a cost, and a row nobody reserved debits nothing.
RowConsistent(row) ==
    /\ row.state # "settled" => row.actual = 0
    /\ row.state = "free" => row.reserved = 0

RowsConsistent == \A k \in Keys : RowConsistent(rows[k])

LEMMA DebitIsNat ==
    ASSUME NEW row \in Row
    PROVE  Debit(row) \in Nat /\ Overrun(row) \in Nat
  BY DEF Row, Debit, Overrun

LEMMA KeysFinite ==
    /\ IsFiniteSet(Keys)
    /\ \A t \in Tasks : IsFiniteSet(KeysOf(t)) /\ KeysOf(t) \subseteq Keys
<1>1. IsFiniteSet(Keys)
  BY FiniteAssumption, FS_Product DEF Keys
<1>2. QED
  BY <1>1, FS_Subset DEF KeysOf

\* The sums the ceilings are compared with are natural numbers.
LEMMA DebitOfIsNat ==
    ASSUME NEW rs \in Ledger, NEW keys, IsFiniteSet(keys), keys \subseteq Keys
    PROVE  DebitOf(rs, keys) \in Nat /\ OverrunOf(rs, keys) \in Nat
<1>1. \A k \in keys : rs[k] \in Row
  BY DEF Ledger
<1>2. /\ IsNatOn([k \in keys |-> Debit(rs[k])], keys)
      /\ IsNatOn([k \in keys |-> Overrun(rs[k])], keys)
  BY <1>1, DebitIsNat DEF IsNatOn
<1>3. QED
  BY <1>2, SumType DEF DebitOf, OverrunOf

\* Replacing one row changes the sums over keys by what that row contributes,
\* and not at all where the key is not counted.
LEMMA OneRowChanges ==
    ASSUME NEW rs \in Ledger, NEW ss \in Ledger, NEW key \in Keys,
           \A k \in Keys : k # key => ss[k] = rs[k],
           NEW keys, IsFiniteSet(keys), keys \subseteq Keys
    PROVE  IF key \in keys
           THEN /\ DebitOf(ss, keys) + Debit(rs[key]) = DebitOf(rs, keys) + Debit(ss[key])
                /\ OverrunOf(ss, keys) + Overrun(rs[key]) = OverrunOf(rs, keys) + Overrun(ss[key])
           ELSE /\ DebitOf(ss, keys) = DebitOf(rs, keys)
                /\ OverrunOf(ss, keys) = OverrunOf(rs, keys)
<1> DEFINE d(r) == [k \in keys |-> Debit(r[k])]
           o(r) == [k \in keys |-> Overrun(r[k])]
<1>1. \A k \in keys : rs[k] \in Row /\ ss[k] \in Row
  BY DEF Ledger
<1>2. IsNatOn(d(rs), keys) /\ IsNatOn(d(ss), keys) /\ IsNatOn(o(rs), keys) /\ IsNatOn(o(ss), keys)
  BY <1>1, DebitIsNat DEF IsNatOn
<1>3. \A k \in keys : k # key => d(ss)[k] = d(rs)[k] /\ o(ss)[k] = o(rs)[k]
  OBVIOUS
<1>4. CASE key \in keys
  <2>1. /\ d(rs)[key] = Debit(rs[key]) /\ d(ss)[key] = Debit(ss[key])
        /\ o(rs)[key] = Overrun(rs[key]) /\ o(ss)[key] = Overrun(ss[key])
    BY <1>4
  <2> HIDE DEF d, o
  <2>2. SumFunctionOnSet(d(ss), keys) + d(rs)[key] = SumFunctionOnSet(d(rs), keys) + d(ss)[key]
    BY <1>2, <1>3, <1>4, SumUpdate
  <2>3. SumFunctionOnSet(o(ss), keys) + o(rs)[key] = SumFunctionOnSet(o(rs), keys) + o(ss)[key]
    BY <1>2, <1>3, <1>4, SumUpdate
  <2>4. QED
    BY <1>4, <2>1, <2>2, <2>3 DEF DebitOf, OverrunOf, d, o
<1>5. CASE key \notin keys
  <2>1. \A k \in keys : d(ss)[k] = d(rs)[k] /\ o(ss)[k] = o(rs)[k]
    BY <1>3, <1>5
  <2> HIDE DEF d, o
  <2>2. SumFunctionOnSet(d(ss), keys) = SumFunctionOnSet(d(rs), keys)
    BY <1>2, <2>1, SumSame
  <2>3. SumFunctionOnSet(o(ss), keys) = SumFunctionOnSet(o(rs), keys)
    BY <1>2, <2>1, SumSame
  <2>4. QED
    BY <1>5, <2>2, <2>3 DEF DebitOf, OverrunOf, d, o
<1>6. QED
  BY <1>4, <1>5

\* What a commit writes: nothing, a first reservation that fits, or the
\* settlement of a held row.
LEMMA CommitEffect ==
    ASSUME Inv, NEW c \in Clients, NEW acknowledged \in BOOLEAN, Commit(c, acknowledged)
    PROVE  \/ rows' = rows
           \/ \E key \in Keys, amount \in Nat :
                /\ rows[key].state = "free"
                /\ Fits(rows, key[1], amount)
                /\ rows' = [rows EXCEPT ![key] = HeldRow(amount)]
           \/ \E key \in Keys, amount \in Nat :
                /\ rows[key].state = "held"
                /\ rows' = [rows EXCEPT ![key] = SettledRow(@, amount)]
<1> DEFINE x == txn[c]
<1>1. x \in Txn /\ x.seen = rows /\ rows' = Committed(x)
  BY DEF Inv, TypeOK, ReadsAreCurrent, Commit, NoTxn
<1>2. x.key \in Keys /\ x.amount \in Nat
  BY <1>1, AmountAssumption DEF Txn
<1> HIDE DEF x
<1>3. QED
  BY <1>1, <1>2 DEF Committed, Reserves, Settles

LEMMA RowsConsistentInit == Init => RowsConsistent
  BY DEF Init, RowsConsistent, RowConsistent, FreeRow

LEMMA RowsConsistentNext == Inv /\ RowsConsistent /\ [Next]_vars => RowsConsistent'
<1> SUFFICES ASSUME Inv, RowsConsistent, [Next]_vars PROVE RowsConsistent'
  OBVIOUS
<1>0. rows \in Ledger
  BY DEF Inv, TypeOK
<1>1. ASSUME NEW c \in Clients, NEW acknowledged \in BOOLEAN, Commit(c, acknowledged)
      PROVE  RowsConsistent'
  <2>1. CASE rows' = rows
    BY <2>1 DEF RowsConsistent
  <2>2. ASSUME NEW key \in Keys, NEW amount \in Nat,
               rows' = [rows EXCEPT ![key] = HeldRow(amount)]
        PROVE  RowsConsistent'
    <3>1. \A k \in Keys : rows'[k] = IF k = key THEN HeldRow(amount) ELSE rows[k]
      BY <1>0, <2>2 DEF Ledger
    <3>2. RowConsistent(HeldRow(amount))
      BY DEF RowConsistent, HeldRow
    <3>3. QED
      BY <3>1, <3>2 DEF RowsConsistent
  <2>3. ASSUME NEW key \in Keys, NEW amount \in Nat,
               rows' = [rows EXCEPT ![key] = SettledRow(@, amount)]
        PROVE  RowsConsistent'
    <3>1. \A k \in Keys : rows'[k] = IF k = key THEN SettledRow(rows[k], amount) ELSE rows[k]
      BY <1>0, <2>3 DEF Ledger
    <3>2. RowConsistent(SettledRow(rows[key], amount))
      BY <1>0 DEF RowConsistent, SettledRow, Ledger, Row
    <3>3. QED
      BY <3>1, <3>2 DEF RowsConsistent
  <2>4. QED
    BY <1>1, <2>1, <2>2, <2>3, CommitEffect
<1>2. CASE UNCHANGED rows
  BY <1>2 DEF RowsConsistent
<1>3. QED
  BY <1>1, <1>2 DEF Next, LockedAllocation, ReadRows, Rollback, vars

\* The two inequalities, over any counted set of keys: what is debited there is
\* within the ceiling and the overruns.
Within(rs, keys, ceiling) == DebitOf(rs, keys) <= ceiling + OverrunOf(rs, keys)

\* A reservation that fits keeps them.
LEMMA HoldKeepsWithin ==
    ASSUME NEW rs \in Ledger, NEW key \in Keys, rs[key].state = "free", RowConsistent(rs[key]),
           NEW amount \in Nat, NEW keys, IsFiniteSet(keys), keys \subseteq Keys,
           NEW ceiling \in Nat, Within(rs, keys, ceiling),
           key \in keys => DebitOf(rs, keys) + amount <= ceiling
    PROVE  Within([rs EXCEPT ![key] = HeldRow(amount)], keys, ceiling)
<1> DEFINE ss == [rs EXCEPT ![key] = HeldRow(amount)]
<1>1. HeldRow(amount) \in Row /\ rs[key] \in Row
  BY DEF HeldRow, Row, Ledger
<1>2. ss \in Ledger /\ ss[key] = HeldRow(amount) /\ \A k \in Keys : k # key => ss[k] = rs[k]
  BY <1>1 DEF Ledger
<1>3. Debit(rs[key]) = 0 /\ Overrun(rs[key]) = 0
  BY <1>1 DEF RowConsistent, Debit, Overrun, Row
<1>4. Debit(HeldRow(amount)) = amount /\ Overrun(HeldRow(amount)) = 0
  BY DEF HeldRow, Debit, Overrun
<1>5. /\ DebitOf(rs, keys) \in Nat /\ OverrunOf(rs, keys) \in Nat
      /\ DebitOf(ss, keys) \in Nat /\ OverrunOf(ss, keys) \in Nat
  BY <1>2, DebitOfIsNat
<1> HIDE DEF ss
<1>6. CASE key \in keys
  <2>1. /\ DebitOf(ss, keys) + 0 = DebitOf(rs, keys) + amount
        /\ OverrunOf(ss, keys) + 0 = OverrunOf(rs, keys) + 0
    BY <1>2, <1>3, <1>4, <1>6, OneRowChanges
  <2>2. Within(ss, keys, ceiling)
    BY <1>5, <1>6, <2>1 DEF Within
  <2>3. QED
    BY <2>2 DEF ss
<1>7. CASE key \notin keys
  <2>1. DebitOf(ss, keys) = DebitOf(rs, keys) /\ OverrunOf(ss, keys) = OverrunOf(rs, keys)
    BY <1>2, <1>7, OneRowChanges
  <2>2. QED
    BY <2>1 DEF Within, ss
<1>8. QED
  BY <1>6, <1>7

\* A settlement keeps them: what it adds beyond the reservation is its overrun.
LEMMA SettleKeepsWithin ==
    ASSUME NEW rs \in Ledger, NEW key \in Keys, rs[key].state = "held", RowConsistent(rs[key]),
           NEW actual \in Nat, NEW keys, IsFiniteSet(keys), keys \subseteq Keys,
           NEW ceiling \in Nat, Within(rs, keys, ceiling)
    PROVE  Within([rs EXCEPT ![key] = SettledRow(@, actual)], keys, ceiling)
<1> DEFINE new == SettledRow(rs[key], actual)
           ss == [rs EXCEPT ![key] = new]
<1>1. rs[key] \in Row
  BY DEF Ledger
<1>2. new \in Row /\ new.state = "settled" /\ new.actual = actual /\ new.reserved = rs[key].reserved
  BY <1>1 DEF SettledRow, Row
<1> HIDE DEF new
<1>3. ss \in Ledger /\ ss[key] = new /\ \A k \in Keys : k # key => ss[k] = rs[k]
  BY <1>2 DEF Ledger
<1>4. Debit(rs[key]) = rs[key].reserved /\ Overrun(rs[key]) = 0 /\ rs[key].reserved \in Nat
  BY <1>1 DEF RowConsistent, Debit, Overrun, Row
<1>5. /\ Debit(new) = actual
      /\ Overrun(new) = IF actual > rs[key].reserved THEN actual - rs[key].reserved ELSE 0
  BY <1>2 DEF Debit, Overrun
<1>6. /\ DebitOf(rs, keys) \in Nat /\ OverrunOf(rs, keys) \in Nat
      /\ DebitOf(ss, keys) \in Nat /\ OverrunOf(ss, keys) \in Nat
  BY <1>3, DebitOfIsNat
<1> HIDE DEF ss
<1>7. CASE key \in keys
  <2>1. /\ DebitOf(ss, keys) + rs[key].reserved = DebitOf(rs, keys) + actual
        /\ OverrunOf(ss, keys) + 0 = OverrunOf(rs, keys) + Overrun(new)
    BY <1>3, <1>4, <1>5, <1>7, OneRowChanges
  <2>2. Within(ss, keys, ceiling)
    BY <1>4, <1>5, <1>6, <2>1 DEF Within
  <2>3. QED
    BY <2>2 DEF ss, new
<1>8. CASE key \notin keys
  <2>1. DebitOf(ss, keys) = DebitOf(rs, keys) /\ OverrunOf(ss, keys) = OverrunOf(rs, keys)
    BY <1>3, <1>8, OneRowChanges
  <2>2. QED
    BY <2>1 DEF Within, ss, new
<1>9. QED
  BY <1>7, <1>8

LEMMA WithinCeilings ==
    DebitWithinCeilings <=> /\ Within(rows, Keys, AppCeiling)
                            /\ \A t \in Tasks : Within(rows, KeysOf(t), TaskCeiling)
  BY DEF DebitWithinCeilings, Within, AppDebit, TaskDebit

LEMMA InitWithin == Init => DebitWithinCeilings
<1> SUFFICES ASSUME Init PROVE DebitWithinCeilings
  OBVIOUS
<1>1. ASSUME NEW keys, IsFiniteSet(keys), keys \subseteq Keys
      PROVE  DebitOf(rows, keys) = 0 /\ OverrunOf(rows, keys) = 0
  <2>1. \A k \in keys : Debit(rows[k]) = 0 /\ Overrun(rows[k]) = 0
    BY <1>1 DEF Init, FreeRow, Debit, Overrun
  <2>2. QED
    BY <1>1, <2>1, SumZero DEF DebitOf, OverrunOf
<1>2. QED
  BY <1>1, KeysFinite, WithinCeilings, CeilingAssumption DEF Within

LEMMA NextWithin ==
    Inv /\ RowsConsistent /\ DebitWithinCeilings /\ [Next]_vars => DebitWithinCeilings'
<1> SUFFICES ASSUME Inv, RowsConsistent, DebitWithinCeilings, [Next]_vars
             PROVE  DebitWithinCeilings'
  OBVIOUS
<1>0. rows \in Ledger
  BY DEF Inv, TypeOK
<1>1. ASSUME NEW c \in Clients, NEW acknowledged \in BOOLEAN, Commit(c, acknowledged)
      PROVE  DebitWithinCeilings'
  <2>1. CASE rows' = rows
    BY <2>1 DEF DebitWithinCeilings
  <2>2. ASSUME NEW key \in Keys, NEW amount \in Nat, rows[key].state = "free",
               Fits(rows, key[1], amount), rows' = [rows EXCEPT ![key] = HeldRow(amount)]
        PROVE  DebitWithinCeilings'
    <3>1. RowConsistent(rows[key])
      BY DEF RowsConsistent
    <3>2. Within(rows', Keys, AppCeiling)
      BY <1>0, <2>2, <3>1, HoldKeepsWithin, KeysFinite, WithinCeilings, CeilingAssumption
         DEF Fits, AppDebit
    <3>3. ASSUME NEW t \in Tasks PROVE Within(rows', KeysOf(t), TaskCeiling)
      <4>1. key \in KeysOf(t) => DebitOf(rows, KeysOf(t)) + amount <= TaskCeiling
        BY <2>2 DEF KeysOf, Fits, TaskDebit
      <4>2. QED
        BY <1>0, <2>2, <3>1, <4>1, HoldKeepsWithin, KeysFinite, WithinCeilings, CeilingAssumption
    <3>4. QED
      BY <3>2, <3>3 DEF DebitWithinCeilings, Within, AppDebit, TaskDebit
  <2>3. ASSUME NEW key \in Keys, NEW amount \in Nat, rows[key].state = "held",
               rows' = [rows EXCEPT ![key] = SettledRow(@, amount)]
        PROVE  DebitWithinCeilings'
    <3>1. RowConsistent(rows[key])
      BY DEF RowsConsistent
    <3>2. Within(rows', Keys, AppCeiling)
      BY <1>0, <2>3, <3>1, SettleKeepsWithin, KeysFinite, WithinCeilings, CeilingAssumption
    <3>3. ASSUME NEW t \in Tasks PROVE Within(rows', KeysOf(t), TaskCeiling)
      BY <1>0, <2>3, <3>1, SettleKeepsWithin, KeysFinite, WithinCeilings, CeilingAssumption
    <3>4. QED
      BY <3>2, <3>3 DEF DebitWithinCeilings, Within, AppDebit, TaskDebit
  <2>4. QED
    BY <1>1, <2>1, <2>2, <2>3, CommitEffect
<1>2. CASE UNCHANGED rows
  BY <1>2 DEF DebitWithinCeilings
<1>3. QED
  BY <1>1, <1>2 DEF Next, LockedAllocation, ReadRows, Rollback, vars

\* Neither the application nor any task is ever debited past its ceiling by
\* more than settled actions overran their own reservations, for any number of
\* clients, tasks and actions and however their transactions interleave, fail
\* or are retried.
THEOREM CeilingsHold == Spec => []DebitWithinCeilings
<1>1. Init => Inv /\ RowsConsistent /\ DebitWithinCeilings
  BY InitInv, RowsConsistentInit, InitWithin
<1>2. Inv /\ RowsConsistent /\ DebitWithinCeilings /\ [Next]_vars
        => Inv' /\ RowsConsistent' /\ DebitWithinCeilings'
  BY NextInv, RowsConsistentNext, NextWithin
<1>3. QED
  BY <1>1, <1>2, PTL DEF Spec

\* remaining() and reserve() decide alike on every positive amount of a new
\* action, whatever state the rows are in.
THEOREM QuotesAgree == Spec => []QuoteAgreesWithReserve
<1>1. Inv => QuoteAgreesWithReserve
  <2> SUFFICES ASSUME Inv, NEW k \in Keys, NEW amount \in Amounts,
                      amount > 0, rows[k].state = "free", VerifyTaskOwner(k[1])
               PROVE  Reserves(rows, k, amount) <=> amount <= Remaining(rows, k[1])
    BY DEF QuoteAgreesWithReserve
  <2>1. k[1] \in Tasks /\ amount \in Nat
    BY AmountAssumption DEF Keys
  <2>2. AppDebit(rows) \in Nat /\ TaskDebit(rows, k[1]) \in Nat
    BY <2>1, DebitOfIsNat, KeysFinite DEF Inv, TypeOK, AppDebit, TaskDebit
  <2>3. Reserves(rows, k, amount) <=> Fits(rows, k[1], amount)
    BY DEF Reserves
  <2>4. QED
    BY <2>1, <2>2, <2>3, CeilingAssumption DEF Fits, Remaining
<1>2. QED
  BY <1>1, InitInv, NextInv, PTL DEF Spec

-----------------------------------------------------------------------------
(***************************************************************************)
(* RoutedTask.  A decision the router accepts has passed every hard filter *)
(* and prices its candidate's worst case, retries and required evaluators  *)
(* included, with the prices and limits of the moment (Granted); what the  *)
(* task then reserves it takes from that decision, so each call it makes   *)
(* is one the decision paid for.                                           *)
(***************************************************************************)
-----------------------------------------------------------------------------
\* Money: quotes are natural numbers, whatever is known of the prices.

LEMMA ProductOfNats == ASSUME NEW a \in Nat, NEW b \in Nat PROVE a * b \in Nat
  OBVIOUS

LEMMA TimesType ==
    ASSUME NEW a \in Optional, NEW b \in Optional PROVE Times(a, b) \in Optional
<1>1. CASE a = None \/ b = None
  BY <1>1 DEF Times, Optional
<1>2. CASE a # None /\ b # None
  <2>1. a \in Nat /\ b \in Nat /\ None \notin {a, b}
    BY <1>2 DEF Optional
  <2>2. QED
    BY <2>1, ProductOfNats DEF Times, Optional
<1>3. QED
  BY <1>1, <1>2

LEMMA TokenChargeType ==
    ASSUME NEW n \in Nat, NEW rate \in Optional, NEW x \in Optional
    PROVE  TokenCharge(n, rate, x) \in Optional
<1>1. n \in Optional /\ 0 \in Optional
  BY DEF Optional
<1>2. Times(n, Times(rate, x)) \in Optional
  BY <1>1, TimesType
<1>3. QED
  BY <1>1, <1>2 DEF TokenCharge

LEMMA KnownSumType ==
    ASSUME NEW f, IsFiniteSet(DOMAIN f), \A n \in DOMAIN f : f[n] \in Optional
    PROVE  KnownSum(f) \in Nat
<1> DEFINE g == [n \in DOMAIN f |-> IF f[n] = None THEN 0 ELSE f[n]]
<1>1. IsNatOn(g, DOMAIN f) /\ DOMAIN g = DOMAIN f
  BY DEF IsNatOn, Optional
<1>2. KnownSum(f) = SumFunctionOnSet(g, DOMAIN g)
  BY DEF KnownSum, SumFunction
<1> HIDE DEF g
<1>3. QED
  BY <1>1, <1>2, SumType

LEMMA GenerationType ==
    ASSUME BundleAssumption, NEW m \in Aliases, NEW req, RequestValid(req)
    PROVE  KnownSum(GenerationCharges(req, m)) \in Nat
<1> DEFINE p       == Catalog[m].price
           read    == IF req.evidence THEN req.cached ELSE 0
           long    == p.threshold # None /\ req.input > p.threshold
           mult(x) == IF long THEN x ELSE 1
           f       == GenerationCharges(req, m)
           N       == {"uncached_input", "cache_read_input", "cache_write_input", "output"}
<1>1. p \in Prices
  BY DEF BundleAssumption, CatalogValid
<1>2. /\ p.input \in Optional /\ p.cached \in Optional /\ p.output \in Optional
      /\ p.write \in Optional
      /\ \A x \in Optional : mult(x) \in Optional
      /\ p.longInput \in Optional /\ p.longOutput \in Optional
      /\ p.longCached \in Optional /\ p.longWrite \in Optional
  BY <1>1 DEF Prices, Optional
<1>3. /\ read \in Nat /\ req.input - read - req.written \in Nat
      /\ req.written \in Nat /\ req.output \in Nat
  BY DEF RequestValid, Requests
<1>4. Times(p.input, p.write) \in Optional
  BY <1>2, TimesType
<1>5. /\ mult(p.longInput) \in Optional /\ mult(p.longCached) \in Optional
      /\ mult(p.longWrite) \in Optional /\ mult(p.longOutput) \in Optional
  BY <1>2
<1>6. DOMAIN f = N
  BY DEF GenerationCharges
<1>7. /\ f.uncached_input = TokenCharge(req.input - read - req.written, p.input, mult(p.longInput))
      /\ f.cache_read_input = TokenCharge(read, p.cached, mult(p.longCached))
      /\ f.cache_write_input = TokenCharge(req.written, Times(p.input, p.write), mult(p.longWrite))
      /\ f.output = TokenCharge(req.output, p.output, mult(p.longOutput))
  BY DEF GenerationCharges
<1> HIDE DEF p, read, mult, f
<1>8. \A n \in N : f[n] \in Optional
  <2>1. /\ f.uncached_input \in Optional /\ f.cache_read_input \in Optional
        /\ f.cache_write_input \in Optional /\ f.output \in Optional
    BY <1>2, <1>3, <1>4, <1>5, <1>7, TokenChargeType
  <2>2. QED
    BY <2>1
<1>9. IsFiniteSet(N)
  <2>1. IsFiniteSet({"output"})
    BY FS_Singleton
  <2>2. IsFiniteSet({"output"} \cup {"cache_write_input"})
    BY <2>1, FS_AddElement
  <2>3. IsFiniteSet(({"output"} \cup {"cache_write_input"}) \cup {"cache_read_input"})
    BY <2>2, FS_AddElement
  <2>4. IsFiniteSet((({"output"} \cup {"cache_write_input"}) \cup {"cache_read_input"})
                       \cup {"uncached_input"})
    BY <2>3, FS_AddElement
  <2>5. N = (({"output"} \cup {"cache_write_input"}) \cup {"cache_read_input"})
               \cup {"uncached_input"}
    OBVIOUS
  <2>6. QED
    BY <2>4, <2>5
<1>10. KnownSum(f) \in Nat
  BY <1>6, <1>8, <1>9, KnownSumType
<1>11. QED
  BY <1>10 DEF f

\* What an environment is, but for what it says of the models.
LEMMA SingletonSeq ==
    ASSUME NEW S, NEW x \in S PROVE <<x>> \in Seq(S) /\ <<>> \in Seq(S)
  OBVIOUS

LEMMA TwoSeq ==
    ASSUME NEW x, NEW y PROVE <<x>> \o <<>> = <<x>> /\ <<x>> \o <<y>> = <<x, y>>
<1> DEFINE c == <<x>> \o <<y>>
           d == <<x, y>>
<1>1. Len(c) = 2 /\ c[1] = x /\ c[2] = y /\ c \in Seq({x, y})
  OBVIOUS
<1>2. Len(d) = 2 /\ d[1] = x /\ d[2] = y /\ d \in Seq({x, y})
  OBVIOUS
<1>3. c = d
  <2> HIDE DEF c, d
  <2>1. QED
    BY <1>1, <1>2
<1>4. QED
  BY <1>3

LEMMA RequiredType ==
    ASSUME NEW req, NEW e, NEW val,
           e.evaluatorCost \in Optional, e.domainCost \in Optional, e.toolCost \in Optional
    PROVE  LET required == RequiredCharges(req, e, val)
           IN  KnownSum([i \in 1..Len(required) |-> required[i].amount]) \in Nat
<1> DEFINE Charge == [name : {"required_evaluator", "required_domain_validator", "required_tool"},
                      amount : Optional]
           required == RequiredCharges(req, e, val)
           f == [i \in 1..Len(required) |-> required[i].amount]
<1>2. None \in Optional
  BY DEF Optional
<1>3. required \in Seq(Charge)
  <2> DEFINE domain == IF "domain_validator_unconfigured" \in val.blockers
                       THEN None ELSE e.domainCost
  <2>1. domain \in Optional
    BY <1>2
  <2> HIDE DEF domain
  <2> DEFINE x == [name |-> "required_evaluator", amount |-> e.evaluatorCost]
             y == [name |-> "required_domain_validator", amount |-> domain]
             z == [name |-> "required_tool", amount |-> e.toolCost]
  <2>2. x \in Charge /\ y \in Charge /\ z \in Charge
    BY <2>1
  <2> HIDE DEF Charge
  <2>3. ChargeIf(val.evaluators # {}, "required_evaluator", e.evaluatorCost) \in Seq(Charge)
    BY <2>2, SingletonSeq DEF ChargeIf
  <2>4. ChargeIf(3 \in val.profiles, "required_domain_validator", domain) \in Seq(Charge)
    BY <2>2, SingletonSeq DEF ChargeIf
  <2>5. ChargeIf(e.toolCharge \/ req.sideEffect, "required_tool", e.toolCost) \in Seq(Charge)
    BY <2>2, SingletonSeq DEF ChargeIf
  <2>6. required = ChargeIf(val.evaluators # {}, "required_evaluator", e.evaluatorCost)
                     \o ChargeIf(3 \in val.profiles, "required_domain_validator", domain)
                     \o ChargeIf(e.toolCharge \/ req.sideEffect, "required_tool", e.toolCost)
    BY DEF RequiredCharges, domain
  <2>7. QED
    BY <2>3, <2>4, <2>5, <2>6
<1> HIDE DEF required
<1>4. Len(required) \in Nat /\ \A i \in 1..Len(required) : required[i].amount \in Optional
  <2>1. \A c \in Charge : c.amount \in Optional
    OBVIOUS
  <2> HIDE DEF Charge
  <2>2. Len(required) \in Nat /\ \A i \in 1..Len(required) : required[i] \in Charge
    BY <1>3
  <2>3. QED
    BY <2>1, <2>2
<1>5. IsFiniteSet(DOMAIN f) /\ \A i \in DOMAIN f : f[i] \in Optional
  <2>1. DOMAIN f = 1..Len(required) /\ 1 \in Int /\ Len(required) \in Int
    BY <1>4
  <2>2. IsFiniteSet(1..Len(required))
    BY <2>1, FS_Interval
  <2>3. QED
    BY <1>4, <2>1, <2>2
<1> HIDE DEF f
<1>6. KnownSum(f) \in Nat
  BY <1>5, KnownSumType
<1>7. QED
  BY <1>6 DEF f, required

\* The part of an environment that prices and limits are read from.
Funded(e) ==
    /\ e.evaluatorCost \in Optional /\ e.domainCost \in Optional /\ e.toolCost \in Optional
    /\ e.budget \in Limits /\ e.overlay \in Limits

IsQuote(q) == q.generation \in Nat /\ q.known \in Nat /\ q.generation <= q.known

LEMMA EstimateType ==
    ASSUME BundleAssumption, NEW m \in Aliases, NEW req, RequestValid(req),
           NEW e, Funded(e), NEW val
    PROVE  IsQuote(EstimateCost(req, m, e, val))
<1> DEFINE required == RequiredCharges(req, e, val)
           work == KnownSum([i \in 1..Len(required) |-> required[i].amount])
           generation == KnownSum(GenerationCharges(req, m))
           q == EstimateCost(req, m, e, val)
<1>1. generation \in Nat
  BY GenerationType
<1>2. work \in Nat
  BY RequiredType DEF Funded
<1>3. q.generation = generation /\ q.known = generation + work
  BY DEF EstimateCost, Quote
<1> HIDE DEF required, work, generation, q
<1>4. IsQuote(q)
  BY <1>1, <1>2, <1>3 DEF IsQuote
<1>5. QED
  BY <1>4 DEF q

\* One quote or two.
LEMMA QuotesType ==
    ASSUME BundleAssumption, NEW m \in Aliases, NEW req, RequestValid(req),
           NEW e, Funded(e), NEW val
    PROVE  LET S == ToSet(Quotes(req, m, e, val)) IN
           \E a, b : IsQuote(a) /\ IsQuote(b) /\ S = {a, b}
<1> DEFINE missed == [req EXCEPT !.evidence = FALSE]
           a == EstimateCost(req, m, e, val)
           b == EstimateCost(missed, m, e, val)
           quotes == Quotes(req, m, e, val)
<1>1. RequestValid(missed)
  BY DEF RequestValid, Requests
<1>2. IsQuote(a) /\ IsQuote(b)
  <2> HIDE DEF missed
  <2>1. QED
    BY <1>1, EstimateType
<1>3. quotes = <<a>> \o (IF req.evidence /\ req.cached > 0 THEN <<b>> ELSE <<>>)
  BY DEF Quotes
<1> HIDE DEF a, b, quotes
<1>4. quotes = <<a>> \/ quotes = <<a, b>>
  <2>1. <<a>> \o <<>> = <<a>>
    BY TwoSeq
  <2>2. <<a>> \o <<b>> = <<a, b>>
    BY TwoSeq
  <2>3. CASE req.evidence /\ req.cached > 0
    BY <1>3, <2>2, <2>3
  <2>4. CASE ~(req.evidence /\ req.cached > 0)
    BY <1>3, <2>1, <2>4
  <2>5. QED
    BY <2>3, <2>4
<1>5. CASE quotes = <<a>>
  <2>1. ToSet(quotes) = {a}
    BY <1>5 DEF ToSet
  <2>2. QED
    BY <1>2, <2>1 DEF quotes
<1>6. CASE quotes = <<a, b>>
  <2>1. ToSet(quotes) = {a, b}
    BY <1>6 DEF ToSet
  <2>2. QED
    BY <1>2, <2>1 DEF quotes
<1>7. QED
  BY <1>4, <1>5, <1>6

\* What is reserved is part of what has to fit.
LEMMA BoundWithinNeed ==
    ASSUME NEW quotes, NEW a, NEW b, ToSet(quotes) = {a, b}, IsQuote(a), IsQuote(b)
    PROVE  /\ QuotedBound(quotes) \in Nat /\ NeededFor(quotes) \in Int
           /\ QuotedBound(quotes) <= NeededFor(quotes)
<1> DEFINE bound == QuotedBound(quotes)
<1>1. {q.generation : q \in ToSet(quotes)} = {a.generation, b.generation}
  OBVIOUS
<1>2. bound \in {a.generation, b.generation}
  <2>1. bound = Max({a.generation, b.generation})
    BY <1>1 DEF QuotedBound
  <2>2. a.generation \in Int /\ b.generation \in Int
    BY DEF IsQuote
  <2> HIDE DEF bound
  <2>3. QED
    BY <2>1, <2>2, MaxOfTwo
<1>3. bound \in Nat
  BY <1>2 DEF IsQuote
<1>4. {q.known + bound - q.generation : q \in ToSet(quotes)} =
        {a.known + bound - a.generation, b.known + bound - b.generation}
  OBVIOUS
<1>5. NeededFor(quotes) = Max({a.known + bound - a.generation, b.known + bound - b.generation})
  BY <1>4 DEF NeededFor
<1> HIDE DEF bound
<1>6. /\ a.known + bound - a.generation \in Int /\ b.known + bound - b.generation \in Int
      /\ bound <= a.known + bound - a.generation
  BY <1>3 DEF IsQuote
<1>7. /\ NeededFor(quotes) \in Int
      /\ a.known + bound - a.generation <= NeededFor(quotes)
  BY <1>5, <1>6, MaxOfTwo
<1>8. QED
  BY <1>3, <1>6, <1>7 DEF bound

-----------------------------------------------------------------------------
\* Ranks, floors and limits are numbers.

LEMMA RanksFinite ==
    ASSUME BundleAssumption
    PROVE  IsFiniteSet(Ranks) /\ Ranks \subseteq Nat /\ MinRank \in Ranks
<1> DEFINE f == [m \in Aliases |-> Rank(m)]
<1>1. Aliases # {} /\ IsFiniteSet(Aliases) /\ \A m \in Aliases : Rank(m) \in Nat
  BY DEF BundleAssumption, CatalogValid
<1>2. f \in Surjection(Aliases, Ranks)
  BY DEF Surjection, Ranks
<1> HIDE DEF f
<1>3. IsFiniteSet(Ranks)
  BY <1>1, <1>2, FS_Surjection
<1>4. Ranks # {} /\ Ranks \subseteq Nat
  BY <1>1 DEF Ranks
<1>5. MinRank \in Ranks
  BY <1>4, MinOfNats DEF MinRank, Ranks
<1>6. QED
  BY <1>3, <1>4, <1>5

\* The lowest and the highest of some models.
LEMMA RankExtremes ==
    ASSUME BundleAssumption, NEW T, T \subseteq Aliases, T # {}
    PROVE  /\ \E low \in T : \A n \in T : Rank(low) <= Rank(n)
           /\ \E high \in T : \A n \in T : Rank(high) >= Rank(n)
<1> DEFINE R == {Rank(m) : m \in T}
<1>1. R \subseteq Ranks /\ R # {}
  BY DEF Ranks
<1>2. R \subseteq Nat /\ R \subseteq Int /\ IsFiniteSet(R)
  BY <1>1, RanksFinite, FS_Subset
<1>3. Min(R) \in R /\ \A y \in R : Min(R) <= y
  BY <1>1, <1>2, MinOfNats
<1>4. Max(R) \in R /\ \A y \in R : y <= Max(R)
  BY <1>1, <1>2, MaxOfFinite
<1>5. PICK low \in T : Rank(low) = Min(R)
  BY <1>3
<1>6. PICK high \in T : Rank(high) = Max(R)
  BY <1>4
<1>7. \A n \in T : Rank(n) \in R /\ Rank(n) \in Nat
  BY <1>2
<1> HIDE DEF R
<1>8. \A n \in T : Rank(low) <= Rank(n)
  BY <1>3, <1>5, <1>7
<1>9. \A n \in T : Rank(high) >= Rank(n)
  BY <1>4, <1>6, <1>7
<1>10. QED
  BY <1>8, <1>9

LEMMA FloorsAreRanks ==
    ASSUME BundleAssumption, NEW cls
    PROVE  \A f \in FloorEvidence(cls) : f.min \in Ranks
<1>1. /\ \A r \in ToSet(Floors) : r.min \in Ranks
      /\ \A r \in ToSet(Modifiers) : r.preferred \in Ranks \cup {None}
  BY DEF BundleAssumption, TiersKnown
<1>2. QED
  BY <1>1 DEF FloorEvidence, Matched

LEMMA HardFloor ==
    ASSUME BundleAssumption, NEW cls
    PROVE  LET hard == FloorOf("hard", FloorEvidence(cls)) IN
           /\ hard \in Nat
           /\ \A r \in Matched(Floors, cls) : r.strength = "hard" => r.min \in Nat /\ r.min <= hard
<1> DEFINE floors == FloorEvidence(cls)
           S == {MinRank} \cup {f.min : f \in {x \in floors : x.strength = "hard"}}
<1>1. S \subseteq Ranks /\ S # {}
  BY FloorsAreRanks, RanksFinite
<1>2. IsFiniteSet(S) /\ S \subseteq Int /\ S \subseteq Nat
  BY <1>1, RanksFinite, FS_Subset
<1>3. ASSUME NEW r \in Matched(Floors, cls), r.strength = "hard" PROVE r.min \in S
  <2>1. [strength |-> r.strength, min |-> r.min] \in floors
    BY DEF FloorEvidence
  <2> HIDE DEF floors
  <2>2. QED
    BY <1>3, <2>1
<1>4. FloorOf("hard", floors) = Max(S)
  BY DEF FloorOf
<1> HIDE DEF S, floors
<1>5. Max(S) \in S /\ \A y \in S : y <= Max(S)
  BY <1>1, <1>2, MaxOfFinite
<1>6. QED
  BY <1>2, <1>3, <1>4, <1>5 DEF floors

Numbers == [LimitFields -> Int]

LEMMA TightenType ==
    ASSUME NEW base \in Numbers, NEW overlay \in Numbers PROVE Tighten(base, overlay) \in Numbers
<1>1. ASSUME NEW f \in LimitFields
      PROVE  /\ Max({base[f], overlay[f]}) \in Int /\ Min({base[f], overlay[f]}) \in Int
  <2>1. base[f] \in Int /\ overlay[f] \in Int
    BY DEF Numbers
  <2>2. QED
    BY <2>1, MaxOfTwo, MinOfTwo
<1>2. QED
  BY <1>1 DEF Tighten, Numbers

LEMMA LimitsType ==
    ASSUME BundleAssumption, NEW req, RequestValid(req), NEW e, Funded(e)
    PROVE  ResolveLimits(req, e) \in Numbers
<1>1. Limits \subseteq Numbers
  BY DEF Limits, Numbers, Optional, None
<1>2. Defaults \in Numbers /\ \A a \in DOMAIN Applications : Applications[a] \in Numbers
  BY <1>1 DEF BundleAssumption, LimitsOrdered
<1>3. e.budget \in Numbers /\ e.overlay \in Numbers /\ req.constraints \in Numbers
  BY <1>1 DEF Funded, RequestValid, Requests
<1>4. NoLimits \in Numbers
  BY DEF NoLimits, Numbers, None
<1> DEFINE o == Overlays(req, e)
<1>5. o[1] \in Numbers /\ o[2] \in Numbers /\ o[3] \in Numbers
  BY <1>2, <1>3, <1>4 DEF Overlays
<1>6. DeploymentLimits(e) \in Numbers
  <2>1. ReplacePresent(Defaults, e.budget) \in Numbers
    BY <1>2, <1>3 DEF ReplacePresent, Numbers
  <2>2. QED
    BY <1>2, <1>3, <2>1, TightenType DEF DeploymentLimits
<1> HIDE DEF o
<1>7. Tighten(Tighten(Tighten(DeploymentLimits(e), o[1]), o[2]), o[3]) \in Numbers
  BY <1>5, <1>6, TightenType
<1>8. QED
  BY <1>7 DEF ResolveLimits, o

-----------------------------------------------------------------------------
\* What a decision of the router guarantees.

LEMMA PlanFloors ==
    ASSUME NEW cls, NEW limits, NEW wanted
    PROVE  LET plan == PlanFor(cls, limits, wanted) IN
           /\ plan.floors = FloorEvidence(cls)
           /\ plan.hard = FloorOf("hard", FloorEvidence(cls))
<1> DEFINE built == BuildCandidates(cls, limits)
           plan  == PlanFor(cls, limits, wanted)
<1>1. /\ DOMAIN built = {"candidates", "floors", "hard", "preferred"}
      /\ built.floors = FloorEvidence(cls)
      /\ built.hard = FloorOf("hard", FloorEvidence(cls))
  BY DEF BuildCandidates
<1>2. \E c : plan = [built EXCEPT !.candidates = c]
  BY Zenon DEF PlanFor
<1> HIDE DEF built, plan
<1>3. plan.floors = built.floors /\ plan.hard = built.hard
  BY <1>1, <1>2
<1>4. QED
  BY <1>1, <1>3 DEF plan

\* The floors of a plan come from the rules of the bundle.
GroundedPlan(plan) == plan.hard \in Nat /\ PreferredFloors(plan) \subseteq Ranks

LEMMA PlanGrounded ==
    ASSUME BundleAssumption, NEW cls, NEW limits, NEW wanted
    PROVE  GroundedPlan(PlanFor(cls, limits, wanted))
<1> DEFINE plan == PlanFor(cls, limits, wanted)
<1>1. plan.floors = FloorEvidence(cls) /\ plan.hard = FloorOf("hard", FloorEvidence(cls))
  BY PlanFloors
<1>2. plan.hard \in Nat
  BY <1>1, HardFloor
<1>3. PreferredFloors(plan) \subseteq Ranks
  BY <1>1, FloorsAreRanks DEF PreferredFloors
<1> HIDE DEF plan
<1>4. GroundedPlan(plan)
  BY <1>2, <1>3 DEF GroundedPlan
<1>5. QED
  BY <1>4 DEF plan

\* The floors never leave a feasible plan without a candidate, and what they leave meets
\* every preferred floor that a feasible and certified candidate meets.
LEMMA SurvivorExists ==
    ASSUME BundleAssumption, NEW plan, GroundedPlan(plan), NEW violations, NEW barred,
           \A i \in DOMAIN violations : violations[i] = {} =>
                /\ Rank(plan.candidates[i].model) \in Nat
                /\ plan.hard <= Rank(plan.candidates[i].model)
    PROVE  LET x == Filtered(plan, violations, barred) IN
           /\ x.kept \subseteq {i \in DOMAIN violations : violations[i] = {}}
           /\ x.feasible # {} => x.kept # {}
           /\ \A f \in PreferredFloors(plan), i \in x.kept, j \in x.feasible :
                barred[j] = {} /\ Rank(plan.candidates[j].model) >= f
                    => Rank(plan.candidates[i].model) >= f
<1> DEFINE feasible  == {i \in DOMAIN violations : violations[i] = {}}
           certified == {i \in feasible : barred[i] = {}}
           kept      == IF certified # {} THEN certified ELSE feasible
           attained  == Attained(plan, kept)
           met       == {f \in PreferredFloors(plan) :
                            \E i \in kept : Rank(plan.candidates[i].model) >= f}
           left      == {i \in kept : Rank(plan.candidates[i].model) >= attained}
           x         == Filtered(plan, violations, barred)
<1>1. x.feasible = feasible /\ x.kept = left
  BY DEF Filtered
<1>2. kept \subseteq feasible /\ (feasible # {} => kept # {})
  OBVIOUS
<1>3. /\ feasible \subseteq DOMAIN violations /\ \A i \in feasible : violations[i] = {}
      /\ left \subseteq kept
  OBVIOUS
<1>4. attained = IF met = {} THEN plan.hard ELSE Max(met)
  BY DEF Attained
<1>5. met \subseteq Ranks /\ \A f \in met : \E i \in kept : Rank(plan.candidates[i].model) >= f
  BY DEF GroundedPlan
<1>6. ASSUME NEW i \in kept, Rank(plan.candidates[i].model) >= attained PROVE left # {}
  BY <1>6
<1>7. /\ \A i \in left : Rank(plan.candidates[i].model) >= attained
      /\ \A i \in feasible : barred[i] = {} => i \in kept
      /\ \A f \in PreferredFloors(plan), j \in kept :
            Rank(plan.candidates[j].model) >= f => f \in met
  OBVIOUS
<1> HIDE DEF feasible, kept, met, x, left, attained
<1>8. ASSUME kept # {} PROVE left # {}
  <2>1. CASE met = {}
    <3>1. PICK i \in kept : TRUE
      BY <1>8
    <3>2. /\ Rank(plan.candidates[i].model) \in Nat
          /\ plan.hard <= Rank(plan.candidates[i].model) /\ plan.hard \in Nat
      BY <1>2, <1>3, <3>1 DEF GroundedPlan
    <3>3. Rank(plan.candidates[i].model) >= attained
      BY <1>4, <2>1, <3>2
    <3>4. QED
      BY <1>6, <3>1, <3>3
  <2>2. CASE met # {}
    <3>1. IsFiniteSet(met) /\ met \subseteq Int
      BY <1>5, RanksFinite, FS_Subset
    <3>2. Max(met) \in met
      BY <2>2, <3>1, MaxOfFinite
    <3>3. PICK i \in kept : Rank(plan.candidates[i].model) >= Max(met)
      BY <1>5, <3>2
    <3>4. QED
      BY <1>4, <1>6, <2>2, <3>3
  <2>3. QED
    BY <2>1, <2>2
<1>9. x.kept \subseteq {i \in DOMAIN violations : violations[i] = {}}
  BY <1>1, <1>2, <1>3
<1>10. x.feasible # {} => x.kept # {}
  BY <1>1, <1>2, <1>8
<1>11. ASSUME NEW f \in PreferredFloors(plan), NEW i \in x.kept, NEW j \in x.feasible,
              barred[j] = {}, Rank(plan.candidates[j].model) >= f
       PROVE  Rank(plan.candidates[i].model) >= f
  <2>1. f \in met
    BY <1>1, <1>7, <1>11
  <2>2. IsFiniteSet(met) /\ met \subseteq Int
    BY <1>5, RanksFinite, FS_Subset
  <2>3. f <= Max(met) /\ Max(met) \in Int /\ f \in Int
    BY <2>1, <2>2, MaxOfFinite
  <2>4. attained = Max(met)
    BY <1>4, <2>1
  <2>5. Rank(plan.candidates[i].model) >= attained
    BY <1>1, <1>7
  <2>6. i \in feasible
    BY <1>1, <1>2, <1>3
  <2>7. Rank(plan.candidates[i].model) \in Nat
    BY <1>3, <2>6
  <2>8. QED
    BY <2>3, <2>4, <2>5, <2>7
<1>12. QED
  BY <1>9, <1>10, <1>11 DEF x

LEMMA FirstIsOne ==
    ASSUME NEW positions, positions \subseteq Nat, positions # {}, NEW e, NEW plan,
           NEW primaryFirst
    PROVE  FirstOf(positions, e, plan, primaryFirst) \in positions
<1> DEFINE primary == {i \in positions : plan.candidates[i].source # "fallback"}
           pool    == IF primaryFirst /\ primary # {} THEN primary ELSE positions
           healthy == {i \in pool : LET m == plan.candidates[i].model IN
                        Known(e, m) /\ e.models[m].state = "HEALTHY"}
           chosen  == IF healthy # {} THEN healthy ELSE pool
<1>1. pool \subseteq positions /\ pool # {}
  OBVIOUS
<1>2. healthy \subseteq pool
  OBVIOUS
<1>3. FirstOf(positions, e, plan, primaryFirst) = Min(chosen)
  BY DEF FirstOf
<1> HIDE DEF pool, healthy
<1>4. chosen \subseteq positions /\ chosen # {} /\ chosen \subseteq Nat
  BY <1>1, <1>2
<1> HIDE DEF chosen
<1>5. QED
  BY <1>3, <1>4, MinOfNats

\* A position below a preferred floor is taken only if something stands in the way of
\* every position that meets the floor.
FloorsHonoured(req, e, quotes, limits, plan, i) ==
    \A f \in PreferredFloors(plan), j \in DOMAIN quotes :
        LET m == plan.candidates[j].model IN
        Rank(plan.candidates[i].model) < f /\ f <= Rank(m) =>
            \/ Violations(req, m, e, quotes[j], limits, plan) # {}
            \/ CandidateBlockers(m, e, quotes[j], limits) # {}

\* The selected position is one that nothing stands in the way of; with a target
\* wanted, it is the target.
Unobstructed(req, e, wanted, val, quotes, limits, plan, r) ==
    \E i \in DOMAIN quotes :
        /\ r = Selected(i, req, e, val, quotes, limits, plan)
        /\ Violations(req, plan.candidates[i].model, e, quotes[i], limits, plan) = {}
        /\ wanted # <<>> => Listed(wanted, plan.candidates[i].model, plan.candidates[i].effort)
        /\ FloorsHonoured(req, e, quotes, limits, plan, i)

LEMMA ConcludedAt ==
    ASSUME BundleAssumption, NEW req, NEW e, NEW wanted, NEW val, NEW quotes, NEW limits,
           NEW plan, GroundedPlan(plan), limits.floor \in Int, DOMAIN quotes \subseteq Nat,
           \A i \in DOMAIN quotes : plan.candidates[i].model \in Aliases,
           NEW r, r = RouteQuoted(req, e, wanted, val, quotes, limits, plan),
           r.kind = "decision"
    PROVE  Unobstructed(req, e, wanted, val, quotes, limits, plan, r)
<1> DEFINE at(i) == plan.candidates[i].model
           violations == [i \in DOMAIN quotes |->
                            Violations(req, at(i), e, quotes[i], limits, plan)]
           barred == [i \in DOMAIN quotes |-> CandidateBlockers(at(i), e, quotes[i], limits)]
           x == Examine(req, e, quotes, limits, plan)
           targets == {i \in x.kept : Listed(wanted, at(i), plan.candidates[i].effort)}
           pool == IF wanted = <<>> THEN x.kept ELSE targets
           first == FirstOf(pool, e, plan, wanted = <<>>)
<1>1. x = Filtered(plan, violations, barred)
  BY DEF Examine
<1>2. ASSUME NEW i \in DOMAIN violations, violations[i] = {}
      PROVE  Rank(at(i)) \in Nat /\ plan.hard <= Rank(at(i))
  <2>1. Rank(at(i)) \in Nat
    BY DEF BundleAssumption, CatalogValid
  <2>2. TierViolations(at(i), plan, limits) = {}
    BY <1>2 DEF Violations
  <2>3. ~(Rank(at(i)) < Max({plan.hard, limits.floor, 0}))
    BY <2>2 DEF TierViolations
  <2>4. plan.hard \in Int /\ plan.hard \in Nat
    BY DEF GroundedPlan
  <2>5. IsFiniteSet({plan.hard, limits.floor, 0})
    <3>1. IsFiniteSet({plan.hard})
      BY FS_Singleton
    <3>2. IsFiniteSet({plan.hard} \cup {limits.floor})
      BY <3>1, FS_AddElement
    <3>3. IsFiniteSet(({plan.hard} \cup {limits.floor}) \cup {0})
      BY <3>2, FS_AddElement
    <3>4. QED
      BY <3>3
  <2>6. /\ Max({plan.hard, limits.floor, 0}) \in {plan.hard, limits.floor, 0}
        /\ plan.hard <= Max({plan.hard, limits.floor, 0})
    BY <2>4, <2>5, MaxOfFinite
  <2>7. QED
    BY <2>1, <2>3, <2>4, <2>6
<1>3. DOMAIN violations = DOMAIN quotes
  OBVIOUS
<1>4. \A i \in DOMAIN quotes :
        /\ violations[i] = Violations(req, at(i), e, quotes[i], limits, plan)
        /\ barred[i] = CandidateBlockers(at(i), e, quotes[i], limits)
  OBVIOUS
<1>5. r = Conclude(req, e, wanted, val, quotes, limits, plan, x)
  BY DEF RouteQuoted
<1>6. x.feasible # {} /\ (wanted # <<>> => targets # {})
        /\ r = Selected(first, req, e, val, quotes, limits, plan)
  <2> HIDE DEF x
  <2>1. ASSUME NEW constraints PROVE TargetRefused(constraints).kind = "rejection"
    BY DEF TargetRefused, Rejection
  <2>2. ASSUME NEW removed PROVE Unroutable(removed).kind = "rejection"
    BY DEF Unroutable, Rejection
  <2>3. Error("ConfigurationError").kind = "error"
    BY DEF Error
  <2>4. QED
    BY <1>5, <2>1, <2>2, <2>3 DEF Conclude
<1> HIDE DEF violations, barred
<1>7. /\ x.kept \subseteq {i \in DOMAIN violations : violations[i] = {}}
      /\ x.feasible # {} => x.kept # {}
      /\ \A f \in PreferredFloors(plan), i \in x.kept, j \in x.feasible :
            barred[j] = {} /\ Rank(at(j)) >= f => Rank(at(i)) >= f
  BY <1>1, <1>2, SurvivorExists
<1>8. x.feasible = {i \in DOMAIN violations : violations[i] = {}}
  BY <1>1 DEF Filtered
<1>9. targets \subseteq x.kept
      /\ \A i \in targets : Listed(wanted, at(i), plan.candidates[i].effort)
  OBVIOUS
<1> HIDE DEF x, targets
<1>10. pool # {} /\ pool \subseteq x.kept /\ pool \subseteq Nat
  BY <1>3, <1>6, <1>7, <1>9
<1>11. first \in pool
  <2> HIDE DEF pool
  <2>1. QED
    BY <1>10, FirstIsOne
<1>12. first \in DOMAIN quotes
  BY <1>3, <1>7, <1>10, <1>11
<1>13. Violations(req, at(first), e, quotes[first], limits, plan) = {}
  BY <1>3, <1>4, <1>7, <1>10, <1>11
<1>14. wanted # <<>> => Listed(wanted, at(first), plan.candidates[first].effort)
  BY <1>9, <1>11
<1>15. FloorsHonoured(req, e, quotes, limits, plan, first)
  <2>1. SUFFICES ASSUME NEW f \in PreferredFloors(plan), NEW j \in DOMAIN quotes,
                        Rank(at(first)) < f, f <= Rank(at(j)),
                        violations[j] = {}, barred[j] = {}
                 PROVE  FALSE
    BY <1>4 DEF FloorsHonoured
  <2>2. j \in x.feasible /\ first \in x.kept
    BY <1>3, <1>10, <1>11, <1>8, <2>1
  <2>3. f \in Nat /\ Rank(at(j)) \in Nat /\ Rank(at(first)) \in Nat
    BY <1>12, RanksFinite DEF GroundedPlan, BundleAssumption, CatalogValid
  <2>4. Rank(at(first)) >= f
    BY <1>7, <2>1, <2>2, <2>3
  <2>5. QED
    BY <2>1, <2>3, <2>4
<1> HIDE DEF first
<1>16. QED
  BY <1>6, <1>12, <1>13, <1>14, <1>15 DEF Unobstructed

\* What the router examines of its plan: a decision names the first position left.
LEMMA DecisionExamined ==
    ASSUME BundleAssumption, NEW req, RequestValid(req), NEW cls, NEW e, Funded(e), NEW wanted,
           NEW r, r = Route(req, cls, e, wanted), r.kind = "decision"
    PROVE  LET limits == ResolveLimits(req, e)
               val    == DetermineValidation(req, e)
               plan   == PlanFor(cls, limits, wanted)
               quotes == [i \in 1..Len(plan.candidates) |->
                            Quotes(req, plan.candidates[i].model, e, val)]
           IN /\ ~PlanUnsupported(plan)
              /\ Unobstructed(req, e, wanted, val, quotes, limits, plan, r)
<1> DEFINE limits == ResolveLimits(req, e)
           val    == DetermineValidation(req, e)
           plan   == PlanFor(cls, limits, wanted)
           quotes == [i \in 1..Len(plan.candidates) |->
                        Quotes(req, plan.candidates[i].model, e, val)]
<1>1. ASSUME NEW what, NEW failure_, NEW constraints, NEW retryable
      PROVE  Error(what).kind = "error" /\ Rejection(failure_, constraints, retryable).kind = "rejection"
  BY DEF Error, Rejection
<1>2. r = RouteWithin(req, cls, e, wanted, limits)
  <2> HIDE DEF limits
  <2>1. QED
    BY <1>1 DEF Route, limits
<1>3. r = RoutePlan(req, e, wanted, val, limits, plan)
  <2> HIDE DEF limits, val
  <2>1. plan = PlanFor(cls, limits, wanted)
    OBVIOUS
  <2> HIDE DEF plan
  <2>2. QED
    BY <1>1, <1>2, <2>1 DEF RouteWithin, val
<1>4. ~PlanUnsupported(plan) /\ r = RouteQuoted(req, e, wanted, val, quotes, limits, plan)
  <2> HIDE DEF limits, val, plan
  <2>1. QED
    BY <1>1, <1>3 DEF RoutePlan
<1>5. GroundedPlan(plan) /\ plan.hard = FloorOf("hard", FloorEvidence(cls))
  BY PlanGrounded, PlanFloors
<1>6. limits.floor \in Int
  BY LimitsType DEF Numbers, LimitFields
<1> HIDE DEF limits, val, plan
<1>7. \A i \in 1..Len(plan.candidates) :
        /\ plan.candidates[i].model \in Aliases
        /\ Supports(plan.candidates[i].model, plan.candidates[i].effort)
  BY <1>4 DEF PlanUnsupported
<1>8. DOMAIN quotes = 1..Len(plan.candidates) /\ DOMAIN quotes \subseteq Nat
      /\ \A i \in DOMAIN quotes : quotes[i] = Quotes(req, plan.candidates[i].model, e, val)
  OBVIOUS
<1> HIDE DEF quotes
<1>9. Unobstructed(req, e, wanted, val, quotes, limits, plan, r)
  <2>1. \A i \in DOMAIN quotes : plan.candidates[i].model \in Aliases
    BY <1>7, <1>8
  <2>2. DOMAIN quotes \subseteq Nat
    BY <1>8
  <2>3. r = RouteQuoted(req, e, wanted, val, quotes, limits, plan)
    BY <1>4
  <2>4. QED
    BY <1>5, <1>6, <2>1, <2>2, <2>3, ConcludedAt
<1>10. QED
  BY <1>4, <1>9 DEF limits, val, plan, quotes

\* What a decision of the router says of the model it names.
Granted(req, cls, e, wanted, r) ==
    LET limits == ResolveLimits(req, e)
        val    == DetermineValidation(req, e)
        quotes == Quotes(req, r.model, e, val)
    IN /\ r.model \in Aliases /\ Supports(r.model, r.effort)
       /\ r.bound = QuotedBound(quotes) /\ r.needed = NeededFor(quotes)
       /\ r.blockers = ReadinessBlockers(req, r.model, e, val, quotes, limits)
       /\ \E plan : /\ plan.hard = FloorOf("hard", FloorEvidence(cls))
                    /\ Violations(req, r.model, e, quotes, limits, plan) = {}
       /\ wanted # <<>> => Listed(wanted, r.model, r.effort)

LEMMA DecisionGranted ==
    ASSUME BundleAssumption, NEW req, RequestValid(req), NEW cls, NEW e, Funded(e), NEW wanted,
           NEW r, r = Route(req, cls, e, wanted), r.kind = "decision"
    PROVE  Granted(req, cls, e, wanted, r)
<1> DEFINE limits == ResolveLimits(req, e)
           val    == DetermineValidation(req, e)
           plan   == PlanFor(cls, limits, wanted)
           quotes == [i \in 1..Len(plan.candidates) |->
                        Quotes(req, plan.candidates[i].model, e, val)]
<1>1. ~PlanUnsupported(plan) /\ Unobstructed(req, e, wanted, val, quotes, limits, plan, r)
  BY DecisionExamined
<1>2. plan.hard = FloorOf("hard", FloorEvidence(cls))
  BY PlanFloors
<1> HIDE DEF limits, val, plan
<1>3. \A i \in 1..Len(plan.candidates) :
        /\ plan.candidates[i].model \in Aliases
        /\ Supports(plan.candidates[i].model, plan.candidates[i].effort)
  BY <1>1 DEF PlanUnsupported
<1>4. DOMAIN quotes = 1..Len(plan.candidates)
      /\ \A i \in DOMAIN quotes : quotes[i] = Quotes(req, plan.candidates[i].model, e, val)
  OBVIOUS
<1> HIDE DEF quotes
<1>5. PICK i \in DOMAIN quotes :
        /\ r = Selected(i, req, e, val, quotes, limits, plan)
        /\ Violations(req, plan.candidates[i].model, e, quotes[i], limits, plan) = {}
        /\ wanted # <<>> => Listed(wanted, plan.candidates[i].model, plan.candidates[i].effort)
  BY <1>1 DEF Unobstructed
<1> DEFINE c == plan.candidates[i]
<1>6. r = Decision(c, ReadinessBlockers(req, c.model, e, val, quotes[i], limits),
                    QuotedBound(quotes[i]), NeededFor(quotes[i]), limits, plan.floors)
  BY <1>5 DEF Selected
<1>7. /\ r.model = c.model /\ r.effort = c.effort
       /\ r.blockers = ReadinessBlockers(req, c.model, e, val, quotes[i], limits)
       /\ r.bound = QuotedBound(quotes[i]) /\ r.needed = NeededFor(quotes[i])
  BY <1>6 DEF Decision
<1>8. quotes[i] = Quotes(req, r.model, e, val)
  BY <1>4, <1>7
<1>9. r.model \in Aliases /\ Supports(r.model, r.effort)
  BY <1>3, <1>4, <1>7
<1>10. Violations(req, r.model, e, Quotes(req, r.model, e, val), limits, plan) = {}
  BY <1>5, <1>7, <1>8
<1>11. wanted # <<>> => Listed(wanted, r.model, r.effort)
  BY <1>5, <1>7
<1> HIDE DEF c
<1>12. QED
  BY <1>2, <1>7, <1>8, <1>9, <1>10, <1>11 DEF Granted, limits, val

\* route() overlooks no candidate of its plan, on the first route or in recovery: a decision
\* is below a preferred floor only if each model of the plan that meets the floor violates a
\* constraint or fails to certify its price, its funding or its access.
THEOREM NoPlannedRouteOverlooked ==
    ASSUME BundleAssumption, NEW req, RequestValid(req), NEW cls, NEW e, Funded(e), NEW wanted,
           NEW r, r = Route(req, cls, e, wanted), r.kind = "decision",
           NEW f \in {x \in FloorEvidence(cls) : x.strength = "preferred"},
           Rank(r.model) < f.min
    PROVE  LET limits == ResolveLimits(req, e)
               val    == DetermineValidation(req, e)
               plan   == PlanFor(cls, limits, wanted)
           IN \A i \in 1..Len(plan.candidates) :
                LET m      == plan.candidates[i].model
                    quotes == Quotes(req, m, e, val)
                IN f.min <= Rank(m) =>
                    \/ Violations(req, m, e, quotes, limits, plan) # {}
                    \/ CandidateBlockers(m, e, quotes, limits) # {}
<1> DEFINE limits == ResolveLimits(req, e)
           val    == DetermineValidation(req, e)
           plan   == PlanFor(cls, limits, wanted)
           quotes == [i \in 1..Len(plan.candidates) |->
                        Quotes(req, plan.candidates[i].model, e, val)]
<1>1. Unobstructed(req, e, wanted, val, quotes, limits, plan, r)
  BY DecisionExamined
<1>2. f.min \in PreferredFloors(plan)
  BY PlanFloors DEF PreferredFloors
<1>3. SUFFICES ASSUME NEW j \in 1..Len(plan.candidates),
                      f.min <= Rank(plan.candidates[j].model)
               PROVE  LET m == plan.candidates[j].model IN
                      \/ Violations(req, m, e, Quotes(req, m, e, val), limits, plan) # {}
                      \/ CandidateBlockers(m, e, Quotes(req, m, e, val), limits) # {}
  OBVIOUS
<1> HIDE DEF limits, val, plan
<1>4. PICK i \in DOMAIN quotes :
        /\ r = Selected(i, req, e, val, quotes, limits, plan)
        /\ FloorsHonoured(req, e, quotes, limits, plan, i)
  <2> HIDE DEF quotes
  <2>1. QED
    BY <1>1 DEF Unobstructed
<1>5. j \in DOMAIN quotes /\ quotes[j] = Quotes(req, plan.candidates[j].model, e, val)
  OBVIOUS
<1>6. r.model = plan.candidates[i].model
  BY <1>4 DEF Selected, Decision
<1> HIDE DEF quotes
<1>7. QED
  BY <1>2, <1>3, <1>4, <1>5, <1>6 DEF FloorsHonoured

\* The same environment with every model of the catalog usable.
Recovered(e, h) ==
    /\ \E models : h = [e EXCEPT !.models = models]
    /\ \A m \in Aliases : ~NoHealthyPath(h, m)

\* Health decides nothing of a plan or a quote, and takes one obstacle away.
LEMMA OnlyHealthDiffers ==
    ASSUME NEW req, "no_healthy_permitted_path" \notin req.requirements,
           NEW e, EnvironmentValid(e), NEW h, Recovered(e, h)
    PROVE  /\ ResolveLimits(req, h) = ResolveLimits(req, e)
           /\ DetermineValidation(req, h) = DetermineValidation(req, e)
           /\ \A m, val : Quotes(req, m, h, val) = Quotes(req, m, e, val)
           /\ \A m \in Aliases : \A quotes, limits, plan :
                Violations(req, m, h, quotes, limits, plan) =
                    Violations(req, m, e, quotes, limits, plan) \ {"no_healthy_permitted_path"}
<1>1. /\ h.synthetic = e.synthetic /\ h.application = e.application /\ h.budget = e.budget
      /\ h.overlay = e.overlay /\ h.validation = e.validation /\ h.mocks = e.mocks
      /\ h.evaluatorCost = e.evaluatorCost /\ h.domainCost = e.domainCost
      /\ h.toolCharge = e.toolCharge /\ h.toolCost = e.toolCost
      /\ h.minimumAction = e.minimumAction /\ h.remaining = e.remaining
  <2>1. e \in Environments(e.models)
    BY DEF EnvironmentValid
  <2>2. QED
    BY <2>1 DEF Environments, Recovered
<1>2. ResolveLimits(req, h) = ResolveLimits(req, e)
  BY <1>1 DEF ResolveLimits, DeploymentLimits, Overlays
<1>3. DetermineValidation(req, h) = DetermineValidation(req, e)
  BY <1>1 DEF DetermineValidation
<1>4. ASSUME NEW m, NEW val PROVE Quotes(req, m, h, val) = Quotes(req, m, e, val)
  <2>1. RequiredCharges(req, h, val) = RequiredCharges(req, e, val)
    BY <1>1 DEF RequiredCharges
  <2>2. EstimateCost(req, m, h, val) = EstimateCost(req, m, e, val)
    BY <2>1 DEF EstimateCost
  <2>3. \A other : RequiredCharges(other, h, val) = RequiredCharges(other, e, val)
    BY <1>1 DEF RequiredCharges
  <2>4. \A other : EstimateCost(other, m, h, val) = EstimateCost(other, m, e, val)
    BY <2>3 DEF EstimateCost
  <2>5. QED
    BY <2>4 DEF Quotes
<1>5. ASSUME NEW m \in Aliases, NEW quotes, NEW limits, NEW plan
      PROVE  Violations(req, m, h, quotes, limits, plan) =
                Violations(req, m, e, quotes, limits, plan) \ {"no_healthy_permitted_path"}
  <2>1. \A q : CheckBudget(q, limits, h) = CheckBudget(q, limits, e)
    BY <1>1 DEF CheckBudget
  <2>2. BudgetOf(quotes, limits, h) = BudgetOf(quotes, limits, e)
    BY <2>1 DEF BudgetOf
  <2>3. \A q : "no_healthy_permitted_path" \notin CheckBudget(q, limits, e).violations
    BY DEF CheckBudget
  <2>4. "no_healthy_permitted_path" \notin BudgetOf(quotes, limits, e).violations
    BY <2>3 DEF BudgetOf
  <2>5. "no_healthy_permitted_path" \notin CheckCapabilities(req, m)
    BY DEF CheckCapabilities
  <2>6. "no_healthy_permitted_path" \notin TierViolations(m, plan, limits)
    BY DEF TierViolations
  <2>7. ~NoHealthyPath(h, m)
    BY DEF Recovered
  <2>8. QED
    BY <2>2, <2>4, <2>5, <2>6, <2>7 DEF Violations
<1>6. QED
  BY <1>2, <1>3, <1>4, <1>5

\* Without a target, a plan is refused when nothing in it is feasible, and then for
\* availability when some position has no other obstacle.
LEMMA ConcludedWithoutTarget ==
    ASSUME NEW req, NEW e, NEW val, NEW quotes, NEW limits, NEW plan,
           NEW r, r = RouteQuoted(req, e, <<>>, val, quotes, limits, plan), r.kind # "error"
    PROVE  LET stands(i) ==
                   Violations(req, plan.candidates[i].model, e, quotes[i], limits, plan) IN
           /\ r.kind \in {"decision", "rejection"}
           /\ r.kind = "rejection" <=> \A i \in DOMAIN quotes : stands(i) # {}
           /\ r.kind = "rejection" =>
                (r.failure = "PROVIDER_FAILURE" <=>
                    \E i \in DOMAIN quotes : stands(i) = {"no_healthy_permitted_path"})
<1> DEFINE at(i) == plan.candidates[i].model
           violations == [i \in DOMAIN quotes |->
                            Violations(req, at(i), e, quotes[i], limits, plan)]
           barred == [i \in DOMAIN quotes |-> CandidateBlockers(at(i), e, quotes[i], limits)]
           x == Filtered(plan, violations, barred)
           removed == {x.removed[i] : i \in DOMAIN x.removed}
<1>1. r = Conclude(req, e, <<>>, val, quotes, limits, plan, x)
  BY DEF RouteQuoted, Examine
<1>2. DOMAIN violations = DOMAIN quotes
      /\ \A i \in DOMAIN quotes :
            violations[i] = Violations(req, at(i), e, quotes[i], limits, plan)
  OBVIOUS
<1> HIDE DEF violations, barred
<1>3. x.feasible = {i \in DOMAIN violations : violations[i] = {}}
  BY DEF Filtered
<1>4. ASSUME x.feasible = {} PROVE removed = {violations[i] : i \in DOMAIN violations}
  <2>1. x.removed = [i \in DOMAIN violations \ {} |-> violations[i]]
    BY <1>3, <1>4 DEF Filtered
  <2> HIDE DEF x
  <2>2. DOMAIN x.removed = DOMAIN violations
        /\ \A i \in DOMAIN violations : x.removed[i] = violations[i]
    BY <2>1
  <2>3. QED
    BY <2>2
<1> HIDE DEF x
<1>5. CASE x.feasible = {}
  <2>1. r = Unroutable(removed)
    BY <1>1, <1>5 DEF Conclude
  <2>2. r.kind = "rejection"
    BY <2>1 DEF Unroutable, Rejection
  <2>3. r.failure = "PROVIDER_FAILURE" <=> {"no_healthy_permitted_path"} \in removed
    <3> HIDE DEF removed
    <3>1. QED
      BY <2>1 DEF Unroutable, Rejection
  <2>4. QED
    BY <1>2, <1>3, <1>4, <1>5, <2>2, <2>3
<1>6. CASE x.feasible # {}
  <2>1. Error("ConfigurationError").kind = "error"
    BY DEF Error
  <2>2. r = Selected(FirstOf(x.kept, e, plan, TRUE), req, e, val, quotes, limits, plan)
    BY <1>1, <1>6, <2>1 DEF Conclude
  <2>3. \E i : r = Selected(i, req, e, val, quotes, limits, plan)
    BY <2>2
  <2>4. r.kind = "decision"
    BY <2>3 DEF Selected, Decision
  <2>5. QED
    BY <1>2, <1>3, <1>6, <2>4
<1>7. QED
  BY <1>5, <1>6

\* The reason route() gives for a refusal is the true one: were every model of the catalog
\* enabled and usable, the request would be routed if, and only if, the refusal blames
\* availability; unless route() raises a configuration error, which is neither.
THEOREM RejectionNamesObstacle ==
    ASSUME NEW req, "no_healthy_permitted_path" \notin req.requirements, NEW cls,
           NEW e, EnvironmentValid(e), NEW h, Recovered(e, h),
           NEW r, r = Route(req, cls, e, <<>>), r.kind = "rejection",
           NEW s, s = Route(req, cls, h, <<>>), s.kind # "error"
    PROVE  r.failure = "PROVIDER_FAILURE" <=> s.kind = "decision"
<1> DEFINE limits == ResolveLimits(req, e)
           val    == DetermineValidation(req, e)
           plan   == PlanFor(cls, limits, <<>>)
           quotes == [i \in 1..Len(plan.candidates) |->
                        Quotes(req, plan.candidates[i].model, e, val)]
           incapable == \A m \in Aliases : CheckCapabilities(req, m) # {}
           lacking   == UNION {CheckCapabilities(req, m) : m \in Aliases}
           crossed   == None \notin {limits.floor, limits.ceiling} /\ limits.floor > limits.ceiling
           beyond    == limits.ceiling # None /\ plan.hard > limits.ceiling
           Stands(g, i) ==
               Violations(req, plan.candidates[i].model, g, quotes[i], limits, plan)
<1>1. ASSUME NEW what, NEW failure_, NEW constraints, NEW retryable
      PROVE  /\ Error(what).kind = "error"
             /\ Rejection(failure_, constraints, retryable).kind = "rejection"
             /\ Rejection(failure_, constraints, retryable).failure = failure_
  BY DEF Error, Rejection
<1>2. /\ limits = ResolveLimits(req, h) /\ val = DetermineValidation(req, h)
      /\ \A m, v : Quotes(req, m, h, v) = Quotes(req, m, e, v)
      /\ \A m \in Aliases : \A qs, l, p :
            Violations(req, m, h, qs, l, p) =
                Violations(req, m, e, qs, l, p) \ {"no_healthy_permitted_path"}
  BY OnlyHealthDiffers
<1>3. quotes = [i \in 1..Len(plan.candidates) |->
                  Quotes(req, plan.candidates[i].model, h, val)]
  BY <1>2
<1> HIDE DEF limits, val
<1>4. ~InputInvalid(req, cls, e, <<>>) /\ ~InputInvalid(req, cls, h, <<>>)
  BY <1>1 DEF Route
<1>5. /\ r = IF incapable THEN Rejection("CAPABILITY_FAILURE", lacking, FALSE)
                          ELSE RouteWithin(req, cls, e, <<>>, ResolveLimits(req, e))
      /\ s = IF incapable THEN Rejection("CAPABILITY_FAILURE", lacking, FALSE)
                          ELSE RouteWithin(req, cls, h, <<>>, ResolveLimits(req, h))
  BY <1>4, Zenon DEF Route
<1> HIDE DEF incapable, lacking
<1>6. /\ incapable => /\ r.kind = "rejection" /\ r.failure = "CAPABILITY_FAILURE"
                      /\ s.kind = "rejection"
      /\ ~incapable => /\ r = RouteWithin(req, cls, e, <<>>, limits)
                       /\ s = RouteWithin(req, cls, h, <<>>, limits)
  BY <1>2, <1>5 DEF Rejection, limits
<1>7. ASSUME NEW g, val = DetermineValidation(req, g)
      PROVE  /\ crossed => /\ RouteWithin(req, cls, g, <<>>, limits).kind = "rejection"
                           /\ RouteWithin(req, cls, g, <<>>, limits).failure = "BUDGET_FAILURE"
             /\ ~crossed => RouteWithin(req, cls, g, <<>>, limits)
                               = RoutePlan(req, g, <<>>, val, limits, plan)
  <2>1. plan = PlanFor(cls, limits, <<>>)
    OBVIOUS
  <2> HIDE DEF plan
  <2>2. QED
    BY <1>7, <2>1 DEF RouteWithin, Rejection
<1>8. ~crossed =>
        /\ RouteWithin(req, cls, e, <<>>, limits) = RoutePlan(req, e, <<>>, val, limits, plan)
        /\ RouteWithin(req, cls, h, <<>>, limits) = RoutePlan(req, h, <<>>, val, limits, plan)
  BY <1>2, <1>7 DEF val
<1>9. crossed =>
        /\ RouteWithin(req, cls, e, <<>>, limits).kind = "rejection"
        /\ RouteWithin(req, cls, e, <<>>, limits).failure = "BUDGET_FAILURE"
        /\ RouteWithin(req, cls, h, <<>>, limits).kind = "rejection"
  BY <1>2, <1>7 DEF val
<1> HIDE DEF crossed, plan
<1>10. ASSUME NEW g, quotes = [i \in 1..Len(plan.candidates) |->
                                 Quotes(req, plan.candidates[i].model, g, val)]
       PROVE  LET planned == RoutePlan(req, g, <<>>, val, limits, plan) IN
              /\ beyond => planned.kind = "rejection" /\ planned.failure = "BUDGET_FAILURE"
              /\ ~beyond /\ PlanUnsupported(plan) => planned.kind = "error"
              /\ ~beyond /\ ~PlanUnsupported(plan) =>
                    planned = RouteQuoted(req, g, <<>>, val, quotes, limits, plan)
  <2> HIDE DEF quotes
  <2>1. QED
    BY <1>10 DEF RoutePlan, Error, Rejection
<1>11. CASE incapable \/ crossed \/ beyond
  BY <1>3, <1>6, <1>8, <1>9, <1>10, <1>11
<1>12. CASE ~(incapable \/ crossed \/ beyond)
  <2>1. /\ ~PlanUnsupported(plan)
        /\ r = RouteQuoted(req, e, <<>>, val, quotes, limits, plan)
        /\ s = RouteQuoted(req, h, <<>>, val, quotes, limits, plan)
    BY <1>3, <1>6, <1>8, <1>10, <1>12
  <2>2. ASSUME NEW i \in DOMAIN quotes
        PROVE  Stands(h, i) = Stands(e, i) \ {"no_healthy_permitted_path"}
    BY <1>2, <2>1 DEF PlanUnsupported
  <2> HIDE DEF quotes
  <2>3. /\ \A i \in DOMAIN quotes : Stands(e, i) # {}
        /\ r.failure = "PROVIDER_FAILURE" <=>
             \E i \in DOMAIN quotes : Stands(e, i) = {"no_healthy_permitted_path"}
    BY <2>1, ConcludedWithoutTarget
  <2>4. s.kind = "decision" <=> \E i \in DOMAIN quotes : Stands(h, i) = {}
    BY <2>1, ConcludedWithoutTarget
  <2>5. QED
    BY <2>2, <2>3, <2>4
<1>13. QED
  BY <1>11, <1>12

\* A single target is the route that is granted.
LEMMA TargetGranted ==
    ASSUME NEW req, NEW cls, NEW e, NEW t, NEW r, Granted(req, cls, e, <<t>>, r)
    PROVE  r.model = t.model /\ r.effort = t.effort
<1>1. <<t>> # <<>> /\ ToSet(<<t>>) = {t}
  BY DEF ToSet
<1>2. Listed(<<t>>, r.model, r.effort)
  BY <1>1 DEF Granted
<1>3. QED
  BY <1>1, <1>2 DEF Listed

\* The route as it is taken: on a known model, and what it reserves is part of what it needs.
RouteOK(r) ==
    /\ r.kind = "decision" /\ r.model \in Aliases /\ Supports(r.model, r.effort)
    /\ r.bound \in Nat /\ r.needed \in Int /\ r.bound <= r.needed

LEMMA GrantedIsOK ==
    ASSUME BundleAssumption, NEW req, RequestValid(req), NEW cls, NEW e, Funded(e), NEW wanted,
           NEW r, r.kind = "decision", Granted(req, cls, e, wanted, r)
    PROVE  RouteOK(r)
<1> DEFINE val    == DetermineValidation(req, e)
           quotes == Quotes(req, r.model, e, val)
<1>1. /\ r.model \in Aliases /\ Supports(r.model, r.effort)
      /\ r.bound = QuotedBound(quotes) /\ r.needed = NeededFor(quotes)
  BY DEF Granted
<1> HIDE DEF val
<1>2. PICK a, b : IsQuote(a) /\ IsQuote(b) /\ ToSet(quotes) = {a, b}
  BY <1>1, QuotesType
<1> HIDE DEF quotes
<1>3. /\ QuotedBound(quotes) \in Nat /\ NeededFor(quotes) \in Int
      /\ QuotedBound(quotes) <= NeededFor(quotes)
  BY <1>2, BoundWithinNeed
<1>4. QED
  BY <1>1, <1>3 DEF RouteOK

\* A granted route that is ready may be called.
LEMMA GrantedIsLawful ==
    ASSUME BundleAssumption, NEW req, RequestValid(req), NEW cls, NEW e, Funded(e), NEW wanted,
           NEW r, Granted(req, cls, e, wanted, r), r.blockers \subseteq Dischargeable,
           NEW amount \in Nat, e.remaining = amount
    PROVE  LET m == r.model
               limits == ResolveLimits(req, e)
               val    == DetermineValidation(req, e)
           IN /\ CheckCapabilities(req, m) = {}
              /\ \A f \in {x.min : x \in {y \in Matched(Floors, cls) : y.strength = "hard"}} :
                    Rank(m) >= f
              /\ WithinLimits(m, limits)
              /\ \A q \in ToSet(Quotes(req, m, e, val)) :
                    /\ limits.cost # None => q.known <= limits.cost
                    /\ q.generation <= amount
              /\ ~NoHealthyPath(e, m) /\ Verified(e, m)
<1> DEFINE m      == r.model
           limits == ResolveLimits(req, e)
           val    == DetermineValidation(req, e)
           quotes == Quotes(req, m, e, val)
<1>1. m \in Aliases
  BY DEF Granted
<1>2. PICK plan : /\ plan.hard = FloorOf("hard", FloorEvidence(cls))
                  /\ Violations(req, m, e, quotes, limits, plan) = {}
  BY DEF Granted
<1>3. r.blockers = ReadinessBlockers(req, m, e, val, quotes, limits)
  BY DEF Granted
<1>4. limits \in Numbers /\ limits.floor \in Int /\ limits.ceiling \in Int /\ limits.cost \in Int
  BY LimitsType DEF Numbers, LimitFields
<1>5. Rank(m) \in Nat
  BY <1>1 DEF BundleAssumption, CatalogValid
<1>6. PICK a, b : IsQuote(a) /\ IsQuote(b) /\ ToSet(quotes) = {a, b}
  BY <1>1, QuotesType
<1>7. plan.hard \in Nat
      /\ \A x \in Matched(Floors, cls) : x.strength = "hard" => x.min \in Nat /\ x.min <= plan.hard
  BY <1>2, HardFloor
<1> HIDE DEF m, limits, val, quotes
<1>8. /\ CheckCapabilities(req, m) = {} /\ TierViolations(m, plan, limits) = {}
      /\ ~NoHealthyPath(e, m) /\ BudgetOf(quotes, limits, e).violations = {}
  BY <1>2 DEF Violations
<1>9. /\ ~(Rank(m) < Max({plan.hard, limits.floor, 0}))
      /\ limits.ceiling # None => ~(Rank(m) > limits.ceiling)
  BY <1>8 DEF TierViolations
<1>10. /\ Max({plan.hard, limits.floor, 0}) \in {plan.hard, limits.floor, 0}
       /\ plan.hard <= Max({plan.hard, limits.floor, 0})
       /\ limits.floor <= Max({plan.hard, limits.floor, 0})
  <2>1. IsFiniteSet({plan.hard})
    BY FS_Singleton
  <2>2. IsFiniteSet({plan.hard} \cup {limits.floor})
    BY <2>1, FS_AddElement
  <2>3. IsFiniteSet(({plan.hard} \cup {limits.floor}) \cup {0})
    BY <2>2, FS_AddElement
  <2>4. IsFiniteSet({plan.hard, limits.floor, 0}) /\ {plan.hard, limits.floor, 0} \subseteq Int
    BY <1>4, <1>7, <2>3
  <2>5. QED
    BY <2>4, MaxOfFinite
<1>11. plan.hard <= Rank(m) /\ limits.floor <= Rank(m)
  BY <1>4, <1>5, <1>7, <1>9, <1>10
<1>12. \A f \in {x.min : x \in {y \in Matched(Floors, cls) : y.strength = "hard"}} : Rank(m) >= f
  BY <1>5, <1>7, <1>11
<1>13. WithinLimits(m, limits)
  BY <1>4, <1>5, <1>9, <1>11 DEF WithinLimits
<1>14. ASSUME NEW q \in ToSet(quotes)
       PROVE  /\ limits.cost # None => q.known <= limits.cost
              /\ q.generation <= amount
  <2>1. CheckBudget(q, limits, e).violations = {}
    BY <1>8 DEF BudgetOf
  <2>2. /\ ~(limits.cost # None /\ q.known > limits.cost)
        /\ e.remaining # None => q.generation <= e.remaining
    BY <2>1 DEF CheckBudget
  <2>3. q.known \in Nat /\ q.generation \in Nat
    BY <1>6 DEF IsQuote
  <2>4. e.remaining # None
    BY DEF None
  <2>5. QED
    BY <1>4, <2>2, <2>3, <2>4
<1>15. Verified(e, m)
  <2>1. "account_unknown" \notin r.blockers
    BY DEF Dischargeable
  <2>2. QED
    BY <1>3, <2>1 DEF ReadinessBlockers
<1>16. QED
  BY <1>8, <1>12, <1>13, <1>14, <1>15 DEF m, limits, val, quotes

-----------------------------------------------------------------------------
\* The inductive invariant of a routed task.

\* Only what it says of the models changes in the environment.
Steady == /\ DOMAIN env = DOMAIN Baseline
          /\ \A f \in DOMAIN Baseline \ {"models"} : env[f] = Baseline[f]

\* A proposed target lies in the direction that the failure permits.
Directed(t) ==
    IF failure.type = "QUALITY_FAILURE"
    THEN Rank(t.model) > Rank(route.model) \/ (t.model = route.model /\ Later(route, t))
    ELSE Rank(t.model) <= Rank(route.model)

RoutedInv ==
    /\ task \in Cases /\ Steady /\ funds \in Nat
    /\ pc \in {"routed", "admitted", "called", "failed", "trial", "reselect"} => RouteOK(route)
    /\ pc \in {"trial", "reselect"} => \E t : proposal.target = <<t>> /\ Directed(t)

LEMMA EnvironmentKept ==
    ASSUME TaskAssumption, Steady, NEW amount
    PROVE  Funded(Now(amount)) /\ Now(amount).remaining = amount
<1>1. Baseline \in Environments(Baseline.models)
  BY DEF TaskAssumption, EnvironmentValid
<1>2. /\ {"budget", "overlay", "evaluatorCost", "domainCost", "toolCost", "remaining"}
           \subseteq DOMAIN Baseline
      /\ Baseline.budget \in Limits /\ Baseline.overlay \in Limits
      /\ Baseline.evaluatorCost \in Optional /\ Baseline.domainCost \in Optional
      /\ Baseline.toolCost \in Optional
  <2> HIDE DEF Limits, Optional
  <2>1. QED
    BY <1>1 DEF Environments
<1>3. /\ {"budget", "overlay", "evaluatorCost", "domainCost", "toolCost", "remaining"}
           \subseteq DOMAIN env
      /\ env.budget = Baseline.budget /\ env.overlay = Baseline.overlay
      /\ env.evaluatorCost = Baseline.evaluatorCost /\ env.domainCost = Baseline.domainCost
      /\ env.toolCost = Baseline.toolCost
  BY <1>2 DEF Steady
<1>4. Funded(Now(amount))
  BY <1>2, <1>3 DEF Funded, Now
<1>5. QED
  BY <1>3, <1>4 DEF Now

\* The models a preference picks from are models of the catalog.
LEMMA HigherTier ==
    ASSUME BundleAssumption, RouteOK(route), NextTierTarget(route) # <<>>
    PROVE  \E t : NextTierTarget(route) = <<t>> /\ Rank(t.model) > Rank(route.model)
<1> DEFINE higher == {m \in Enabled : Rank(m) > Rank(route.model)}
           next   == CHOOSE m \in higher : \A n \in higher : Rank(m) <= Rank(n)
           t      == [model |-> next, effort |-> PreferredEffort(next), source |-> "fallback"]
<1>1. higher # {} /\ NextTierTarget(route) = <<t>>
  BY DEF NextTierTarget, Target
<1>2. higher \subseteq Aliases
  BY DEF Enabled
<1>3. \E m \in higher : \A n \in higher : Rank(m) <= Rank(n)
  BY <1>1, <1>2, RankExtremes
<1>4. next \in higher
  BY <1>3
<1>5. Rank(next) > Rank(route.model)
  BY <1>4
<1>6. t.model = next
  OBVIOUS
<1> HIDE DEF next, t
<1>7. QED
  BY <1>1, <1>5, <1>6

LEMMA LaterEffort ==
    ASSUME BundleAssumption, RouteOK(route), NextPriorEffort(route) # <<>>
    PROVE  \E t : NextPriorEffort(route) = <<t>> /\ t.model = route.model /\ Later(route, t)
<1> DEFINE order  == Catalog[route.model].efforts
           listed == SelectSeq(Band(Total(task.cls)).candidates,
                               LAMBDA e : e.model = route.model)
           at     == {i \in 1..Len(order) : order[i] = route.effort}
           here   == Min(at)
           later  == {i \in (here + 1)..Len(order) :
                        listed # <<>> /\ order[i] \in ToSet(listed[1].efforts)}
           t      == [model |-> route.model, effort |-> order[Min(later)], source |-> "fallback"]
<1>1. later # {} /\ NextPriorEffort(route) = <<t>>
  <2> HIDE DEF listed
  <2>1. NextPriorEffort(route) =
          IF later = {} THEN <<>> ELSE Target([model |-> route.model, effort |-> order[Min(later)]])
    BY Zenon DEF NextPriorEffort, listed
  <2> HIDE DEF later, order
  <2>2. later # {}
    BY <2>1
  <2>3. QED
    BY <2>1, <2>2 DEF Target
<1>2. order \in Seq(STRING)
  BY DEF BundleAssumption, CatalogValid, RouteOK
<1>3. Len(order) \in Nat /\ DOMAIN order = 1..Len(order)
  BY <1>2
<1>4. at # {} /\ at \subseteq Nat
  BY <1>3 DEF RouteOK, Supports, ToSet
<1>5. here \in at
  BY <1>4, MinOfNats
<1>6. here \in 1..Len(order) /\ order[here] = route.effort
  BY <1>5
<1>7. later \subseteq (here + 1)..Len(order)
  OBVIOUS
<1> HIDE DEF order, here, at, later
<1>8. later \subseteq Nat
  BY <1>3, <1>6, <1>7
<1>9. Min(later) \in later
  BY <1>1, <1>8, MinOfNats
<1>10. Min(later) \in 1..Len(order) /\ here < Min(later)
  <2>1. here \in Int /\ 1 <= here
    BY <1>3, <1>6
  <2>2. Min(later) \in (here + 1)..Len(order)
    BY <1>7, <1>9
  <2>3. QED
    BY <1>3, <2>1, <2>2
<1>11. t.model = route.model /\ t.effort = order[Min(later)]
  OBVIOUS
<1> HIDE DEF t
<1>12. Later(route, t)
  BY <1>6, <1>10, <1>11 DEF Later, order
<1>13. QED
  BY <1>1, <1>11, <1>12

LEMMA LowerTier ==
    ASSUME BundleAssumption, RouteOK(route), HealthyFallback(route) # <<>>
    PROVE  \E t : HealthyFallback(route) = <<t>> /\ Rank(t.model) <= Rank(route.model)
<1> DEFINE other == {m \in Enabled \ {route.model} :
                        /\ MinimumPermittedRank(route) <= Rank(m) /\ Rank(m) <= Rank(route.model)
                        /\ Known(env, m) /\ env.models[m].usable
                        /\ env.models[m].state \notin ExcludedStates}
           best  == CHOOSE m \in other : \A n \in other : Rank(m) >= Rank(n)
           t     == [model |-> best,
                     effort |-> IF Supports(best, route.effort) THEN route.effort
                                                                ELSE PreferredEffort(best),
                     source |-> "fallback"]
<1>1. other # {} /\ HealthyFallback(route) = <<t>>
  BY DEF HealthyFallback, Target
<1>2. other \subseteq Aliases
  BY DEF Enabled
<1>3. \E m \in other : \A n \in other : Rank(m) >= Rank(n)
  BY <1>1, <1>2, RankExtremes
<1>4. best \in other
  BY <1>3
<1>5. Rank(best) <= Rank(route.model)
  BY <1>4
<1>6. t.model = best
  OBVIOUS
<1> HIDE DEF best, t
<1>7. QED
  BY <1>1, <1>5, <1>6

\* What recovery proposes lies in the direction its failure permits.
LEMMA ProposalDirected ==
    ASSUME BundleAssumption, RouteOK(route), ChooseRecovery(route).action \in Retries
    PROVE  \E t : ChooseRecovery(route).target = <<t>> /\ Directed(t)
<1> DEFINE a == ChooseRecovery(route)
<1>1. ASSUME NEW action \in {"stop_attempts", "stop", "stop_budget", "stop_deadline", "diagnose",
                             "recoverable_failure"}
      PROVE  Stop(action).action \notin Retries
  BY DEF Stop, Retries
<1>2. ASSUME NEW action, NEW target PROVE Propose(action, target).target = target
  BY DEF Propose
<1>3. \/ failure.type = "QUALITY_FAILURE" /\ a = QualityRecovery(route)
      \/ failure.type # "QUALITY_FAILURE" /\ a = InfrastructureRecovery(route)
  BY <1>1 DEF ChooseRecovery
<1> HIDE DEF a
<1>4. a.action \in Retries
  BY DEF a
<1>5. CASE failure.type = "QUALITY_FAILURE" /\ a = QualityRecovery(route)
  <2>1. \/ NextPriorEffort(route) # <<>> /\ a.target = NextPriorEffort(route)
        \/ NextTierTarget(route) # <<>> /\ a.target = NextTierTarget(route)
    BY <1>1, <1>2, <1>4, <1>5 DEF QualityRecovery
  <2>2. QED
    BY <1>5, <2>1, LaterEffort, HigherTier DEF Directed, a
<1>6. CASE failure.type # "QUALITY_FAILURE" /\ a = InfrastructureRecovery(route)
  <2>1. \/ HealthyFallback(route) # <<>> /\ a.target = HealthyFallback(route)
        \/ a.target = Target(route)
    BY <1>1, <1>2, <1>4, <1>6 DEF InfrastructureRecovery
  <2>2. CASE HealthyFallback(route) # <<>> /\ a.target = HealthyFallback(route)
    BY <1>6, <2>2, LowerTier DEF Directed, a
  <2>3. CASE a.target = Target(route)
    <3> DEFINE t == [model |-> route.model, effort |-> route.effort, source |-> "fallback"]
    <3>1. a.target = <<t>> /\ t.model = route.model
      BY <2>3 DEF Target
    <3>2. Rank(route.model) \in Nat
      BY DEF BundleAssumption, CatalogValid, RouteOK
    <3> HIDE DEF t
    <3>3. Directed(t)
      BY <1>6, <3>1, <3>2 DEF Directed
    <3>4. QED
      BY <3>1, <3>3 DEF a
  <2>4. QED
    BY <2>1, <2>2, <2>3
<1>7. QED
  BY <1>3, <1>5, <1>6

LEMMA RoutedStarts ==
    ASSUME TaskAssumption, RoutedInit PROVE RoutedInv
  BY DEF RoutedInit, RoutedInv, Steady, TaskAssumption

LEMMA ObserveKeeps ==
    ASSUME RoutedInv, NEW m \in Aliases, NEW view \in HealthViews, Observe(m, view)
    PROVE  RoutedInv'
<1>1. \E ms : env' = [env EXCEPT !.models = ms]
  BY Zenon DEF Observe
<1>2. Steady'
  BY <1>1 DEF RoutedInv, Steady
<1>3. UNCHANGED <<task, funds, failure, route, proposal, pc>>
  BY DEF Observe
<1>4. QED
  BY <1>2, <1>3 DEF RoutedInv, Directed

\* A route that is taken is one that the router granted.
LEMMA TakenIsOK ==
    ASSUME BundleAssumption, TaskAssumption, RoutedInv, NEW amount, NEW wanted,
           NEW r, r = Route(task.req, task.cls, Now(amount), wanted), r.kind = "decision"
    PROVE  Granted(task.req, task.cls, Now(amount), wanted, r) /\ RouteOK(r)
<1> DEFINE e == Now(amount)
<1>1. Steady
  BY DEF RoutedInv
<1>2. Funded(e) /\ RequestValid(task.req)
  BY <1>1, EnvironmentKept DEF RoutedInv, TaskAssumption
<1> HIDE DEF e
<1>3. r = Route(task.req, task.cls, e, wanted)
  BY DEF e
<1>4. Granted(task.req, task.cls, e, wanted, r)
  BY <1>2, <1>3, DecisionGranted
<1>5. RouteOK(r)
  BY <1>2, <1>4, GrantedIsOK
<1>6. QED
  BY <1>4, <1>5 DEF e

\* The router answers with a decision, a rejection or an error.
LEMMA RouteKinds ==
    ASSUME NEW req, NEW cls, NEW e, NEW wanted
    PROVE  Route(req, cls, e, wanted).kind \in {"decision", "rejection", "error"}
<1>1. /\ \A what : Error(what).kind = "error"
      /\ \A f, c, b : Rejection(f, c, b).kind = "rejection"
      /\ \A c, b, q, n, l, f : Decision(c, b, q, n, l, f).kind = "decision"
  BY DEF Error, Rejection, Decision
<1>2. ASSUME NEW removed PROVE Unroutable(removed).kind = "rejection"
  BY <1>1 DEF Unroutable
<1>3. ASSUME NEW constraints PROVE TargetRefused(constraints).kind = "rejection"
  BY <1>1 DEF TargetRefused
<1>4. ASSUME NEW i, NEW val, NEW quotes, NEW limits, NEW plan
      PROVE  Selected(i, req, e, val, quotes, limits, plan).kind = "decision"
  BY <1>1 DEF Selected
<1>5. ASSUME NEW val, NEW quotes, NEW limits, NEW plan, NEW x
      PROVE  Conclude(req, e, wanted, val, quotes, limits, plan, x).kind
                \in {"decision", "rejection", "error"}
  BY <1>1, <1>2, <1>3, <1>4 DEF Conclude
<1>6. ASSUME NEW val, NEW limits, NEW plan
      PROVE  RoutePlan(req, e, wanted, val, limits, plan).kind
                \in {"decision", "rejection", "error"}
  BY <1>1, <1>5 DEF RoutePlan, RouteQuoted
<1>7. ASSUME NEW limits
      PROVE  RouteWithin(req, cls, e, wanted, limits).kind \in {"decision", "rejection", "error"}
  BY <1>1, <1>6 DEF RouteWithin
<1>8. QED
  BY <1>1, <1>7 DEF Route

LEMMA AnswerKeeps ==
    ASSUME BundleAssumption, TaskAssumption, RoutedInv, NEW wanted,
           NEW r, r = Route(task.req, task.cls, Now(funds), wanted),
           pc' = Answered(r), route' = Taken(r), UNCHANGED <<task, env, funds>>
    PROVE  RoutedInv'
<1>1. ASSUME pc' \in {"routed", "admitted", "called", "failed", "trial", "reselect"}
      PROVE  r.kind = "decision" /\ pc' = "routed"
  <2>1. CASE r.kind = "decision"
    BY <2>1 DEF Answered
  <2>2. CASE r.kind # "decision"
    <3>1. r.kind \in {"rejection", "error"}
      BY <2>2, RouteKinds
    <3>2. QED
      BY <1>1, <3>1 DEF Answered
  <2>3. QED
    BY <2>1, <2>2
<1>2. pc' \notin {"trial", "reselect"}
  BY <1>1
<1>3. ASSUME pc' \in {"routed", "admitted", "called", "failed", "trial", "reselect"}
      PROVE  RouteOK(route')
  <2>1. r.kind = "decision"
    BY <1>1, <1>3
  <2>2. RouteOK(r)
    BY <2>1, TakenIsOK
  <2>3. QED
    BY <2>1, <2>2 DEF Taken
<1>4. Steady'
  BY DEF RoutedInv, Steady
<1>5. QED
  BY <1>2, <1>3, <1>4 DEF RoutedInv

LEMMA AdmitKeeps ==
    ASSUME RoutedInv, Admit PROVE RoutedInv'
<1>1. RouteOK(route) /\ funds \in Nat
  BY DEF RoutedInv, Admit
<1>2. route.needed <= funds /\ funds' = funds - route.bound /\ pc' = "admitted"
      /\ UNCHANGED <<task, env, route>>
  BY DEF Admit, Admissible
<1>3. funds' \in Nat
  <2>1. route.bound \in Nat /\ route.needed \in Int /\ route.bound <= route.needed
    BY <1>1 DEF RouteOK
  <2>2. QED
    BY <1>1, <1>2, <2>1
<1>4. Steady'
  BY <1>2 DEF RoutedInv, Steady
<1>5. QED
  BY <1>1, <1>2, <1>3, <1>4 DEF RoutedInv

LEMMA CallKeeps ==
    ASSUME RoutedInv, Withdraw \/ Succeed \/ \E f \in Failures, billed \in BOOLEAN : Fail(f, billed)
    PROVE  RoutedInv'
<1>1. RouteOK(route) /\ funds \in Nat
  BY DEF RoutedInv, Withdraw, Succeed, Fail
<1>2. route.bound \in Nat
  BY <1>1 DEF RouteOK
<1>3. /\ UNCHANGED <<task, env, route>> /\ pc' \in {"failed", "succeeded", "raised"}
      /\ \/ funds' = funds + route.bound
         \/ funds' = funds + route.bound - route.bound
         \/ funds' = funds + route.bound - 0
  BY DEF Withdraw, Succeed, Fail, Settled
<1>4. funds' \in Nat
  BY <1>1, <1>2, <1>3
<1>5. Steady'
  BY <1>3 DEF RoutedInv, Steady
<1>6. QED
  BY <1>1, <1>3, <1>4, <1>5 DEF RoutedInv

LEMMA RecoverKeeps ==
    ASSUME BundleAssumption, RoutedInv, Recover PROVE RoutedInv'
<1>1. RouteOK(route) /\ pc = "failed"
  BY DEF RoutedInv, Recover
<1>2. UNCHANGED <<task, env, funds, route, failure>> /\ proposal' = ChooseRecovery(route)
  BY DEF Recover
<1>3. pc' \in {"stopped", "trial"}
      /\ (pc' = "trial" => ChooseRecovery(route).action \in Retries)
  BY DEF Recover
<1>4. Steady'
  BY <1>2 DEF RoutedInv, Steady
<1>5. ASSUME pc' = "trial" PROVE \E t : proposal'.target = <<t>> /\ Directed(t)'
  <2>1. PICK t : ChooseRecovery(route).target = <<t>> /\ Directed(t)
    BY <1>1, <1>3, <1>5, ProposalDirected
  <2>2. Directed(t)'
    BY <1>2, <2>1 DEF Directed
  <2>3. QED
    BY <1>2, <2>1, <2>2
<1>6. QED
  BY <1>1, <1>2, <1>3, <1>4, <1>5 DEF RoutedInv

LEMMA TryKeeps ==
    ASSUME RoutedInv, Try PROVE RoutedInv'
<1>1. /\ RouteOK(route) /\ pc = "trial"
      /\ \E t : proposal.target = <<t>> /\ Directed(t)
  BY DEF RoutedInv, Try
<1>2. UNCHANGED <<task, env, funds, route, failure, proposal>>
  BY DEF Try
<1>3. pc' \in {"stopped", "raised", "reselect"}
  BY DEF Try
<1>4. Steady'
  BY <1>2 DEF RoutedInv, Steady
<1>5. \E t : proposal'.target = <<t>> /\ Directed(t)'
  BY <1>1, <1>2 DEF Directed
<1>6. QED
  BY <1>1, <1>2, <1>3, <1>4, <1>5 DEF RoutedInv

LEMMA RoutedKeeps ==
    ASSUME BundleAssumption, TaskAssumption, RoutedInv, [RoutedNext]_routedVars
    PROVE  RoutedInv'
<1>1. CASE \E m \in Aliases, view \in HealthViews : Observe(m, view)
  BY <1>1, ObserveKeeps
<1>2. CASE Select
  BY <1>2, AnswerKeeps DEF Select
<1>3. CASE Block
  BY <1>3 DEF Block, RoutedInv, Steady
<1>4. CASE Admit
  BY <1>4, AdmitKeeps
<1>5. CASE Dispatch
  BY <1>5 DEF Dispatch, RoutedInv, Steady
<1>6. CASE Withdraw \/ Succeed \/ \E f \in Failures, billed \in BOOLEAN : Fail(f, billed)
  BY <1>6, CallKeeps
<1>7. CASE Recover
  BY <1>7, RecoverKeeps
<1>8. CASE Try
  BY <1>8, TryKeeps
<1>9. CASE Reselect
  BY <1>9, AnswerKeeps DEF Reselect
<1>10. CASE UNCHANGED routedVars
  BY <1>10 DEF routedVars, RoutedInv, Steady, Directed
<1>11. QED
  BY <1>1, <1>2, <1>3, <1>4, <1>5, <1>6, <1>7, <1>8, <1>9, <1>10 DEF RoutedNext, Finished

\* Only the health of models and the funds change under a task; a route it has taken is
\* on a model and effort of the catalog and reserves no more than the router checked
\* against what remains; a target of recovery lies in the direction its failure permits.
THEOREM RoutedInvHolds == RoutedSpec => []RoutedInv
<1>1. RoutedInit => RoutedInv
  BY TaskAssumption, RoutedStarts
<1>2. RoutedInv /\ [RoutedNext]_routedVars => RoutedInv'
  BY BundleAssumption, TaskAssumption, RoutedKeeps
<1>3. QED
  BY <1>1, <1>2, PTL DEF RoutedSpec

-----------------------------------------------------------------------------
\* No call is made on a model that the constraints, the health or the account exclude.
LEMMA CallIsPermitted ==
    ASSUME BundleAssumption, TaskAssumption, RoutedInv, RoutedNext,
           pc = "admitted", pc' = "called"
    PROVE  /\ Lawful(route.model, funds + route.bound)
           /\ ~NoHealthyPath(env, route.model) /\ Verified(env, route.model)
<1> DEFINE amount == funds + route.bound
           e == Now(amount)
           t == [model |-> route.model, effort |-> route.effort, source |-> "fallback"]
           r == Refreshed
<1>1. Ready(r)
  BY DEF RoutedNext, Observe, Select, Block, Admit, Dispatch, Withdraw, Succeed, Fail, Recover, Try,
         Reselect, Finished, routedVars
<1>2. r = Route(task.req, task.cls, e, <<t>>)
  BY DEF Refreshed, Target
<1>3. amount \in Nat
  BY DEF RoutedInv, RouteOK
<1>4. Funded(e) /\ e.remaining = amount /\ RequestValid(task.req)
  BY EnvironmentKept DEF RoutedInv, TaskAssumption
<1>5. t.model = route.model
  OBVIOUS
<1> HIDE DEF t, r
<1>6. Granted(task.req, task.cls, e, <<t>>, r)
  BY <1>1, <1>2, TakenIsOK DEF Ready
<1>7. r.model = route.model
  BY <1>5, <1>6, TargetGranted
<1>8. r.blockers \subseteq Dischargeable
  BY <1>1 DEF Ready, TaskAssumption
<1> HIDE DEF e, amount
<1> DEFINE limits == ResolveLimits(task.req, e)
           val    == DetermineValidation(task.req, e)
<1>9. /\ CheckCapabilities(task.req, r.model) = {}
      /\ \A f \in HardFloors : Rank(r.model) >= f
      /\ WithinLimits(r.model, limits)
      /\ \A q \in ToSet(Quotes(task.req, r.model, e, val)) :
            /\ limits.cost # None => q.known <= limits.cost
            /\ q.generation <= amount
      /\ ~NoHealthyPath(e, r.model) /\ Verified(e, r.model)
  BY <1>3, <1>4, <1>6, <1>8, GrantedIsLawful DEF HardFloors
<1>10. e.models = env.models
  BY DEF e, Now
<1>11. ~NoHealthyPath(env, route.model) /\ Verified(env, route.model)
  BY <1>7, <1>9, <1>10 DEF NoHealthyPath, Verified, Known
<1>12. Lawful(route.model, amount)
  BY <1>7, <1>9 DEF Lawful, Affordable, e
<1>13. QED
  BY <1>11, <1>12 DEF amount

\* CallPermitted: before every provider call the route is computed again in the
\* environment as it is; whatever happened since, the call goes out only on a model
\* that the hard constraints, the limits, the money, the health and the account allow.
THEOREM CallsPermitted == RoutedSpec => CallPermitted
<1>1. RoutedInv /\ [RoutedNext]_routedVars =>
        [pc = "admitted" /\ pc' = "called" =>
            /\ Lawful(route.model, funds + route.bound)
            /\ ~NoHealthyPath(env, route.model) /\ Verified(env, route.model)]_routedVars
  <2> SUFFICES ASSUME RoutedInv, RoutedNext, pc = "admitted", pc' = "called"
               PROVE  /\ Lawful(route.model, funds + route.bound)
                      /\ ~NoHealthyPath(env, route.model) /\ Verified(env, route.model)
    OBVIOUS
  <2>1. QED
    BY BundleAssumption, TaskAssumption, CallIsPermitted
<1>2. QED
  BY <1>1, RoutedInvHolds, PTL DEF RoutedSpec, CallPermitted

LEMMA ReselectedDirection ==
    ASSUME BundleAssumption, TaskAssumption, RoutedInv, RoutedNext,
           pc = "reselect", pc' = "routed"
    PROVE  IF failure.type = "QUALITY_FAILURE"
           THEN \/ Rank(route'.model) > Rank(route.model)
                \/ route'.model = route.model /\ Later(route, route')
           ELSE Rank(route'.model) <= Rank(route.model)
<1>1. Reselect
  BY DEF RoutedNext, Observe, Select, Block, Admit, Dispatch, Withdraw, Succeed, Fail, Recover, Try,
         Reselect, Finished, routedVars
<1>2. PICK t : proposal.target = <<t>> /\ Directed(t)
  BY DEF RoutedInv
<1> DEFINE r == Route(task.req, task.cls, Now(funds), proposal.target)
<1>3. pc' = Answered(r) /\ route' = Taken(r)
  BY <1>1 DEF Reselect
<1>4. r.kind \in {"decision", "rejection", "error"}
  BY RouteKinds
<1> HIDE DEF r
<1>5. r.kind = "decision" /\ route' = r
  BY <1>3, <1>4 DEF Answered, Taken
<1>6. Granted(task.req, task.cls, Now(funds), <<t>>, r)
  BY <1>2, <1>5, TakenIsOK DEF r
<1>7. route'.model = t.model /\ route'.effort = t.effort
  BY <1>5, <1>6, TargetGranted
<1>8. QED
  BY <1>2, <1>7 DEF Directed, Later

\* RecoveryDirection: choose_recovery proposes only a later effort or a higher tier after
\* a quality failure and never a higher tier after an infrastructure failure, and the
\* router, asked for that target in a newer environment, grants it or nothing.
THEOREM RecoveryMovesOneWay == RoutedSpec => RecoveryDirection
<1>1. RoutedInv /\ [RoutedNext]_routedVars =>
        [pc = "reselect" /\ pc' = "routed" =>
            IF failure.type = "QUALITY_FAILURE"
            THEN \/ Rank(route'.model) > Rank(route.model)
                 \/ route'.model = route.model /\ Later(route, route')
            ELSE Rank(route'.model) <= Rank(route.model)]_routedVars
  <2> SUFFICES ASSUME RoutedInv, RoutedNext, pc = "reselect", pc' = "routed"
               PROVE  IF failure.type = "QUALITY_FAILURE"
                      THEN \/ Rank(route'.model) > Rank(route.model)
                           \/ route'.model = route.model /\ Later(route, route')
                      ELSE Rank(route'.model) <= Rank(route.model)
    OBVIOUS
  <2>1. QED
    BY BundleAssumption, TaskAssumption, ReselectedDirection
<1>2. QED
  BY <1>1, RoutedInvHolds, PTL DEF RoutedSpec, RecoveryDirection
=============================================================================
