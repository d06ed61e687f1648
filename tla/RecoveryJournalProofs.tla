------------------------ MODULE RecoveryJournalProofs ------------------------
(***************************************************************************)
(* Proofs about the recovery journal, for any number of tasks, revisions   *)
(* and faults of every kind.                                               *)
(*                                                                         *)
(* RowFollowsOwner needs that no line, in the file or in the hands of a    *)
(* reconciliation, is ahead of its execution (Follows).                    *)
(* NothingLostSilently needs what a pass is entitled to drop: it reads the *)
(* whole file, nothing is appended under its guard, and a line it has gone *)
(* past is kept or stored (PassSafe).                                      *)
(***************************************************************************)
EXTENDS RecoveryJournal, TLAPS

Entries == Line \cup {Garbage}

Owners == [phase : Phases, revision : 0..MaxRevision, deferred : BOOLEAN, appending : BOOLEAN]

Passes == [active : BOOLEAN, lines : Seq(Entries), next : Nat, kept : Seq(Entries)]

\* An execution that is appending has numbered a revision.
Types ==
    /\ row \in [Tasks -> 0..MaxRevision]
    /\ owner \in [Tasks -> Owners]
    /\ \A t \in Tasks : owner[t].appending => owner[t].revision >= 1
    /\ journal \in Seq(Entries)
    /\ tornTail \in BOOLEAN
    /\ pass \in Passes
    /\ pass.next \in 1..(Len(pass.lines) + 1)
    /\ retained \subseteq Tasks \X (1..MaxRevision)
    /\ faults \in 0..MaxFaults

\* No line is ahead of the execution that wrote it.
Follows(lines) ==
    \A i \in DOMAIN lines : lines[i] # Garbage => lines[i].revision <= owner[lines[i].task].revision

\* What is true of a line that left the journal.
Stored(line) == line # Garbage /\ row[line.task] >= line.revision

PassSafe ==
    pass.active =>
        /\ pass.lines = journal
        /\ \A i \in DOMAIN pass.lines : i < pass.next =>
              \/ Stored(pass.lines[i])
              \/ \E j \in DOMAIN pass.kept : pass.kept[j] = pass.lines[i]

Inv == /\ Types /\ RowFollowsOwner /\ Follows(journal) /\ Follows(pass.lines) /\ Follows(pass.kept)
       /\ PassSafe /\ NothingLostSilently
-----------------------------------------------------------------------------
(* Sequences of lines.                                                     *)

LEMMA EntryTypes ==
    /\ Garbage \in Entries /\ Garbage \notin Line
    /\ \A e \in Entries : e # Garbage =>
          e \in Line /\ e.task \in Tasks /\ e.revision \in 1..MaxRevision
  BY DEF Entries, Line, Garbage

LEMMA AppendFacts ==
    ASSUME NEW s \in Seq(Entries), NEW e \in Entries
    PROVE  /\ Append(s, e) \in Seq(Entries)
           /\ DOMAIN Append(s, e) = 1..(Len(s) + 1) /\ Len(Append(s, e)) = Len(s) + 1
           /\ \A i \in DOMAIN s : i \in DOMAIN Append(s, e) /\ Append(s, e)[i] = s[i]
           /\ Len(s) + 1 \in DOMAIN Append(s, e) /\ Append(s, e)[Len(s) + 1] = e
           /\ \A i \in DOMAIN Append(s, e) : i \in DOMAIN s \/ Append(s, e)[i] = e
  OBVIOUS

\* s is the journal with entry e appended: an append never takes an entry
\* away, except by leaving garbage.
Extends(s, e) ==
    /\ s \in Seq(Entries)
    /\ \A i \in DOMAIN s : s[i] \in {e, Garbage} \/ \E j \in DOMAIN journal : s[i] = journal[j]
    /\ \A i \in DOMAIN journal : \E j \in DOMAIN s : s[j] \in {journal[i], Garbage}
    /\ \E j \in DOMAIN s : s[j] \in {e, Garbage}

LEMMA AppendedExtends ==
    ASSUME Types, NEW e \in Entries, NEW s, s = Appended(e) PROVE Extends(s, e)
<1>1. CASE ~tornTail
  <2>1. s = Append(journal, e) /\ journal \in Seq(Entries)
    BY <1>1 DEF Appended, Types
  <2>2. QED
    BY <2>1, AppendFacts DEF Extends
<1>2. CASE tornTail
  <2> DEFINE f == SubSeq(journal, 1, Len(journal) - 1)
  <2>1. journal \in Seq(Entries) /\ Garbage \in Entries
    BY EntryTypes DEF Types
  <2>2. f \in Seq(Entries) /\ \A i \in DOMAIN f : i \in DOMAIN journal /\ f[i] = journal[i]
    BY <2>1
  <2>3. s = f \o <<Garbage>>
    BY <1>2 DEF Appended, Front
  <2> HIDE DEF f
  <2>4. s = Append(f, Garbage)
    BY <2>1, <2>2, <2>3
  <2>5. QED
    BY <2>1, <2>2, <2>4, AppendFacts DEF Extends
<1>3. QED
  BY <1>1, <1>2 DEF Types
-----------------------------------------------------------------------------
(* Steps that leave the journal, the pass and the retained revisions alone. *)

LEMMA LinesStay ==
    ASSUME Inv, Types', UNCHANGED <<journal, pass, retained>>,
           \A t \in Tasks : row'[t] >= row[t] /\ owner'[t].revision >= owner[t].revision
    PROVE  /\ Follows(journal)' /\ Follows(pass.lines)' /\ Follows(pass.kept)'
           /\ PassSafe' /\ NothingLostSilently'
<1>1. /\ journal \in Seq(Entries) /\ pass.lines \in Seq(Entries) /\ pass.kept \in Seq(Entries)
      /\ retained \subseteq Tasks \X (1..MaxRevision)
      /\ row \in [Tasks -> 0..MaxRevision] /\ row' \in [Tasks -> 0..MaxRevision]
      /\ owner \in [Tasks -> Owners] /\ owner' \in [Tasks -> Owners]
  BY DEF Inv, Types, Passes
<1>2. ASSUME NEW s \in Seq(Entries), Follows(s)
      PROVE  \A i \in DOMAIN s :
                s[i] # Garbage => s[i].revision <= owner'[s[i].task].revision
  <2> SUFFICES ASSUME NEW i \in DOMAIN s, s[i] # Garbage
               PROVE  s[i].revision <= owner'[s[i].task].revision
    OBVIOUS
  <2>1. s[i] \in Entries
    BY <1>2
  <2>2. s[i].task \in Tasks /\ s[i].revision \in Nat /\ s[i].revision <= owner[s[i].task].revision
    BY <1>2, <2>1, EntryTypes DEF Follows
  <2>3. owner[s[i].task].revision \in Nat /\ owner'[s[i].task].revision \in Nat
    BY <1>1, <2>2 DEF Owners
  <2>4. QED
    BY <2>2, <2>3
<1>3. Follows(journal)' /\ Follows(pass.lines)' /\ Follows(pass.kept)'
  BY <1>1, <1>2 DEF Inv, Follows
<1>4. ASSUME NEW e \in Entries, Stored(e) PROVE Stored(e)'
  <2>1. e # Garbage /\ e.task \in Tasks /\ e.revision \in Nat /\ row[e.task] >= e.revision
    BY <1>4, EntryTypes DEF Stored
  <2>2. row[e.task] \in Nat /\ row'[e.task] \in Nat /\ row'[e.task] >= row[e.task]
    BY <1>1, <2>1
  <2>3. row'[e.task] >= e.revision
    BY <2>1, <2>2
  <2>4. QED
    BY <2>1, <2>3 DEF Stored
<1>5. PassSafe'
  BY <1>1, <1>4 DEF Inv, PassSafe
<1>6. NothingLostSilently'
  <2> SUFFICES ASSUME NEW r \in retained
               PROVE  \/ row'[r[1]] >= r[2]
                      \/ \E i \in DOMAIN journal :
                            journal[i] \in {[task |-> r[1], revision |-> r[2]], Garbage}
    BY DEF NothingLostSilently
  <2>1. r[1] \in Tasks /\ r[2] \in Nat
    BY <1>1
  <2>2. row[r[1]] \in Nat /\ row'[r[1]] \in Nat /\ row'[r[1]] >= row[r[1]]
    BY <1>1, <2>1
  <2>3. QED
    BY <2>1, <2>2 DEF Inv, NothingLostSilently
<1>7. QED
  BY <1>3, <1>5, <1>6

\* The execution of task t becomes o; its row may only catch up with it.
LEMMA OwnerMoves ==
    ASSUME Inv, NEW t \in Tasks, NEW o \in Owners, NEW n \in 0..MaxRevision,
           owner' = [owner EXCEPT ![t] = o], row' = [row EXCEPT ![t] = n],
           o.revision >= owner[t].revision, n >= row[t], n <= o.revision,
           o.appending => o.revision >= 1,
           (o.phase \in {"production", "shadow", "final"} /\ ~o.appending /\ ~o.deferred)
              => n = o.revision
    PROVE  /\ owner' \in [Tasks -> Owners] /\ row' \in [Tasks -> 0..MaxRevision]
           /\ \A s \in Tasks : owner'[s].appending => owner'[s].revision >= 1
           /\ RowFollowsOwner'
           /\ \A s \in Tasks : row'[s] >= row[s] /\ owner'[s].revision >= owner[s].revision
<1>1. row \in [Tasks -> 0..MaxRevision] /\ owner \in [Tasks -> Owners]
        /\ \A s \in Tasks : owner[s].appending => owner[s].revision >= 1
  BY DEF Inv, Types
<1>2. \A s \in Tasks : row[s] \in Nat /\ owner[s].revision \in Nat
  BY <1>1 DEF Owners
<1>3. /\ owner'[t] = o /\ row'[t] = n
      /\ \A s \in Tasks : s # t => owner'[s] = owner[s] /\ row'[s] = row[s]
  BY <1>1
<1>4. RowFollowsOwner'
  BY <1>3 DEF Inv, RowFollowsOwner, Running
<1>5. \A s \in Tasks : row'[s] >= row[s] /\ owner'[s].revision >= owner[s].revision
  BY <1>2, <1>3
<1>6. \A s \in Tasks : owner'[s].appending => owner'[s].revision >= 1
  BY <1>1, <1>3
<1>7. QED
  BY <1>1, <1>4, <1>5, <1>6

LEMMA OwnerStepKeeps ==
    ASSUME Inv, NEW t \in Tasks, NEW o \in Owners, NEW n \in 0..MaxRevision,
           owner' = [owner EXCEPT ![t] = o], row' = [row EXCEPT ![t] = n],
           o.revision >= owner[t].revision, n >= row[t], n <= o.revision,
           o.appending => o.revision >= 1,
           (o.phase \in {"production", "shadow", "final"} /\ ~o.appending /\ ~o.deferred)
              => n = o.revision,
           UNCHANGED <<journal, tornTail, pass, retained>>, faults' \in 0..MaxFaults
    PROVE  Inv'
<1>1. Types'
  BY OwnerMoves DEF Inv, Types
<1>2. \A s \in Tasks : row'[s] >= row[s] /\ owner'[s].revision >= owner[s].revision
  BY OwnerMoves
<1>3. RowFollowsOwner'
  BY OwnerMoves
<1>4. QED
  BY <1>1, <1>2, <1>3, LinesStay DEF Inv

\* What the execution and the row of a task are.
LEMMA TaskTypes ==
    ASSUME Inv, NEW t \in Tasks
    PROVE  /\ owner[t] \in Owners /\ owner[t].revision \in 0..MaxRevision /\ row[t] \in 0..MaxRevision
           /\ row[t] <= owner[t].revision
           /\ row = [row EXCEPT ![t] = row[t]]
           /\ faults \in 0..MaxFaults
  BY DEF Inv, Types, Owners, RowFollowsOwner

LEMMA InjectType == ASSUME Inv, NEW kind, Inject(kind) PROVE faults' \in 0..MaxFaults
  BY JournalAssumption DEF Inv, Types, Inject

LEMMA AdvanceKeeps ==
    ASSUME Inv, NEW t \in Tasks, NEW phase \in {"shadow", "final"}, Advance(t, phase) PROVE Inv'
<1> DEFINE o == [owner[t] EXCEPT !.phase = phase]
<1>1. owner' = [owner EXCEPT ![t] = o] /\ UNCHANGED <<row, journal, tornTail, pass, retained, faults>>
        /\ ~owner[t].appending /\ owner[t].phase \in {"production", "shadow"}
  BY DEF Advance
<1>2. /\ o \in Owners /\ o.revision = owner[t].revision /\ o.appending = owner[t].appending
      /\ o.deferred = owner[t].deferred /\ o.phase = phase
  BY TaskTypes DEF Owners, Phases
<1>3. (~owner[t].appending /\ ~owner[t].deferred) => row[t] = owner[t].revision
  BY <1>1 DEF Inv, RowFollowsOwner, Running
<1> HIDE DEF o
<1>4. PICK n \in 0..MaxRevision : n = row[t]
  BY TaskTypes
<1>5. /\ row' = [row EXCEPT ![t] = n] /\ n >= row[t] /\ n <= o.revision
      /\ o.revision >= owner[t].revision /\ faults' \in 0..MaxFaults
  BY <1>1, <1>2, <1>4, TaskTypes
<1>6. QED
  BY <1>1, <1>2, <1>3, <1>4, <1>5, OwnerStepKeeps

\* A save numbers a revision within the bound.
LEMMA SavingBound ==
    ASSUME Inv, NEW t \in Tasks, Saving(t)
    PROVE  owner[t].revision + 1 \in 1..MaxRevision
  BY TaskTypes, JournalAssumption DEF Saving

LEMMA SaveCommitsKeeps == ASSUME Inv, NEW t \in Tasks, SaveCommits(t) PROVE Inv'
<1> DEFINE n == owner[t].revision + 1
           phase == AfterSaved(owner[t])
           o == [owner[t] EXCEPT !.revision = n, !.phase = phase]
<1>1. n \in 0..MaxRevision /\ n >= owner[t].revision /\ phase \in Phases
        /\ owner[t].revision = row[t]
  BY SavingBound, TaskTypes DEF SaveCommits, AfterSaved, Phases, Owners
<1>2. owner' = [owner EXCEPT ![t] = o] /\ row' = [row EXCEPT ![t] = n]
        /\ UNCHANGED <<journal, tornTail, pass, retained, faults>> /\ ~owner[t].appending
  BY <1>1 DEF SaveCommits, Saving
<1> HIDE DEF n, phase
<1>3. /\ o \in Owners /\ o.revision = n /\ o.appending = owner[t].appending
  BY <1>1, TaskTypes DEF Owners
<1> HIDE DEF o
<1>4. n <= n /\ n >= row[t]
  BY <1>1
<1>5. QED
  BY <1>1, <1>2, <1>3, <1>4, TaskTypes, OwnerStepKeeps

LEMMA SaveJournaledKeeps ==
    ASSUME Inv, NEW t \in Tasks, SaveUnavailable(t) \/ SaveDeferred(t) PROVE Inv'
<1> DEFINE n == owner[t].revision + 1
           o == [owner[t] EXCEPT !.revision = n, !.appending = TRUE]
<1>1. n \in 0..MaxRevision /\ n \in 1..MaxRevision /\ n >= owner[t].revision /\ n >= row[t]
        /\ row[t] <= n /\ n <= n
  BY SavingBound, TaskTypes DEF SaveUnavailable, SaveDeferred
<1>2. owner' = [owner EXCEPT ![t] = o] /\ UNCHANGED <<journal, tornTail, pass, retained>>
  BY DEF SaveUnavailable, SaveDeferred
<1>3. faults' \in 0..MaxFaults /\ (row' = row \/ row' = [row EXCEPT ![t] = n])
  BY InjectType, TaskTypes DEF SaveUnavailable, SaveDeferred
<1> HIDE DEF n
<1>4. o \in Owners /\ o.revision = n /\ o.appending
  BY <1>1, TaskTypes DEF Owners
<1> HIDE DEF o
<1>5. PICK m \in 0..MaxRevision : row' = [row EXCEPT ![t] = m] /\ m >= row[t] /\ m <= n
  BY <1>1, <1>3, TaskTypes
<1>6. /\ o.revision >= owner[t].revision /\ o.revision >= 1 /\ m <= o.revision
      /\ ~(o.phase \in {"production", "shadow", "final"} /\ ~o.appending /\ ~o.deferred)
  BY <1>1, <1>4, <1>5
<1>7. QED
  BY <1>2, <1>3, <1>4, <1>5, <1>6, OwnerStepKeeps
-----------------------------------------------------------------------------
(* Appending to the journal, outside any pass.                             *)

\* Lines written by retain_pending follow their execution.
LEMMA AppendKeeps ==
    ASSUME Inv, ~pass.active, NEW e \in Entries, journal' = Appended(e),
           e # Garbage => e.revision <= owner'[e.task].revision,
           owner' \in [Tasks -> Owners],
           \A s \in Tasks : owner'[s].revision = owner[s].revision,
           UNCHANGED <<row, pass>>,
           retained' \subseteq retained \cup {<<e.task, e.revision>>}
    PROVE  /\ journal' \in Seq(Entries)
           /\ Follows(journal)' /\ Follows(pass.lines)' /\ Follows(pass.kept)'
           /\ PassSafe' /\ NothingLostSilently'
<1>1. /\ Types /\ journal \in Seq(Entries) /\ pass.lines \in Seq(Entries)
      /\ pass.kept \in Seq(Entries)
  BY DEF Inv, Types, Passes
<1>2. /\ journal' \in Seq(Entries)
      /\ \A i \in DOMAIN journal' :
            journal'[i] \in {e, Garbage} \/ \E j \in DOMAIN journal : journal'[i] = journal[j]
      /\ \A i \in DOMAIN journal : \E j \in DOMAIN journal' : journal'[j] \in {journal[i], Garbage}
      /\ \E j \in DOMAIN journal' : journal'[j] \in {e, Garbage}
  <2>1. Extends(journal', e)
    BY <1>1, AppendedExtends
  <2>2. QED
    BY <2>1 DEF Extends
<1>3. ASSUME NEW s \in Seq(Entries), Follows(s), NEW i \in DOMAIN s, s[i] # Garbage
      PROVE  s[i].revision <= owner'[s[i].task].revision
  <2>1. s[i] \in Entries
    BY <1>3
  <2>2. s[i].task \in Tasks
    BY <1>3, <2>1, EntryTypes
  <2>3. QED
    BY <1>3, <2>2 DEF Follows
<1>4. Follows(pass.lines)' /\ Follows(pass.kept)'
  BY <1>1, <1>3 DEF Inv, Follows
<1>5. Follows(journal)'
  <2>1. ASSUME NEW i \in DOMAIN journal', journal'[i] # Garbage
        PROVE  journal'[i].revision <= owner'[journal'[i].task].revision
    <3>1. CASE journal'[i] = e
      BY <2>1, <3>1
    <3>2. CASE \E j \in DOMAIN journal : journal'[i] = journal[j]
      BY <1>1, <1>3, <2>1, <3>2 DEF Inv
    <3>3. QED
      BY <1>2, <2>1, <3>1, <3>2
  <2>2. QED
    BY <2>1 DEF Follows
<1>6. PassSafe'
  BY DEF PassSafe
<1>7. NothingLostSilently'
  <2> SUFFICES ASSUME NEW r \in retained'
               PROVE  \/ row[r[1]] >= r[2]
                      \/ \E i \in DOMAIN journal' :
                            journal'[i] \in {[task |-> r[1], revision |-> r[2]], Garbage}
    BY DEF NothingLostSilently
  <2>1. CASE r \in retained
    <3>1. \/ row[r[1]] >= r[2]
          \/ \E i \in DOMAIN journal : journal[i] \in {[task |-> r[1], revision |-> r[2]], Garbage}
      BY <2>1 DEF Inv, NothingLostSilently
    <3>2. QED
      BY <1>2, <3>1
  <2>2. CASE r = <<e.task, e.revision>>
    <3>1. CASE e = Garbage
      BY <1>2, <3>1
    <3>2. CASE e # Garbage
      <4>1. e = [task |-> r[1], revision |-> r[2]]
        BY <2>2, <3>2, EntryTypes DEF Line
      <4>2. QED
        BY <1>2, <4>1
    <3>3. QED
      BY <3>1, <3>2
  <2>3. QED
    BY <2>1, <2>2
<1>8. QED
  BY <1>2, <1>4, <1>5, <1>6, <1>7

\* Only a task whose saves are deferred goes on after its append.
LEMMA OwnerAfterAppend ==
    ASSUME Inv, NEW t \in Tasks, NEW o, o = AfterRetained(owner[t]) \/ o = AfterRefused(owner[t])
    PROVE  /\ o \in Owners /\ o.revision = owner[t].revision /\ ~o.appending
           /\ o.phase \in {"production", "shadow", "final"} => o.deferred
<1>1. owner[t] \in Owners
  BY TaskTypes
<1>2. CASE o = AfterRetained(owner[t])
  <2> DEFINE deferred == (owner[t].phase = "shadow") \/ owner[t].deferred
             phase == IF owner[t].deferred \/ owner[t].phase = "shadow"
                      THEN AfterSaved(owner[t]) ELSE "raised"
  <2>1. o = [owner[t] EXCEPT !.appending = FALSE, !.deferred = deferred, !.phase = phase]
    BY <1>2 DEF AfterRetained
  <2>2. deferred \in BOOLEAN /\ phase \in Phases
          /\ (phase \in {"production", "shadow", "final"} => deferred)
    BY <1>1 DEF Owners, Phases, AfterSaved
  <2> HIDE DEF deferred, phase
  <2>3. QED
    BY <1>1, <2>1, <2>2 DEF Owners
<1>3. CASE o = AfterRefused(owner[t])
  <2> DEFINE phase == IF owner[t].deferred /\ owner[t].phase = "shadow" THEN "shadow" ELSE "raised"
  <2>1. o = [owner[t] EXCEPT !.appending = FALSE, !.phase = phase]
    BY <1>3 DEF AfterRefused
  <2>2. phase \in Phases /\ (phase \in {"production", "shadow", "final"} => owner[t].deferred)
    BY DEF Phases
  <2> HIDE DEF phase
  <2>3. QED
    BY <1>1, <2>1, <2>2 DEF Owners
<1>4. QED
  BY <1>2, <1>3

\* Both ends of an append: written, or refused with or without a torn line.
LEMMA AppendEnds ==
    ASSUME Inv, NEW t \in Tasks, NEW o, o = AfterRetained(owner[t]) \/ o = AfterRefused(owner[t]),
           owner' = [owner EXCEPT ![t] = o], UNCHANGED row
    PROVE  /\ owner' \in [Tasks -> Owners] /\ row' \in [Tasks -> 0..MaxRevision]
           /\ \A s \in Tasks : owner'[s].appending => owner'[s].revision >= 1
           /\ RowFollowsOwner'
           /\ \A s \in Tasks : owner'[s].revision = owner[s].revision
<1>1. PICK n \in 0..MaxRevision : n = row[t]
  BY TaskTypes
<1>2. /\ o \in Owners /\ o.revision = owner[t].revision /\ ~o.appending
      /\ o.phase \in {"production", "shadow", "final"} => o.deferred
  BY OwnerAfterAppend
<1>3. row' = [row EXCEPT ![t] = n] /\ n >= row[t] /\ n <= o.revision
        /\ o.revision >= owner[t].revision
  BY <1>1, <1>2, TaskTypes
<1>4. /\ owner' \in [Tasks -> Owners] /\ row' \in [Tasks -> 0..MaxRevision]
      /\ \A s \in Tasks : owner'[s].appending => owner'[s].revision >= 1
      /\ RowFollowsOwner'
  BY <1>1, <1>2, <1>3, OwnerMoves
<1>5. \A s \in Tasks : owner'[s].revision = owner[s].revision
  BY <1>2 DEF Inv, Types
<1>6. QED
  BY <1>4, <1>5

LEMMA RetainPendingKeeps == ASSUME Inv, NEW t \in Tasks, RetainPending(t) PROVE Inv'
<1> DEFINE e == [task |-> t, revision |-> owner[t].revision]
           o == AfterRetained(owner[t])
<1>1. /\ ~pass.active /\ journal' = Appended(e) /\ tornTail' = FALSE
      /\ retained' = retained \cup {<<t, owner[t].revision>>}
      /\ owner' = [owner EXCEPT ![t] = o] /\ UNCHANGED <<row, pass, faults>>
  BY DEF RetainPending
<1>2. owner[t].revision \in 1..MaxRevision
  BY TaskTypes DEF RetainPending, Inv, Types
<1>3. e \in Entries /\ e.task = t /\ e.revision = owner[t].revision
  BY <1>2 DEF Entries, Line
<1>4. /\ owner' \in [Tasks -> Owners] /\ row' \in [Tasks -> 0..MaxRevision]
      /\ \A s \in Tasks : owner'[s].appending => owner'[s].revision >= 1
      /\ RowFollowsOwner'
      /\ \A s \in Tasks : owner'[s].revision = owner[s].revision
  BY <1>1, AppendEnds
<1> HIDE DEF e, o
<1>5. /\ journal' \in Seq(Entries)
      /\ Follows(journal)' /\ Follows(pass.lines)' /\ Follows(pass.kept)'
      /\ PassSafe' /\ NothingLostSilently'
  <2>1. e.revision <= owner'[e.task].revision
    BY <1>2, <1>3, <1>4
  <2>2. retained' \subseteq retained \cup {<<e.task, e.revision>>}
    BY <1>1, <1>3
  <2>3. QED
    BY <1>1, <1>3, <1>4, <2>1, <2>2, AppendKeeps
<1>6. retained' \subseteq Tasks \X (1..MaxRevision)
  BY <1>1, <1>2 DEF Inv, Types
<1>7. Types'
  BY <1>1, <1>4, <1>5, <1>6 DEF Inv, Types
<1>8. QED
  BY <1>4, <1>5, <1>7 DEF Inv

LEMMA RetainFailsKeeps == ASSUME Inv, NEW t \in Tasks, RetainFails(t) PROVE Inv'
<1> DEFINE e == [task |-> t, revision |-> owner[t].revision]
           o == AfterRefused(owner[t])
<1>1. /\ ~pass.active /\ owner' = [owner EXCEPT ![t] = o] /\ UNCHANGED <<row, pass, retained>>
      /\ \/ UNCHANGED <<journal, tornTail>>
         \/ journal' = Appended(e) /\ tornTail' = FALSE
         \/ journal' = Appended(Garbage) /\ tornTail' = TRUE
      /\ faults' \in 0..MaxFaults
  BY InjectType DEF RetainFails
<1>2. /\ owner' \in [Tasks -> Owners] /\ row' \in [Tasks -> 0..MaxRevision]
      /\ \A s \in Tasks : owner'[s].appending => owner'[s].revision >= 1
      /\ RowFollowsOwner'
      /\ \A s \in Tasks : owner'[s].revision = owner[s].revision
  BY <1>1, AppendEnds
<1> HIDE DEF e, o
<1>3. CASE UNCHANGED <<journal, tornTail>>
  <2>1. Types'
    BY <1>1, <1>2, <1>3 DEF Inv, Types
  <2>2. \A s \in Tasks : row'[s] >= row[s] /\ owner'[s].revision >= owner[s].revision
    BY <1>1, <1>2, TaskTypes
  <2>3. QED
    BY <1>1, <1>2, <1>3, <2>1, <2>2, LinesStay DEF Inv
<1>4. CASE journal' = Appended(Garbage) /\ tornTail' = TRUE
  <2>1. /\ journal' \in Seq(Entries)
        /\ Follows(journal)' /\ Follows(pass.lines)' /\ Follows(pass.kept)'
        /\ PassSafe' /\ NothingLostSilently'
    BY <1>1, <1>2, <1>4, EntryTypes, AppendKeeps
  <2>2. Types'
    BY <1>1, <1>2, <1>4, <2>1 DEF Inv, Types
  <2>3. QED
    BY <1>2, <2>1, <2>2 DEF Inv
<1>5. CASE journal' = Appended(e) /\ tornTail' = FALSE
  <2>1. owner[t].revision \in 1..MaxRevision
    BY TaskTypes DEF RetainFails, Inv, Types
  <2>2. e \in Entries /\ e.task = t /\ e.revision = owner[t].revision
    BY <2>1 DEF e, Entries, Line
  <2>3. e.revision <= owner'[e.task].revision
    BY <1>2, <2>1, <2>2
  <2>4. retained' \subseteq retained \cup {<<e.task, e.revision>>}
    BY <1>1
  <2>5. /\ journal' \in Seq(Entries)
        /\ Follows(journal)' /\ Follows(pass.lines)' /\ Follows(pass.kept)'
        /\ PassSafe' /\ NothingLostSilently'
    BY <1>1, <1>2, <1>5, <2>2, <2>3, <2>4, AppendKeeps
  <2>6. Types'
    BY <1>1, <1>2, <1>5, <2>5 DEF Inv, Types
  <2>7. QED
    BY <1>2, <2>5, <2>6 DEF Inv
<1>6. QED
  BY <1>1, <1>3, <1>4, <1>5
-----------------------------------------------------------------------------
(* The reconciliation pass.                                                *)

LEMMA NoPassFacts == NoPass \in Passes /\ ~NoPass.active /\ NoPass.lines = <<>> /\ NoPass.kept = <<>>
                       /\ NoPass.next \in 1..(Len(NoPass.lines) + 1)
  BY DEF NoPass, Passes

LEMMA ReadJournalKeeps == ASSUME Inv, ReadJournal PROVE Inv'
<1>1. /\ pass' = [active |-> TRUE, lines |-> journal, next |-> 1, kept |-> <<>>]
      /\ UNCHANGED <<row, owner, journal, tornTail, retained, faults>>
  BY DEF ReadJournal
<1>2. /\ pass'.lines = journal /\ pass'.next = 1 /\ pass'.kept = <<>> /\ pass'.active
      /\ journal \in Seq(Entries)
  BY <1>1 DEF Inv, Types
<1>3. Types'
  <2>1. pass' \in Passes /\ 1 \in 1..(Len(journal) + 1)
    BY <1>1, <1>2 DEF Passes
  <2>2. QED
    BY <1>1, <1>2, <2>1 DEF Inv, Types
<1>4. Follows(journal)' /\ Follows(pass.lines)' /\ Follows(pass.kept)'
  BY <1>1, <1>2 DEF Inv, Follows
<1>5. PassSafe'
  <2>1. \A i \in DOMAIN journal : ~(i < 1)
    BY <1>2
  <2>2. QED
    BY <1>1, <1>2, <2>1 DEF PassSafe
<1>6. RowFollowsOwner' /\ NothingLostSilently'
  BY <1>1 DEF Inv, RowFollowsOwner, NothingLostSilently, Running
<1>7. QED
  BY <1>3, <1>4, <1>5, <1>6 DEF Inv

\* Replaying an entry moves the row of its task forward, and never past its
\* execution: a running execution that is not deferred is already there.
LEMMA ReplayedRow ==
    ASSUME Inv, pass.active, pass.next <= Len(pass.lines), Replays(Entry), UNCHANGED owner,
           row' = [row EXCEPT ![Entry.task] = Entry.revision]
    PROVE  /\ row' \in [Tasks -> 0..MaxRevision] /\ RowFollowsOwner'
           /\ \A t \in Tasks : row'[t] >= row[t]
<1> DEFINE e == Entry
<1>1. /\ row \in [Tasks -> 0..MaxRevision] /\ owner \in [Tasks -> Owners]
      /\ pass.lines \in Seq(Entries) /\ pass.next \in DOMAIN pass.lines
  BY DEF Inv, Types, Passes
<1>2. e \in Entries /\ e # Garbage
  BY <1>1 DEF Entry, Replays
<1>3. e.task \in Tasks /\ e.revision \in 1..MaxRevision
  BY <1>2, EntryTypes
<1>4. e.revision <= owner[e.task].revision
  BY <1>1, <1>2 DEF Inv, Follows, Entry
<1>5. row[e.task] = e.revision \/ row[e.task] = e.revision - 1
  BY DEF Replays
<1>6. row' = [row EXCEPT ![e.task] = e.revision] /\ UNCHANGED owner
  OBVIOUS
<1> HIDE DEF e
<1>7. row'[e.task] = e.revision /\ \A t \in Tasks : t # e.task => row'[t] = row[t]
  BY <1>1, <1>3, <1>6
<1>8. row' \in [Tasks -> 0..MaxRevision]
  <2>1. e.revision \in 0..MaxRevision
    BY <1>3
  <2>2. QED
    BY <1>1, <1>3, <1>6, <2>1
<1>9. \A t \in Tasks : row[t] \in Nat /\ owner[t].revision \in Nat
  BY <1>1 DEF Owners
<1>10. \A t \in Tasks : row'[t] >= row[t]
  BY <1>3, <1>5, <1>7, <1>9
<1>11. ASSUME NEW t \in Tasks
       PROVE  /\ row'[t] <= owner[t].revision
              /\ (Running(t) /\ ~owner[t].appending /\ ~owner[t].deferred)
                    => row'[t] = owner[t].revision
  <2>1. /\ row[t] <= owner[t].revision
        /\ (Running(t) /\ ~owner[t].appending /\ ~owner[t].deferred) => row[t] = owner[t].revision
    BY DEF Inv, RowFollowsOwner
  <2>2. CASE t # e.task
    BY <1>7, <2>1, <2>2
  <2>3. CASE t = e.task
    BY <1>3, <1>4, <1>5, <1>7, <1>9, <2>1, <2>3
  <2>4. QED
    BY <2>2, <2>3
<1>12. RowFollowsOwner'
  BY <1>6, <1>11 DEF RowFollowsOwner, Running
<1>13. QED
  BY <1>8, <1>10, <1>12

\* The pass goes past its next entry, which is stored or kept.
LEMMA PassMoves ==
    ASSUME Inv, pass.active, pass.next <= Len(pass.lines), NEW kept, NEW e, e = Entry,
           UNCHANGED <<owner, journal, tornTail, retained>>, faults' \in 0..MaxFaults,
           row' \in [Tasks -> 0..MaxRevision], RowFollowsOwner',
           \A t \in Tasks : row'[t] >= row[t],
           pass' = [pass EXCEPT !.next = @ + 1, !.kept = kept],
           kept = Append(pass.kept, e) \/ (kept = pass.kept /\ e # Garbage /\ row'[e.task] >= e.revision)
    PROVE  Inv'
<1> DEFINE n == pass.next + 1
<1>1. /\ pass \in Passes /\ pass.lines \in Seq(Entries) /\ pass.kept \in Seq(Entries)
      /\ pass.next \in DOMAIN pass.lines /\ pass.next \in Nat /\ e = pass.lines[pass.next]
      /\ n \in 1..(Len(pass.lines) + 1) /\ n \in Nat
  BY DEF Inv, Types, Passes, Entry
<1>2. e \in Entries
  BY <1>1
<1>3. /\ kept \in Seq(Entries)
      /\ \A i \in DOMAIN pass.kept : i \in DOMAIN kept /\ kept[i] = pass.kept[i]
      /\ \A i \in DOMAIN kept : kept[i] = e \/ i \in DOMAIN pass.kept
      /\ \/ \E i \in DOMAIN kept : kept[i] = e
         \/ e # Garbage /\ row'[e.task] >= e.revision
  <2>1. CASE kept = Append(pass.kept, e)
    <3>1. /\ kept \in Seq(Entries)
          /\ \A i \in DOMAIN pass.kept : i \in DOMAIN kept /\ kept[i] = pass.kept[i]
      BY <1>1, <1>2, <2>1, AppendFacts
    <3>2. \A i \in DOMAIN kept : kept[i] = e \/ i \in DOMAIN pass.kept
      BY <1>1, <1>2, <2>1, AppendFacts
    <3>3. \E i \in DOMAIN kept : kept[i] = e
      BY <1>1, <1>2, <2>1, AppendFacts
    <3>4. QED
      BY <3>1, <3>2, <3>3
  <2>2. CASE kept = pass.kept /\ e # Garbage /\ row'[e.task] >= e.revision
    BY <1>1, <2>2
  <2>3. QED
    BY <2>1, <2>2
<1>4. pass' = [pass EXCEPT !.next = n, !.kept = kept]
  OBVIOUS
<1>5. /\ pass' \in Passes /\ pass'.lines = pass.lines /\ pass'.next = n /\ pass'.kept = kept
      /\ pass'.active
  <2> HIDE DEF n
  <2>1. QED
    BY <1>1, <1>3, <1>4 DEF Passes
<1>6. Types'
  BY <1>1, <1>5 DEF Inv, Types
<1>7. Follows(journal)' /\ Follows(pass.lines)'
  BY <1>5 DEF Inv, Follows
<1>8. Follows(pass.kept)'
  <2>1. e # Garbage => e.revision <= owner[e.task].revision
    BY <1>1 DEF Inv, Follows
  <2>2. \A i \in DOMAIN kept : kept[i] # Garbage => kept[i].revision <= owner[kept[i].task].revision
    BY <1>3, <2>1 DEF Inv, Follows
  <2>3. QED
    BY <1>5, <2>2 DEF Follows
<1>9. ASSUME NEW f \in Entries, Stored(f) PROVE f # Garbage /\ row'[f.task] >= f.revision
  <2>1. f # Garbage /\ f.task \in Tasks /\ f.revision \in Nat /\ row[f.task] >= f.revision
    BY <1>9, EntryTypes DEF Stored
  <2>2. row[f.task] \in Nat /\ row'[f.task] \in Nat /\ row'[f.task] >= row[f.task]
    BY <2>1 DEF Inv, Types
  <2>3. QED
    BY <2>1, <2>2
<1>10. PassSafe'
  <2>1. ASSUME NEW i \in DOMAIN pass.lines, i < n
        PROVE  \/ pass.lines[i] # Garbage /\ row'[pass.lines[i].task] >= pass.lines[i].revision
               \/ \E j \in DOMAIN kept : kept[j] = pass.lines[i]
    <3>1. CASE i = pass.next
      BY <1>1, <1>3, <3>1
    <3>2. CASE i # pass.next
      <4>1. i < pass.next /\ pass.lines[i] \in Entries
        BY <1>1, <2>1, <3>2
      <4>2. \/ Stored(pass.lines[i])
            \/ \E j \in DOMAIN pass.kept : pass.kept[j] = pass.lines[i]
        BY <4>1 DEF Inv, PassSafe
      <4>3. QED
        BY <1>3, <1>9, <4>1, <4>2
    <3>3. QED
      BY <3>1, <3>2
  <2>2. pass'.lines = journal'
    BY <1>5 DEF Inv, PassSafe
  <2>3. QED
    BY <1>5, <2>1, <2>2 DEF PassSafe, Stored
<1>11. NothingLostSilently'
  <2> SUFFICES ASSUME NEW r \in retained
               PROVE  \/ row'[r[1]] >= r[2]
                      \/ \E i \in DOMAIN journal :
                            journal[i] \in {[task |-> r[1], revision |-> r[2]], Garbage}
    BY DEF NothingLostSilently
  <2>1. r[1] \in Tasks /\ r[2] \in Nat
    BY DEF Inv, Types
  <2>2. row[r[1]] \in Nat /\ row'[r[1]] \in Nat /\ row'[r[1]] >= row[r[1]]
    BY <2>1 DEF Inv, Types
  <2>3. QED
    BY <2>1, <2>2 DEF Inv, NothingLostSilently
<1>12. QED
  BY <1>6, <1>7, <1>8, <1>10, <1>11 DEF Inv

\* A row that stays where it is.
LEMMA SameRow ==
    ASSUME Inv, UNCHANGED <<row, owner>>
    PROVE  /\ row' \in [Tasks -> 0..MaxRevision] /\ RowFollowsOwner'
           /\ \A t \in Tasks : row'[t] >= row[t]
<1>1. row \in [Tasks -> 0..MaxRevision] /\ \A t \in Tasks : row[t] >= row[t]
  BY TaskTypes DEF Inv, Types
<1>2. RowFollowsOwner'
  BY DEF Inv, RowFollowsOwner, Running
<1>3. QED
  BY <1>1, <1>2

LEMMA ReplayKeeps == ASSUME Inv, Replay PROVE Inv'
<1>1. /\ pass.active /\ pass.next <= Len(pass.lines) /\ Replays(Entry)
      /\ row' = [row EXCEPT ![Entry.task] = Entry.revision]
      /\ pass' = [pass EXCEPT !.next = @ + 1]
      /\ UNCHANGED <<owner, journal, tornTail, retained, faults>>
  BY DEF Replay
<1>2. PICK e : e = Entry
  OBVIOUS
<1>3. /\ row' \in [Tasks -> 0..MaxRevision] /\ RowFollowsOwner'
      /\ \A t \in Tasks : row'[t] >= row[t]
  BY <1>1, ReplayedRow
<1>4. pass' = [pass EXCEPT !.next = @ + 1, !.kept = pass.kept]
  BY <1>1 DEF Inv, Types, Passes
<1>5. e # Garbage /\ row'[e.task] >= e.revision
  <2>1. pass.next \in DOMAIN pass.lines /\ e \in Entries /\ row \in [Tasks -> 0..MaxRevision]
    BY <1>1, <1>2 DEF Inv, Types, Passes, Entry
  <2>2. e # Garbage
    BY <1>1, <1>2 DEF Replays
  <2>3. e.task \in Tasks /\ e.revision \in Nat
    BY <2>1, <2>2, EntryTypes
  <2>4. row'[e.task] = e.revision
    BY <1>1, <1>2, <2>1, <2>3
  <2>5. QED
    BY <2>2, <2>3, <2>4
<1>6. faults' \in 0..MaxFaults
  BY <1>1 DEF Inv, Types
<1>7. QED
  BY <1>1, <1>2, <1>3, <1>4, <1>5, <1>6, PassMoves

LEMMA KeepKeeps == ASSUME Inv, Keep PROVE Inv'
<1>1. /\ pass.active /\ pass.next <= Len(pass.lines)
      /\ UNCHANGED <<owner, journal, tornTail, retained>>
      /\ pass' = [pass EXCEPT !.next = @ + 1, !.kept = Append(pass.kept, Entry)]
      /\ \/ UNCHANGED row
         \/ Replays(Entry) /\ row' = [row EXCEPT ![Entry.task] = Entry.revision]
  BY DEF Keep
<1>2. faults' \in 0..MaxFaults
  BY InjectType DEF Keep, Inv, Types
<1>3. /\ row' \in [Tasks -> 0..MaxRevision] /\ RowFollowsOwner'
      /\ \A t \in Tasks : row'[t] >= row[t]
  BY <1>1, SameRow, ReplayedRow
<1>4. PICK e : e = Entry
  OBVIOUS
<1>5. QED
  BY <1>1, <1>2, <1>3, <1>4, PassMoves

\* The pass has gone past every line of the file, and kept those not stored.
LEMMA ReplaceJournalKeeps == ASSUME Inv, ReplaceJournal PROVE Inv'
<1>1. /\ pass.active /\ pass.next > Len(pass.lines) /\ journal' = pass.kept /\ tornTail' = FALSE
      /\ pass' = NoPass /\ UNCHANGED <<row, owner, retained, faults>>
  BY DEF ReplaceJournal
<1>2. pass.lines = journal /\ journal \in Seq(Entries) /\ pass.kept \in Seq(Entries)
        /\ pass.next \in Nat
  BY <1>1 DEF Inv, Types, Passes, PassSafe
<1>3. \A i \in DOMAIN journal : i < pass.next
  BY <1>1, <1>2
<1>4. Types'
  BY <1>1, <1>2, NoPassFacts DEF Inv, Types
<1>5. Follows(journal)'
  BY <1>1 DEF Inv, Follows
<1>6. Follows(pass.lines)' /\ Follows(pass.kept)' /\ PassSafe'
  BY <1>1, NoPassFacts DEF Follows, PassSafe
<1>7. RowFollowsOwner'
  BY <1>1 DEF Inv, RowFollowsOwner, Running
<1>8. NothingLostSilently'
  <2> SUFFICES ASSUME NEW r \in retained, ~(row[r[1]] >= r[2])
               PROVE  \E i \in DOMAIN pass.kept :
                         pass.kept[i] \in {[task |-> r[1], revision |-> r[2]], Garbage}
    BY <1>1 DEF NothingLostSilently
  <2>1. PICK i \in DOMAIN journal : journal[i] \in {[task |-> r[1], revision |-> r[2]], Garbage}
    BY DEF Inv, NothingLostSilently
  <2>2. ~Stored(journal[i])
    BY <2>1 DEF Stored
  <2>3. PICK j \in DOMAIN pass.kept : pass.kept[j] = journal[i]
    BY <1>1, <1>2, <1>3, <2>2 DEF Inv, PassSafe
  <2>4. QED
    BY <2>1, <2>3
<1>9. QED
  BY <1>4, <1>5, <1>6, <1>7, <1>8 DEF Inv

LEMMA PassAbortsKeeps == ASSUME Inv, PassAborts PROVE Inv'
<1>1. /\ pass' = NoPass /\ UNCHANGED <<row, owner, journal, tornTail, retained>>
      /\ faults' \in 0..MaxFaults
  BY InjectType DEF PassAborts
<1>2. Types'
  BY <1>1, NoPassFacts DEF Inv, Types
<1>3. Follows(journal)' /\ Follows(pass.lines)' /\ Follows(pass.kept)' /\ PassSafe'
  BY <1>1, NoPassFacts DEF Inv, Follows, PassSafe
<1>4. RowFollowsOwner' /\ NothingLostSilently'
  BY <1>1 DEF Inv, RowFollowsOwner, NothingLostSilently, Running
<1>5. QED
  BY <1>2, <1>3, <1>4 DEF Inv
-----------------------------------------------------------------------------
LEMMA InitInv == Init => Inv
<1> SUFFICES ASSUME Init PROVE Inv
  OBVIOUS
<1>1. Types
  <2>1. 0 \in 0..MaxRevision /\ 0 \in 0..MaxFaults /\ <<>> \in Seq(Entries)
    BY JournalAssumption
  <2>2. row \in [Tasks -> 0..MaxRevision] /\ owner \in [Tasks -> Owners]
          /\ \A t \in Tasks : ~owner[t].appending
    BY <2>1 DEF Init, Owners, Phases
  <2>3. QED
    BY <2>1, <2>2, NoPassFacts DEF Init, Types
<1>2. Follows(journal) /\ Follows(pass.lines) /\ Follows(pass.kept) /\ PassSafe
  BY NoPassFacts DEF Init, Follows, PassSafe
<1>3. RowFollowsOwner /\ NothingLostSilently
  BY DEF Init, RowFollowsOwner, NothingLostSilently
<1>4. QED
  BY <1>1, <1>2, <1>3 DEF Inv

LEMMA NextInv == Inv /\ [Next]_vars => Inv'
<1> SUFFICES ASSUME Inv, [Next]_vars PROVE Inv'
  OBVIOUS
<1>1. ASSUME NEW t \in Tasks, OwnerStep(t) PROVE Inv'
  BY <1>1, AdvanceKeeps, SaveCommitsKeeps, SaveJournaledKeeps, RetainPendingKeeps, RetainFailsKeeps
     DEF OwnerStep
<1>2. CASE Reconcile
  BY <1>2, ReadJournalKeeps, ReplayKeeps, KeepKeeps, ReplaceJournalKeeps DEF Reconcile
<1>3. CASE UNCHANGED vars
  BY <1>3 DEF vars, Inv, Types, RowFollowsOwner, Follows, PassSafe, Stored, NothingLostSilently,
              Running
<1>4. QED
  BY <1>1, <1>2, <1>3, PassAbortsKeeps DEF Next

\* The reconciliation never races a running execution: a row is never ahead of
\* the execution that owns its task, and is exactly where an execution that is
\* not deferred expects it, however passes die and commits are lost.
THEOREM RowsFollow == Spec => []RowFollowsOwner
<1>1. Inv => RowFollowsOwner
  BY DEF Inv
<1>2. QED
  BY <1>1, InitInv, NextInv, PTL DEF Spec

\* No revision whose retain_pending returned is dropped: it is in the row or in
\* the journal, or an append torn inside its line has left garbage that stays.
THEOREM RetainedStays == Spec => []NothingLostSilently
<1>1. Inv => NothingLostSilently
  BY DEF Inv
<1>2. QED
  BY <1>1, InitInv, NextInv, PTL DEF Spec
=============================================================================
