--------------------------- MODULE RecoveryJournal ---------------------------
(***************************************************************************)
(* The recovery journal of SQLTaskRepository: an execution whose save the  *)
(* database refuses appends the revision to a local journal, and           *)
(* reconcile_pending replays the journal into the database later.          *)
(*                                                                         *)
(* One execution owns a task, so a task's revision number stands for its   *)
(* payload and events: two payloads with the same revision are equal.      *)
(* Production evidence that is journaled ends the execution with an error; *)
(* evidence of a shadow experiment that is journaled defers every later    *)
(* save of the task to the journal and lets the execution go on.           *)
(***************************************************************************)
EXTENDS Integers, Sequences, SequencesExt

CONSTANTS Tasks,
          ShadowTasks,  \* tasks that run a shadow experiment before success
          MaxRevision,  \* bound on the revisions an execution saves
          Faults,       \* which faults the environment may inject
          MaxFaults     \* bound on how many it injects

ASSUME JournalAssumption ==
    /\ ShadowTasks \subseteq Tasks
    /\ MaxRevision \in Nat
    /\ MaxFaults \in Nat
    /\ Faults \subseteq {"outage", "lost_ack", "append_error", "torn_append",
                         "reconcile_crash", "replace_error", "replay_lost_ack"}

VARIABLES row,          \* TaskRow.revision, per task
          owner,        \* the execution of each task
          journal,      \* lines of the journal file
          tornTail,     \* the file ends inside a line, with no newline
          pass,         \* the reconciliation in progress, under the journal guard
          retained,     \* <<task, revision>> whose retain_pending returned
          faults        \* faults injected so far

vars == <<row, owner, journal, tornTail, pass, retained, faults>>

\* A line of the journal that does not parse.
Garbage == [task |-> "none", revision |-> 0]

Line == [task : Tasks, revision : 1..MaxRevision]

NoPass == [active |-> FALSE, lines |-> <<>>, next |-> 1, kept |-> <<>>]

Phases == {"production", "shadow", "final", "succeeded", "raised"}

\* Each execution, journal and reconciliation pass is well formed.
TypeOK ==
    /\ row \in [Tasks -> 0..MaxRevision]
    /\ owner \in [Tasks -> [phase : Phases, revision : 0..MaxRevision,
                            deferred : BOOLEAN, appending : BOOLEAN]]
    /\ journal \in Seq(Line \cup {Garbage})
    /\ tornTail \in BOOLEAN
    /\ pass.active \in BOOLEAN
    /\ pass.lines \in Seq(Line \cup {Garbage})
    /\ pass.kept \in Seq(Line \cup {Garbage})
    /\ pass.next \in 1..(Len(pass.lines) + 1)
    /\ retained \subseteq Tasks \X (1..MaxRevision)
    /\ faults \in 0..MaxFaults

Init ==
    /\ row = [t \in Tasks |-> 0]
    /\ owner = [t \in Tasks |-> [phase |-> "production", revision |-> 0,
                                 deferred |-> FALSE, appending |-> FALSE]]
    /\ journal = <<>>
    /\ tornTail = FALSE
    /\ pass = NoPass
    /\ retained = {}
    /\ faults = 0

\* The environment injects a fault of the given kind.
Inject(kind) ==
    /\ kind \in Faults
    /\ faults < MaxFaults
    /\ faults' = faults + 1


Running(t) == owner[t].phase \in {"production", "shadow", "final"}

\* The execution is about to save its next revision; the last one the bound
\* allows is kept for the save of its success.
Saving(t) ==
    /\ Running(t)
    /\ ~owner[t].appending
    /\ owner[t].revision < IF owner[t].phase = "final" THEN MaxRevision
                                                       ELSE MaxRevision - 1
-----------------------------------------------------------------------------
(* The execution of a task: _Execution.save and run_shadow.                *)

\* The production attempt is done: a shadow experiment begins, or the task
\* goes to its final save.
Advance(t, phase) ==
    /\ ~owner[t].appending
    /\ \/ owner[t].phase = "production" /\ phase = "shadow" /\ t \in ShadowTasks
       \/ owner[t].phase = "production" /\ phase = "final" /\ t \notin ShadowTasks
       \/ owner[t].phase = "shadow" /\ phase = "final"
    /\ owner' = [owner EXCEPT ![t].phase = phase]
    /\ UNCHANGED <<row, journal, tornTail, pass, retained, faults>>

AfterSaved(o) == IF o.phase = "final" THEN "succeeded" ELSE o.phase

\* save() numbers the next revision and commits it against the revision it
\* expects in the row.
SaveCommits(t) ==
    /\ Saving(t)
    /\ ~owner[t].deferred
    /\ row[t] = owner[t].revision
    /\ row' = [row EXCEPT ![t] = @ + 1]
    /\ owner' = [owner EXCEPT ![t].revision = @ + 1, ![t].phase = AfterSaved(owner[t])]
    /\ UNCHANGED <<journal, tornTail, pass, retained, faults>>

\* The database fails the save, with or without having committed it, and
\* save() turns to the journal.
SaveUnavailable(t) ==
    /\ Saving(t)
    /\ ~owner[t].deferred
    /\ \/ Inject("outage") /\ UNCHANGED row
       \/ Inject("lost_ack") /\ row' = [row EXCEPT ![t] = owner[t].revision + 1]
    /\ owner' = [owner EXCEPT ![t].revision = @ + 1, ![t].appending = TRUE]
    /\ UNCHANGED <<journal, tornTail, pass, retained>>

\* A deferred save goes to the journal only.
SaveDeferred(t) ==
    /\ Saving(t)
    /\ owner[t].deferred
    /\ owner' = [owner EXCEPT ![t].revision = @ + 1, ![t].appending = TRUE]
    /\ UNCHANGED <<row, journal, tornTail, pass, retained, faults>>

\* A line appended to a file that ends inside a line completes that line.
Appended(line) ==
    IF tornTail THEN Front(journal) \o <<Garbage>> ELSE Append(journal, line)

\* Mutant of AfterRetained: a production save that was journaled goes on.
AfterRetainedContinues(o) ==
    [o EXCEPT !.appending = FALSE,
              !.deferred = (o.phase = "shadow") \/ o.deferred,
              !.phase = AfterSaved(o)]

\* Once its revision is journaled, a task whose saves are deferred goes on, a
\* shadow save defers the task, and any other save raises.
AfterRetained(o) ==
    [o EXCEPT !.appending = FALSE,
              !.deferred = (o.phase = "shadow") \/ o.deferred,
              !.phase = IF o.deferred \/ o.phase = "shadow" THEN AfterSaved(o) ELSE "raised"]

\* retain_pending appends the line, flushes and fsyncs under the guard.
RetainPending(t) ==
    /\ owner[t].appending
    /\ ~pass.active
    /\ journal' = Appended([task |-> t, revision |-> owner[t].revision])
    /\ tornTail' = FALSE
    /\ retained' = retained \cup {<<t, owner[t].revision>>}
    /\ owner' = [owner EXCEPT ![t] = AfterRetained(@)]
    /\ UNCHANGED <<row, pass, faults>>

\* When retain_pending itself raises, a deferred task inside its experiment
\* goes on, for ShadowService._callback drops the error; any other raises.
AfterRefused(o) ==
    [o EXCEPT !.appending = FALSE,
              !.phase = IF o.deferred /\ o.phase = "shadow" THEN "shadow" ELSE "raised"]

\* The append fails with nothing written, inside the line, or at the fsync that follows
\* the whole line.
RetainFails(t) ==
    /\ owner[t].appending
    /\ ~pass.active
    /\ \/ Inject("append_error") /\ UNCHANGED <<journal, tornTail>>
       \/ /\ Inject("append_error")
          /\ journal' = Appended([task |-> t, revision |-> owner[t].revision])
          /\ tornTail' = FALSE
       \/ /\ Inject("torn_append")
          /\ journal' = Appended(Garbage)
          /\ tornTail' = TRUE
    /\ owner' = [owner EXCEPT ![t] = AfterRefused(@)]
    /\ UNCHANGED <<row, pass, retained>>
-----------------------------------------------------------------------------
(* _reconcile_pending_unlocked, under the journal guard.                   *)

ReadJournal ==
    /\ ~pass.active
    /\ journal # <<>>
    /\ pass' = [active |-> TRUE, lines |-> journal, next |-> 1, kept |-> <<>>]
    /\ UNCHANGED <<row, owner, journal, tornTail, retained, faults>>

Entry == pass.lines[pass.next]

\* Mutant of Replays: an entry that is already stored is not recognised.
ReplaysOnlyNext(entry) ==
    /\ entry # Garbage
    /\ row[entry.task] = entry.revision - 1

\* The entry is replayed: its revision is already in the row, or save()
\* commits it on top of the revision it expects.
Replays(entry) ==
    /\ entry # Garbage
    /\ row[entry.task] \in {entry.revision, entry.revision - 1}

Replay ==
    /\ pass.active
    /\ pass.next <= Len(pass.lines)
    /\ Replays(Entry)
    /\ row' = [row EXCEPT ![Entry.task] = Entry.revision]
    /\ pass' = [pass EXCEPT !.next = @ + 1]
    /\ UNCHANGED <<owner, journal, tornTail, retained, faults>>

\* The entry is kept: it does not parse, it conflicts with the row, or the
\* database is unavailable, before or after it committed the save.
Keep ==
    /\ pass.active
    /\ pass.next <= Len(pass.lines)
    /\ \/ ~Replays(Entry) /\ UNCHANGED <<row, faults>>
       \/ Inject("outage") /\ UNCHANGED row
       \/ /\ Replays(Entry)
          /\ Inject("replay_lost_ack")
          /\ row' = [row EXCEPT ![Entry.task] = Entry.revision]
    /\ pass' = [pass EXCEPT !.next = @ + 1, !.kept = Append(@, Entry)]
    /\ UNCHANGED <<owner, journal, tornTail, retained>>

\* Mutant of ReplaceJournal: the lines that still fail are dropped.
ReplaceJournalEmpty ==
    /\ pass.active
    /\ pass.next > Len(pass.lines)
    /\ journal' = <<>>
    /\ tornTail' = FALSE
    /\ pass' = NoPass
    /\ UNCHANGED <<row, owner, retained, faults>>

\* _replace_journal renames a file of the kept lines over the journal.
ReplaceJournal ==
    /\ pass.active
    /\ pass.next > Len(pass.lines)
    /\ journal' = pass.kept
    /\ tornTail' = FALSE
    /\ pass' = NoPass
    /\ UNCHANGED <<row, owner, retained, faults>>

\* The process dies during the pass, or the rename fails: the rows that were
\* replayed stay replayed and the journal keeps every line.
PassAborts ==
    /\ pass.active
    /\ \/ Inject("reconcile_crash")
       \/ pass.next > Len(pass.lines) /\ Inject("replace_error")
    /\ pass' = NoPass
    /\ UNCHANGED <<row, owner, journal, tornTail, retained>>
-----------------------------------------------------------------------------
OwnerStep(t) ==
    \/ \E phase \in {"shadow", "final"} : Advance(t, phase)
    \/ SaveCommits(t)
    \/ SaveUnavailable(t)
    \/ SaveDeferred(t)
    \/ RetainPending(t)
    \/ RetainFails(t)

Reconcile == ReadJournal \/ Replay \/ Keep \/ ReplaceJournal

Next == (\E t \in Tasks : OwnerStep(t)) \/ Reconcile \/ PassAborts

\* An execution keeps running, and an operator keeps calling
\* reconcile_pending; an append waits for the guard but not for ever.
Spec ==
    /\ Init
    /\ [][Next]_vars
    /\ \A t \in Tasks : WF_vars(OwnerStep(t)) /\ SF_vars(RetainPending(t))
    /\ WF_vars(Reconcile)
-----------------------------------------------------------------------------
\* Every revision whose retain_pending returned is in the row or is a line of
\* the journal that will parse; only an append torn inside its line can take
\* the line after it along, and then leaves a line that is never dropped.
NothingLostSilently ==
    \A r \in retained :
        \/ row[r[1]] >= r[2]
        \/ \E i \in DOMAIN journal : journal[i] \in {[task |-> r[1], revision |-> r[2]], Garbage}

\* Between two saves a row is never ahead of its execution, and a running
\* execution that is not deferred is exactly its row: a replay never races it.
RowFollowsOwner ==
    \A t \in Tasks :
        /\ row[t] <= owner[t].revision
        /\ (Running(t) /\ ~owner[t].appending /\ ~owner[t].deferred)
            => row[t] = owner[t].revision

\* The line of a task that raised when it was journaled, and so has no later
\* one, leaves the journal again, whatever pass dies or loses its commits and
\* whatever lines of other tasks are stuck.
ProductionDrains ==
    \A t \in Tasks \ ShadowTasks : []<>(\A i \in DOMAIN journal : journal[i].task # t)

\* The revisions of a task that its row lacks are all lines of the journal.
Recoverable(t) ==
    \A r \in (row[t] + 1)..owner[t].revision :
        \E i \in DOMAIN journal : journal[i] = [task |-> t, revision |-> r]

\* A caller that was given a success finds it in the database sooner or later,
\* provided that no append failed: the revisions the row lacks are all in the
\* journal, among whatever torn lines and lines of other tasks.
RecoverableIsStored ==
    \A t \in Tasks :
        (owner[t].phase = "succeeded" /\ Recoverable(t)) ~> (row[t] = owner[t].revision)

\* A caller that was given a success finds it in the database sooner or later.
SuccessIsStored ==
    \A t \in Tasks :
        (owner[t].phase = "succeeded") ~> (row[t] = owner[t].revision)
=============================================================================
