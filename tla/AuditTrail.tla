------------------------------ MODULE AuditTrail ------------------------------
(***************************************************************************)
(* The way of an audit record: app/observability.py inserts it when the    *)
(* response body has been sent, or appends it to the fallback file         *)
(* (app/audit_fallback.py) when the database fails; the admin endpoint     *)
(* POST /v1/admin/audit/replay (app/routers/admin.py) moves the fallback   *)
(* file aside and inserts its lines; app/main.py's lifespan takes a list   *)
(* of the pending inserts at shutdown and waits for those.                 *)
(*                                                                         *)
(* One process.  A record stands for its request.  What ends a database    *)
(* call is external: the commit succeeds; or it raises, and the            *)
(* transaction took effect or not.  A crash may come between any two       *)
(* steps; files and database survive it.                                   *)
(***************************************************************************)
EXTENDS Integers, FiniteSets

CONSTANTS
    Requests,    \* audited requests, each with one record
    Replays      \* calls of the replay endpoint

VARIABLES
    sync,        \* settings.audit_sync
    life,        \* of the process: "up", "draining", "gathering", "stopped", "crashed"
    phase,       \* of a record: "idle", "sent", "inserting", "done", "unscheduled",
                 \* "abandoned", "dead"
    gathered,    \* the audit tasks in the lifespan's list
    db,          \* rows of audit_logs per record
    fallback,    \* lines of settings.audit_fallback_path
    failed,      \* lines of the .failed quarantine file
    unwritten,   \* records whose fallback write raised (logged, then gone)
    unread,      \* lines of snapshots that could not be read
    misreported, \* records with a commit that took effect but raised
    replay,      \* of a call: "idle", "lines", "unlink", "returned", "raised", "dead"
    snapshot,    \* lines of the call's .replay-<uuid> file
    todo,        \* lines[next_line_index:]
    bad          \* quarantine_lines

recordVars == <<sync, life, phase, gathered>>
fileVars == <<fallback, failed, unwritten, unread>>
replayVars == <<replay, snapshot, todo, bad>>
vars == <<recordVars, db, fileVars, misreported, replayVars>>

\* Requests under way go on while the server drains; tasks go on until the
\* event loop is closed.
Serving == life \in {"up", "draining"}
Running == life \in {"up", "draining", "gathering"}

Init ==
    /\ sync \in BOOLEAN
    /\ life = "up"
    /\ phase = [r \in Requests |-> "idle"]
    /\ gathered = {}
    /\ db = [r \in Requests |-> 0]
    /\ fallback = {}
    /\ failed = {}
    /\ unwritten = {}
    /\ unread = {}
    /\ misreported = {}
    /\ replay = [p \in Replays |-> "idle"]
    /\ snapshot = [p \in Replays |-> {}]
    /\ todo = [p \in Replays |-> {}]
    /\ bad = [p \in Replays |-> {}]

-----------------------------------------------------------------------------
(***************************************************************************)
(* Database calls (external)                                               *)
(***************************************************************************)
\* session.commit() returns: the row is there.
Commit(r) ==
    /\ db' = [db EXCEPT ![r] = @ + 1]
    /\ UNCHANGED misreported

\* session.commit(), or what comes before it, raises: no row, or a row whose
\* commit the database performed and the connection failed to report.
CommitRaises(r) ==
    \/ UNCHANGED <<db, misreported>>
    \/ /\ db' = [db EXCEPT ![r] = @ + 1]
       /\ misreported' = misreported \union {r}

(***************************************************************************)
(* Recording a request                                                     *)
(***************************************************************************)
\* The response head and every chunk have been sent; finalize runs when the
\* body iterator is exhausted.
SendBody(r) ==
    /\ Serving
    /\ phase[r] = "idle"
    /\ phase' = [phase EXCEPT ![r] = "sent"]
    /\ UNCHANGED <<sync, life, gathered, db, fileVars, misreported, replayVars>>

FinalizeOnlyUp(r) ==
    /\ life = "up"
    /\ phase[r] = "sent"
    /\ phase' = [phase EXCEPT ![r] = "inserting"]
    /\ UNCHANGED <<sync, life, gathered, db, fileVars, misreported, replayVars>>
\* _finalize_request and _schedule_audit_log: await the insert (AUDIT_SYNC),
\* or start a task for it and let the body iterator end.
Finalize(r) ==
    /\ Running
    /\ phase[r] = "sent"
    /\ phase' = [phase EXCEPT ![r] = "inserting"]
    /\ UNCHANGED <<sync, life, gathered, db, fileVars, misreported, replayVars>>

\* Building the record raises, or there is no sessionmaker: a log line is all
\* that is left.
ScheduleFails(r) ==
    /\ Running
    /\ phase[r] = "sent"
    /\ phase' = [phase EXCEPT ![r] = "unscheduled"]
    /\ UNCHANGED <<sync, life, gathered, db, fileVars, misreported, replayVars>>

\* The insert is over, and with it a body iterator that awaited it.
Recorded(r) ==
    /\ phase' = [phase EXCEPT ![r] = "done"]
    /\ UNCHANGED <<sync, life, gathered>>

InsertOk(r) ==
    /\ Running
    /\ phase[r] = "inserting"
    /\ Commit(r)
    /\ Recorded(r)
    /\ UNCHANGED <<fileVars, replayVars>>

\* _write_audit_fallback: the line is appended, or the write raises and the
\* record is only mentioned in the log.
WriteFallback(r) ==
    \/ /\ fallback' = fallback \union {r}
       /\ UNCHANGED unwritten
    \/ /\ unwritten' = unwritten \union {r}
       /\ UNCHANGED fallback

\* except Exception: the fallback write follows without an await.
InsertFails(r) ==
    /\ Running
    /\ phase[r] = "inserting"
    /\ CommitRaises(r)
    /\ WriteFallback(r)
    /\ Recorded(r)
    /\ UNCHANGED <<failed, unread, replayVars>>

(***************************************************************************)
(* replay_audit_fallback                                                   *)
(***************************************************************************)
\* No fallback file: {"replayed": 0, "failed": 0}.
ReplayNothing(p) ==
    /\ Serving
    /\ replay[p] = "idle"
    /\ fallback = {}
    /\ replay' = [replay EXCEPT ![p] = "returned"]
    /\ UNCHANGED <<recordVars, db, fileVars, misreported, snapshot, todo, bad>>

\* os.replace raises OSError: 503, the file stays.
ReplayUnavailable(p) ==
    /\ Serving
    /\ replay[p] = "idle"
    /\ fallback # {}
    /\ replay' = [replay EXCEPT ![p] = "raised"]
    /\ UNCHANGED <<recordVars, db, fileVars, misreported, snapshot, todo, bad>>

TakeSnapshotCopies(p) ==
    /\ Serving
    /\ replay[p] = "idle"
    /\ fallback # {}
    /\ snapshot' = [snapshot EXCEPT ![p] = fallback]
    /\ todo' = [todo EXCEPT ![p] = fallback]
    /\ replay' = [replay EXCEPT ![p] = "lines"]
    /\ UNCHANGED <<recordVars, db, fileVars, misreported, bad>>
\* os.replace(path, snapshot_path), then the lines are read.
TakeSnapshot(p) ==
    /\ Serving
    /\ replay[p] = "idle"
    /\ fallback # {}
    /\ fallback' = {}
    /\ snapshot' = [snapshot EXCEPT ![p] = fallback]
    /\ todo' = [todo EXCEPT ![p] = fallback]
    /\ replay' = [replay EXCEPT ![p] = "lines"]
    /\ UNCHANGED <<recordVars, db, failed, unwritten, unread, misreported, bad>>

\* read_text raises inside the try (an I/O error, bytes that are not UTF-8):
\* lines is still [], nothing is quarantined, and the finally clause unlinks
\* the snapshot.
TakeSnapshotUnreadable(p) ==
    /\ Serving
    /\ replay[p] = "idle"
    /\ fallback # {}
    /\ fallback' = {}
    /\ unread' = unread \union fallback
    /\ replay' = [replay EXCEPT ![p] = "raised"]
    /\ UNCHANGED <<recordVars, db, failed, unwritten, misreported, snapshot, todo, bad>>

\* One line is inserted in a transaction of its own.
ReplayLine(p, r) ==
    /\ Running
    /\ replay[p] = "lines"
    /\ r \in todo[p]
    /\ Commit(r)
    /\ todo' = [todo EXCEPT ![p] = @ \ {r}]
    /\ UNCHANGED <<recordVars, fileVars, replay, snapshot, bad>>

ReplayLineFailsRetries(p, r) ==
    /\ Running
    /\ replay[p] = "lines"
    /\ r \in todo[p]
    /\ bad' = [bad EXCEPT ![p] = IF r \in @ THEN @ \ {r} ELSE @ \union {r}]
    /\ UNCHANGED <<recordVars, db, fileVars, misreported, replay, snapshot, todo>>
\* Not JSON, not a record, or not inserted: the line is set aside.
ReplayLineFails(p, r) ==
    /\ Running
    /\ replay[p] = "lines"
    /\ r \in todo[p]
    /\ CommitRaises(r)
    /\ todo' = [todo EXCEPT ![p] = @ \ {r}]
    /\ bad' = [bad EXCEPT ![p] = @ \union {r}]
    /\ UNCHANGED <<recordVars, fileVars, replay, snapshot>>

\* The call's local lists are gone.
Forget(p) ==
    /\ todo' = [todo EXCEPT ![p] = {}]
    /\ bad' = [bad EXCEPT ![p] = {}]

QuarantineBadOnly(p) ==
    /\ failed' = failed \union bad[p]
    /\ replay' = [replay EXCEPT ![p] = "unlink"]
\* The finally clause: set-aside and unprocessed lines are appended to the
\* .failed file.
Quarantine(p) ==
    /\ failed' = failed \union bad[p] \union todo[p]
    /\ replay' = [replay EXCEPT ![p] = "unlink"]

\* The loop is over.  The unlink follows without an await; it is a step of
\* its own only for a crash to come before it.
ReplayEnds(p) ==
    /\ Running
    /\ replay[p] = "lines"
    /\ todo[p] = {}
    /\ Quarantine(p)
    /\ UNCHANGED <<recordVars, db, fallback, unwritten, unread, misreported,
                   snapshot, todo, bad>>

\* The call is cancelled while it awaits the commit of line r: next_line_index
\* still points at it, so it goes to quarantine with the rest.
ReplayCancelled(p, r) ==
    /\ Running
    /\ replay[p] = "lines"
    /\ r \in todo[p]
    /\ CommitRaises(r)
    /\ Quarantine(p)
    /\ UNCHANGED <<recordVars, fallback, unwritten, unread, snapshot, todo, bad>>

\* The quarantine write raises, after the loop or after a cancellation: the
\* unlink is skipped and the snapshot stays.
QuarantineFails(p) ==
    /\ Running
    /\ replay[p] = "lines"
    /\ \/ todo[p] = {} /\ bad[p] # {} /\ UNCHANGED <<db, misreported>>
       \/ \E r \in todo[p] : CommitRaises(r)
    /\ replay' = [replay EXCEPT ![p] = "raised"]
    /\ Forget(p)
    /\ UNCHANGED <<recordVars, fileVars, snapshot>>

Unlink(p) ==
    /\ Running
    /\ replay[p] = "unlink"
    /\ snapshot' = [snapshot EXCEPT ![p] = {}]
    /\ replay' = [replay EXCEPT ![p] = "returned"]
    /\ Forget(p)
    /\ UNCHANGED <<recordVars, db, fileVars, misreported>>

(***************************************************************************)
(* The process                                                             *)
(***************************************************************************)
BeginShutdown ==
    /\ life = "up"
    /\ life' = "draining"
    /\ UNCHANGED <<sync, phase, gathered, db, fileVars, misreported, replayVars>>

\* uvicorn, started without a graceful-shutdown timeout, lets the requests
\* under way complete before it runs the lifespan's exit.
NoRequestOpen ==
    /\ \A r \in Requests : phase[r] # "sent"
    /\ sync => \A r \in Requests : phase[r] # "inserting"
    /\ \A p \in Replays : replay[p] \notin {"lines", "unlink"}

\* app.state.audit_tasks; with AUDIT_SYNC an insert is part of its request
\* and no task.
AuditTasks == IF sync THEN {} ELSE {r \in Requests : phase[r] = "inserting"}

GatherWhileOpen ==
    /\ life = "draining"
    /\ gathered' = AuditTasks
    /\ life' = "gathering"
    /\ UNCHANGED <<sync, phase, db, fileVars, misreported, replayVars>>
\* The lifespan's finally clause takes list(audit_tasks), once.
Gather ==
    /\ life = "draining"
    /\ NoRequestOpen
    /\ gathered' = AuditTasks
    /\ life' = "gathering"
    /\ UNCHANGED <<sync, phase, db, fileVars, misreported, replayVars>>

StopAwaitsEmptyList ==
    /\ life = "gathering"
    /\ gathered = {}
    /\ life' = "stopped"
    /\ UNCHANGED <<sync, phase, gathered, db, fileVars, misreported, replayVars>>
\* asyncio.gather returns when the tasks of the list are over, and the event
\* loop is closed.  That cancels any other task: CancelledError passes the
\* except clause of _insert_audit_log, so there is no fallback line, and a
\* commit under way has taken effect or not.
Stop ==
    /\ life = "gathering"
    /\ \A r \in gathered : phase[r] # "inserting"
    /\ life' = "stopped"
    /\ gathered' = {}
    /\ phase' = [r \in Requests |->
                    IF phase[r] \in {"sent", "inserting"} THEN "abandoned" ELSE phase[r]]
    /\ \E done \in SUBSET {r \in Requests : phase[r] = "inserting"} :
           db' = [r \in Requests |-> IF r \in done THEN db[r] + 1 ELSE db[r]]
    /\ UNCHANGED <<sync, fileVars, misreported, replayVars>>

\* A crash leaves in the database any of the inserts under way: of pending
\* records, and of at most one line of each running replay.
UnderWay(S) ==
    /\ S \subseteq {r \in Requests : phase[r] = "inserting"}
                    \union UNION {todo[p] : p \in Replays}
    /\ \A p \in Replays : \A q, r \in S \intersect todo[p] : replay[p] = "lines" /\ q = r

\* What was in memory is gone.
Crash ==
    /\ Running
    /\ life' = "crashed"
    /\ gathered' = {}
    /\ phase' = [r \in Requests |->
                    IF phase[r] \in {"sent", "inserting"} THEN "dead" ELSE phase[r]]
    /\ \E done \in SUBSET Requests :
           /\ UnderWay(done)
           /\ db' = [r \in Requests |-> IF r \in done THEN db[r] + 1 ELSE db[r]]
    /\ replay' = [p \in Replays |->
                     IF replay[p] \in {"lines", "unlink"} THEN "dead" ELSE replay[p]]
    /\ todo' = [p \in Replays |-> {}]
    /\ bad' = [p \in Replays |-> {}]
    /\ UNCHANGED <<sync, fileVars, misreported, snapshot>>

Restart ==
    /\ life \in {"stopped", "crashed"}
    /\ life' = "up"
    /\ UNCHANGED <<sync, phase, gathered, db, fileVars, misreported, replayVars>>

-----------------------------------------------------------------------------
Insert(r) == InsertOk(r) \/ InsertFails(r)

StartReplay(p) ==
    ReplayNothing(p) \/ ReplayUnavailable(p) \/ TakeSnapshot(p) \/ TakeSnapshotUnreadable(p)

ReplayStep(p) ==
    \/ \E r \in Requests :
           ReplayLine(p, r) \/ ReplayLineFails(p, r) \/ ReplayCancelled(p, r)
    \/ ReplayEnds(p) \/ QuarantineFails(p) \/ Unlink(p)

Next ==
    \/ \E r \in Requests : SendBody(r) \/ Finalize(r) \/ ScheduleFails(r) \/ Insert(r)
    \/ \E p \in Replays : StartReplay(p) \/ ReplayStep(p)
    \/ BeginShutdown \/ Gather \/ Stop \/ Crash \/ Restart

Spec == Init /\ [][Next]_vars

(***************************************************************************)
(* Fairness: the event loop runs ready tasks, a database call returns or   *)
(* raises, and the lifespan's exit runs when the server has drained.       *)
(***************************************************************************)
FairSpec ==
    /\ Spec
    /\ \A r \in Requests : WF_vars(Finalize(r)) /\ WF_vars(Insert(r))
    /\ \A p \in Replays : WF_vars(ReplayStep(p))
    /\ WF_vars(Gather) /\ WF_vars(Stop)

-----------------------------------------------------------------------------
(***************************************************************************)
(* Properties                                                              *)
(***************************************************************************)
\* The values of the trail's state; a replay call works on lines that its
\* snapshot file still has.
TypeOK ==
    /\ sync \in BOOLEAN
    /\ life \in {"up", "draining", "gathering", "stopped", "crashed"}
    /\ phase \in [Requests -> {"idle", "sent", "inserting", "done",
                              "unscheduled", "abandoned", "dead"}]
    /\ gathered \in SUBSET Requests
    /\ db \in [Requests -> Nat]
    /\ fallback \in SUBSET Requests
    /\ failed \in SUBSET Requests
    /\ unwritten \in SUBSET Requests
    /\ unread \in SUBSET Requests
    /\ misreported \in SUBSET Requests
    /\ replay \in [Replays -> {"idle", "lines", "unlink", "returned", "raised", "dead"}]
    /\ snapshot \in [Replays -> SUBSET Requests]
    /\ todo \in [Replays -> SUBSET Requests]
    /\ bad \in [Replays -> SUBSET Requests]
    /\ \A p \in Replays : todo[p] \union bad[p] \subseteq snapshot[p]

\* Where a record that is not in the database can still be found.
OnDisk == fallback \union failed \union UNION {snapshot[p] : p \in Replays}

\* A record whose insert was tried is in the database or in a file, through
\* concurrent replays, failing lines, cancelled calls and crashes between
\* any two steps of a replay.  Two failures lose records: the fallback write
\* raises, or a snapshot cannot be read.
NoRecordLost ==
    \A r \in Requests :
        phase[r] = "done" /\ r \notin unwritten \union unread
            => db[r] > 0 \/ r \in OnDisk

\* docs/HANDOFF.md: a line that replay fails on or does not process is moved
\* to the .failed file, so that none is lost for good.
ReplayLosesNothing ==
    \A r \in Requests :
        phase[r] = "done" /\ r \notin unwritten => db[r] > 0 \/ r \in OnDisk

\* Replay does not duplicate: unless a commit took effect and raised, a
\* record has at most one row, however replays, quarantine and crashes
\* interleave.
AtMostOnce ==
    \A r \in Requests : r \notin misreported => db[r] <= 1

\* A line waits in one place only: two replay calls never hold the same
\* line, and a line being replayed is not in the live fallback file.
OneOwner ==
    /\ \A p, q \in Replays : p # q => todo[p] \intersect todo[q] = {}
    /\ \A p \in Replays : todo[p] \intersect fallback = {}

\* An orderly shutdown cuts off no insert: the list of tasks is taken once,
\* while inserts end and others are still started, yet whatever it misses
\* would be cancelled with the event loop and leave no trace.
StopAbandonsNothing ==
    \A r \in Requests : phase[r] # "abandoned"

\* Every record is settled in the end: inserted or parked, dropped because it
\* could not be scheduled, or the process died.
EveryRecordSettles ==
    \A r \in Requests : phase[r] = "sent" ~> phase[r] \in {"done", "unscheduled", "dead"}

\* Every replay call ends, whatever the database does.
EveryReplayEnds ==
    \A p \in Replays :
        replay[p] \in {"lines", "unlink"} ~> replay[p] \in {"returned", "raised", "dead"}

\* A shutdown is never stuck behind the audit trail.
ShutdownCompletes ==
    life = "draining" ~> life \notin {"draining", "gathering"}
=============================================================================
