-------------------------- MODULE AuditTrail_proofs --------------------------
(***************************************************************************)
(* AuditTrail for any number of records and of concurrent replay calls.    *)
(*                                                                         *)
(* Neither "no record is lost" nor "at most one row" is inductive.  That   *)
(* unlinking a snapshot loses nothing needs to know, of each replay call,  *)
(* that the lines of its snapshot are still to do, set aside or stored     *)
(* (ReplayInv); that replaying a line does not duplicate it needs to know  *)
(* that a line waiting in the live file or in a call's list has no row     *)
(* yet (PendingInv) and waits in one place only (OneOwner), which in turn  *)
(* needs that a record not yet tried is in no file (FreshInv).  That the   *)
(* list of tasks an orderly stop waits for misses none needs what holds    *)
(* from the moment it was taken (DrainInv).                                *)
(***************************************************************************)
EXTENDS AuditTrail, TLAPS

\* Records with a row.
Stored == {r \in Requests : db[r] > 0}

\* Where the lines of a call's snapshot are at each point of the call.
ReplayInv ==
    \A p \in Replays :
        /\ replay[p] = "lines" => snapshot[p] \subseteq todo[p] \union bad[p] \union Stored
        /\ replay[p] = "unlink" => snapshot[p] \subseteq failed \union Stored
        /\ replay[p] \notin {"lines", "unlink"} => todo[p] = {} /\ bad[p] = {}
        /\ replay[p] = "idle" => snapshot[p] = {}

\* A record whose insert is not over has no row and is in no file.
FreshInv ==
    \A r \in Requests :
        phase[r] \in {"idle", "sent", "inserting"} =>
            /\ db[r] = 0
            /\ r \notin fallback
            /\ \A p \in Replays : r \notin snapshot[p]

\* A line that waits to be replayed has no row.
PendingInv ==
    \A r \in Requests :
        /\ r \notin misreported
        /\ r \in fallback \/ \E p \in Replays : r \in todo[p]
        => db[r] = 0

\* The inductive invariant.
Inv ==
    /\ TypeOK
    /\ ReplayInv
    /\ FreshInv
    /\ PendingInv
    /\ OneOwner
    /\ AtMostOnce
    /\ NoRecordLost

-----------------------------------------------------------------------------
(***************************************************************************)
(* The steps that touch neither rows nor files                             *)
(***************************************************************************)
\* What such a step may do: move a record that is not yet tried, end a call
\* that found nothing to do, or change the life of the process.
Quiet ==
    /\ UNCHANGED <<db, fileVars, misreported, snapshot, todo, bad>>
    /\ \A r \in Requests :
           \/ phase'[r] = phase[r]
           \/ /\ phase[r] \in {"idle", "sent"}
              /\ phase'[r] \in {"sent", "inserting", "unscheduled"}
    /\ \A p \in Replays :
           \/ replay'[p] = replay[p]
           \/ replay[p] = "idle" /\ replay'[p] \in {"returned", "raised"}

\* A quiet step preserves the invariant.
LEMMA QuietInv ==
    ASSUME Inv, Quiet, TypeOK'
    PROVE  Inv'
<1>1. ReplayInv'
  BY DEF Quiet, fileVars, Inv, TypeOK, ReplayInv, Stored
<1>2. FreshInv'
  BY DEF Quiet, fileVars, Inv, TypeOK, FreshInv
<1>3. PendingInv' /\ OneOwner' /\ AtMostOnce'
  BY DEF Quiet, fileVars, Inv, PendingInv, OneOwner, AtMostOnce
<1>4. NoRecordLost'
  BY DEF Quiet, fileVars, Inv, TypeOK, NoRecordLost, OnDisk
<1> QED
  BY <1>1, <1>2, <1>3, <1>4 DEF Inv

\* Sending a response is quiet.
LEMMA SendBodyInv ==
    ASSUME Inv, NEW r \in Requests, SendBody(r)
    PROVE  Inv'
<1>1. TypeOK'
  BY DEF SendBody, fileVars, replayVars, Inv, TypeOK
<1>2. Quiet
  BY DEF SendBody, replayVars, Quiet, Inv, TypeOK
<1> QED
  BY <1>1, <1>2, QuietInv

\* Starting the insert, or failing to, is quiet.
LEMMA FinalizeInv ==
    ASSUME Inv, NEW r \in Requests, Finalize(r) \/ ScheduleFails(r)
    PROVE  Inv'
<1>1. TypeOK'
  BY DEF Finalize, ScheduleFails, fileVars, replayVars, Inv, TypeOK
<1>2. Quiet
  BY DEF Finalize, ScheduleFails, replayVars, Quiet, Inv, TypeOK
<1> QED
  BY <1>1, <1>2, QuietInv

\* A replay call that finds nothing, or cannot move the file, is quiet.
LEMMA NoSnapshotInv ==
    ASSUME Inv, NEW p \in Replays, ReplayNothing(p) \/ ReplayUnavailable(p)
    PROVE  Inv'
<1>1. TypeOK'
  BY DEF ReplayNothing, ReplayUnavailable, recordVars, fileVars, Inv, TypeOK
<1>2. Quiet
  BY DEF ReplayNothing, ReplayUnavailable, recordVars, Quiet, Inv, TypeOK
<1> QED
  BY <1>1, <1>2, QuietInv

\* The steps of a shutdown before the stop, and a start, are quiet.
LEMMA LifeInv ==
    ASSUME Inv, BeginShutdown \/ Gather \/ Restart
    PROVE  Inv'
<1>1. TypeOK'
  BY DEF BeginShutdown, Gather, AuditTasks, Restart, fileVars, replayVars, Inv, TypeOK
<1>2. Quiet
  BY DEF BeginShutdown, Gather, Restart, replayVars, Quiet
<1> QED
  BY <1>1, <1>2, QuietInv

-----------------------------------------------------------------------------
(***************************************************************************)
(* The steps that write a row or a file                                    *)
(***************************************************************************)
\* The inserted record was in no file and had no row.
LEMMA InsertOkInv ==
    ASSUME Inv, NEW r \in Requests, InsertOk(r)
    PROVE  Inv'
<1>1. TypeOK'
  BY DEF InsertOk, Recorded, Commit, fileVars, replayVars,
         Inv, TypeOK
<1>2. ReplayInv'
  BY DEF InsertOk, Recorded, Commit, fileVars, replayVars,
         Inv, TypeOK, ReplayInv, Stored
<1>3. FreshInv'
  BY DEF InsertOk, Recorded, Commit, fileVars, replayVars,
         Inv, TypeOK, FreshInv
<1>4. PendingInv'
  BY DEF InsertOk, Recorded, Commit, fileVars, replayVars,
         Inv, TypeOK, PendingInv, FreshInv, OneOwner
<1>5. OneOwner'
  BY DEF InsertOk, Recorded, Commit, fileVars, replayVars,
         Inv, TypeOK, OneOwner, FreshInv, ReplayInv
<1>6. AtMostOnce'
  BY DEF InsertOk, Recorded, Commit, fileVars, replayVars,
         Inv, TypeOK, AtMostOnce, PendingInv, FreshInv
<1>7. NoRecordLost'
  BY DEF InsertOk, Recorded, Commit, fileVars, replayVars,
         Inv, TypeOK, NoRecordLost, OnDisk, ReplayInv, Stored
<1> QED
  BY <1>1, <1>2, <1>3, <1>4, <1>5, <1>6, <1>7 DEF Inv

\* The record enters the live file; no call and no file had it before.
LEMMA InsertFailsInv ==
    ASSUME Inv, NEW r \in Requests, InsertFails(r)
    PROVE  Inv'
<1>1. TypeOK'
  BY DEF InsertFails, Recorded, CommitRaises, WriteFallback, replayVars,
         Inv, TypeOK
<1>2. ReplayInv'
  BY DEF InsertFails, Recorded, CommitRaises, WriteFallback, replayVars,
         Inv, TypeOK, ReplayInv, Stored
<1>3. FreshInv'
  BY DEF InsertFails, Recorded, CommitRaises, WriteFallback, replayVars,
         Inv, TypeOK, FreshInv
<1>4. PendingInv'
  BY DEF InsertFails, Recorded, CommitRaises, WriteFallback, replayVars,
         Inv, TypeOK, PendingInv, FreshInv, OneOwner
<1>5. OneOwner'
  BY DEF InsertFails, Recorded, CommitRaises, WriteFallback, replayVars,
         Inv, TypeOK, OneOwner, FreshInv, ReplayInv
<1>6. AtMostOnce'
  BY DEF InsertFails, Recorded, CommitRaises, WriteFallback, replayVars,
         Inv, TypeOK, AtMostOnce, PendingInv, FreshInv
<1>7. NoRecordLost'
  BY DEF InsertFails, Recorded, CommitRaises, WriteFallback, replayVars,
         Inv, TypeOK, NoRecordLost, OnDisk, ReplayInv, Stored
<1> QED
  BY <1>1, <1>2, <1>3, <1>4, <1>5, <1>6, <1>7 DEF Inv

\* The live file becomes the call's snapshot; the call had none.
LEMMA TakeSnapshotInv ==
    ASSUME Inv, NEW p \in Replays, TakeSnapshot(p)
    PROVE  Inv'
<1>1. TypeOK'
  BY DEF TakeSnapshot, recordVars,
         Inv, TypeOK, ReplayInv
<1>2. ReplayInv'
  BY DEF TakeSnapshot, recordVars,
         Inv, TypeOK, ReplayInv, Stored
<1>3. FreshInv'
  BY DEF TakeSnapshot, recordVars,
         Inv, TypeOK, FreshInv
<1>4. PendingInv'
  BY DEF TakeSnapshot, recordVars,
         Inv, TypeOK, PendingInv, FreshInv, OneOwner
<1>5. OneOwner'
  BY DEF TakeSnapshot, recordVars,
         Inv, TypeOK, OneOwner, FreshInv, ReplayInv
<1>6. AtMostOnce'
  BY DEF TakeSnapshot, recordVars,
         Inv, TypeOK, AtMostOnce, PendingInv, FreshInv
<1>7. NoRecordLost'
  BY DEF TakeSnapshot, recordVars,
         Inv, TypeOK, NoRecordLost, OnDisk, ReplayInv, Stored
<1> QED
  BY <1>1, <1>2, <1>3, <1>4, <1>5, <1>6, <1>7 DEF Inv

\* The lines are gone, and counted as such.
LEMMA TakeSnapshotUnreadableInv ==
    ASSUME Inv, NEW p \in Replays, TakeSnapshotUnreadable(p)
    PROVE  Inv'
<1>1. TypeOK'
  BY DEF TakeSnapshotUnreadable, recordVars,
         Inv, TypeOK
<1>2. ReplayInv'
  BY DEF TakeSnapshotUnreadable, recordVars,
         Inv, TypeOK, ReplayInv, Stored
<1>3. FreshInv'
  BY DEF TakeSnapshotUnreadable, recordVars,
         Inv, TypeOK, FreshInv
<1>4. PendingInv'
  BY DEF TakeSnapshotUnreadable, recordVars,
         Inv, TypeOK, PendingInv, FreshInv, OneOwner
<1>5. OneOwner'
  BY DEF TakeSnapshotUnreadable, recordVars,
         Inv, TypeOK, OneOwner, FreshInv, ReplayInv
<1>6. AtMostOnce'
  BY DEF TakeSnapshotUnreadable, recordVars,
         Inv, TypeOK, AtMostOnce, PendingInv, FreshInv
<1>7. NoRecordLost'
  BY DEF TakeSnapshotUnreadable, recordVars,
         Inv, TypeOK, NoRecordLost, OnDisk, ReplayInv, Stored
<1> QED
  BY <1>1, <1>2, <1>3, <1>4, <1>5, <1>6, <1>7 DEF Inv

\* The line had no row and waits nowhere else.
LEMMA ReplayLineInv ==
    ASSUME Inv, NEW p \in Replays, NEW r \in Requests, ReplayLine(p, r)
    PROVE  Inv'
<1>1. TypeOK'
  BY DEF ReplayLine, Commit, recordVars, fileVars,
         Inv, TypeOK
<1>2. ReplayInv'
  BY DEF ReplayLine, Commit, recordVars, fileVars,
         Inv, TypeOK, ReplayInv, Stored
<1>3. FreshInv'
  BY DEF ReplayLine, Commit, recordVars, fileVars,
         Inv, TypeOK, FreshInv
<1>4. PendingInv'
  BY DEF ReplayLine, Commit, recordVars, fileVars,
         Inv, TypeOK, PendingInv, FreshInv, OneOwner
<1>5. OneOwner'
  BY DEF ReplayLine, Commit, recordVars, fileVars,
         Inv, TypeOK, OneOwner, FreshInv, ReplayInv
<1>6. AtMostOnce'
  BY DEF ReplayLine, Commit, recordVars, fileVars,
         Inv, TypeOK, AtMostOnce, PendingInv, FreshInv
<1>7. NoRecordLost'
  BY DEF ReplayLine, Commit, recordVars, fileVars,
         Inv, TypeOK, NoRecordLost, OnDisk, ReplayInv, Stored
<1> QED
  BY <1>1, <1>2, <1>3, <1>4, <1>5, <1>6, <1>7 DEF Inv

\* The line is set aside; a row it got is a misreported one.
LEMMA ReplayLineFailsInv ==
    ASSUME Inv, NEW p \in Replays, NEW r \in Requests, ReplayLineFails(p, r)
    PROVE  Inv'
<1>1. TypeOK'
  BY DEF ReplayLineFails, CommitRaises, recordVars, fileVars,
         Inv, TypeOK
<1>2. ReplayInv'
  BY DEF ReplayLineFails, CommitRaises, recordVars, fileVars,
         Inv, TypeOK, ReplayInv, Stored
<1>3. FreshInv'
  BY DEF ReplayLineFails, CommitRaises, recordVars, fileVars,
         Inv, TypeOK, FreshInv
<1>4. PendingInv'
  BY DEF ReplayLineFails, CommitRaises, recordVars, fileVars,
         Inv, TypeOK, PendingInv, FreshInv, OneOwner
<1>5. OneOwner'
  BY DEF ReplayLineFails, CommitRaises, recordVars, fileVars,
         Inv, TypeOK, OneOwner, FreshInv, ReplayInv
<1>6. AtMostOnce'
  BY DEF ReplayLineFails, CommitRaises, recordVars, fileVars,
         Inv, TypeOK, AtMostOnce, PendingInv, FreshInv
<1>7. NoRecordLost'
  BY DEF ReplayLineFails, CommitRaises, recordVars, fileVars,
         Inv, TypeOK, NoRecordLost, OnDisk, ReplayInv, Stored
<1> QED
  BY <1>1, <1>2, <1>3, <1>4, <1>5, <1>6, <1>7 DEF Inv

\* The lines set aside and the ones still to do reach the quarantine file.
LEMMA ReplayCancelledInv ==
    ASSUME Inv, NEW p \in Replays, NEW r \in Requests, ReplayCancelled(p, r)
    PROVE  Inv'
<1>1. TypeOK'
  BY DEF ReplayCancelled, CommitRaises, Quarantine, recordVars,
         Inv, TypeOK
<1>2. ReplayInv'
  BY DEF ReplayCancelled, CommitRaises, Quarantine, recordVars,
         Inv, TypeOK, ReplayInv, Stored
<1>3. FreshInv'
  BY DEF ReplayCancelled, CommitRaises, Quarantine, recordVars,
         Inv, TypeOK, FreshInv
<1>4. PendingInv'
  BY DEF ReplayCancelled, CommitRaises, Quarantine, recordVars,
         Inv, TypeOK, PendingInv, FreshInv, OneOwner
<1>5. OneOwner'
  BY DEF ReplayCancelled, CommitRaises, Quarantine, recordVars,
         Inv, TypeOK, OneOwner, FreshInv, ReplayInv
<1>6. AtMostOnce'
  BY DEF ReplayCancelled, CommitRaises, Quarantine, recordVars,
         Inv, TypeOK, AtMostOnce, PendingInv, FreshInv
<1>7. NoRecordLost'
  BY DEF ReplayCancelled, CommitRaises, Quarantine, recordVars,
         Inv, TypeOK, NoRecordLost, OnDisk, ReplayInv, Stored
<1> QED
  BY <1>1, <1>2, <1>3, <1>4, <1>5, <1>6, <1>7 DEF Inv

\* The lines set aside reach the quarantine file.
LEMMA ReplayEndsInv ==
    ASSUME Inv, NEW p \in Replays, ReplayEnds(p)
    PROVE  Inv'
<1>1. TypeOK'
  BY DEF ReplayEnds, Quarantine, recordVars,
         Inv, TypeOK
<1>2. ReplayInv'
  BY DEF ReplayEnds, Quarantine, recordVars,
         Inv, TypeOK, ReplayInv, Stored
<1>3. FreshInv'
  BY DEF ReplayEnds, Quarantine, recordVars,
         Inv, TypeOK, FreshInv
<1>4. PendingInv'
  BY DEF ReplayEnds, Quarantine, recordVars,
         Inv, TypeOK, PendingInv, FreshInv, OneOwner
<1>5. OneOwner'
  BY DEF ReplayEnds, Quarantine, recordVars,
         Inv, TypeOK, OneOwner, FreshInv, ReplayInv
<1>6. AtMostOnce'
  BY DEF ReplayEnds, Quarantine, recordVars,
         Inv, TypeOK, AtMostOnce, PendingInv, FreshInv
<1>7. NoRecordLost'
  BY DEF ReplayEnds, Quarantine, recordVars,
         Inv, TypeOK, NoRecordLost, OnDisk, ReplayInv, Stored
<1> QED
  BY <1>1, <1>2, <1>3, <1>4, <1>5, <1>6, <1>7 DEF Inv

\* The snapshot stays on disk.
LEMMA QuarantineFailsInv ==
    ASSUME Inv, NEW p \in Replays, QuarantineFails(p)
    PROVE  Inv'
<1>1. TypeOK'
  BY DEF QuarantineFails, CommitRaises, Forget, recordVars, fileVars,
         Inv, TypeOK
<1>2. ReplayInv'
  BY DEF QuarantineFails, CommitRaises, Forget, recordVars, fileVars,
         Inv, TypeOK, ReplayInv, Stored
<1>3. FreshInv'
  BY DEF QuarantineFails, CommitRaises, Forget, recordVars, fileVars,
         Inv, TypeOK, FreshInv
<1>4. PendingInv'
  BY DEF QuarantineFails, CommitRaises, Forget, recordVars, fileVars,
         Inv, TypeOK, PendingInv, FreshInv, OneOwner
<1>5. OneOwner'
  BY DEF QuarantineFails, CommitRaises, Forget, recordVars, fileVars,
         Inv, TypeOK, OneOwner, FreshInv, ReplayInv
<1>6. AtMostOnce'
  BY DEF QuarantineFails, CommitRaises, Forget, recordVars, fileVars,
         Inv, TypeOK, AtMostOnce, PendingInv, FreshInv
<1>7. NoRecordLost'
  BY DEF QuarantineFails, CommitRaises, Forget, recordVars, fileVars,
         Inv, TypeOK, NoRecordLost, OnDisk, ReplayInv, Stored
<1> QED
  BY <1>1, <1>2, <1>3, <1>4, <1>5, <1>6, <1>7 DEF Inv

\* Every line of the snapshot is stored or in quarantine.
LEMMA UnlinkInv ==
    ASSUME Inv, NEW p \in Replays, Unlink(p)
    PROVE  Inv'
<1>1. TypeOK'
  BY DEF Unlink, Forget, recordVars, fileVars,
         Inv, TypeOK
<1>2. ReplayInv'
  BY DEF Unlink, Forget, recordVars, fileVars,
         Inv, TypeOK, ReplayInv, Stored
<1>3. FreshInv'
  BY DEF Unlink, Forget, recordVars, fileVars,
         Inv, TypeOK, FreshInv
<1>4. PendingInv'
  BY DEF Unlink, Forget, recordVars, fileVars,
         Inv, TypeOK, PendingInv, FreshInv, OneOwner
<1>5. OneOwner'
  BY DEF Unlink, Forget, recordVars, fileVars,
         Inv, TypeOK, OneOwner, FreshInv, ReplayInv
<1>6. AtMostOnce'
  BY DEF Unlink, Forget, recordVars, fileVars,
         Inv, TypeOK, AtMostOnce, PendingInv, FreshInv
<1>7. NoRecordLost'
  BY DEF Unlink, Forget, recordVars, fileVars,
         Inv, TypeOK, NoRecordLost, OnDisk, ReplayInv, Stored
<1> QED
  BY <1>1, <1>2, <1>3, <1>4, <1>5, <1>6, <1>7 DEF Inv

\* A row left by the crash is of a record in no live list.
LEMMA CrashInv ==
    ASSUME Inv, Crash
    PROVE  Inv'
<1>1. TypeOK'
  BY DEF Crash, UnderWay, fileVars,
         Inv, TypeOK
<1>2. ReplayInv'
  BY DEF Crash, UnderWay, fileVars,
         Inv, TypeOK, ReplayInv, Stored
<1>3. FreshInv'
  BY DEF Crash, UnderWay, fileVars,
         Inv, TypeOK, FreshInv
<1>4. PendingInv'
  BY DEF Crash, UnderWay, fileVars,
         Inv, TypeOK, PendingInv, FreshInv, OneOwner
<1>5. OneOwner'
  BY DEF Crash, UnderWay, fileVars,
         Inv, TypeOK, OneOwner, FreshInv, ReplayInv
<1>6. AtMostOnce'
  BY DEF Crash, UnderWay, fileVars,
         Inv, TypeOK, AtMostOnce, PendingInv, FreshInv
<1>7. NoRecordLost'
  BY DEF Crash, UnderWay, fileVars,
         Inv, TypeOK, NoRecordLost, OnDisk, ReplayInv, Stored
<1> QED
  BY <1>1, <1>2, <1>3, <1>4, <1>5, <1>6, <1>7 DEF Inv

\* A row left by an insert that the stop cuts off is of a record in no file.
LEMMA StopInv ==
    ASSUME Inv, Stop
    PROVE  Inv'
<1>1. TypeOK'
  BY DEF Stop, fileVars, replayVars,
         Inv, TypeOK
<1>2. ReplayInv'
  BY DEF Stop, fileVars, replayVars,
         Inv, TypeOK, ReplayInv, Stored
<1>3. FreshInv'
  BY DEF Stop, fileVars, replayVars,
         Inv, TypeOK, FreshInv
<1>4. PendingInv'
  BY DEF Stop, fileVars, replayVars,
         Inv, TypeOK, PendingInv, FreshInv, OneOwner
<1>5. OneOwner'
  BY DEF Stop, fileVars, replayVars,
         Inv, TypeOK, OneOwner, FreshInv, ReplayInv
<1>6. AtMostOnce'
  BY DEF Stop, fileVars, replayVars,
         Inv, TypeOK, AtMostOnce, PendingInv, FreshInv
<1>7. NoRecordLost'
  BY DEF Stop, fileVars, replayVars,
         Inv, TypeOK, NoRecordLost, OnDisk, ReplayInv, Stored
<1> QED
  BY <1>1, <1>2, <1>3, <1>4, <1>5, <1>6, <1>7 DEF Inv

-----------------------------------------------------------------------------
\* The invariant holds of an empty trail.
LEMMA InitInv ==
    Init => Inv
<1> SUFFICES ASSUME Init PROVE Inv
  OBVIOUS
<1>1. TypeOK
  BY DEF Init, TypeOK
<1>2. ReplayInv /\ FreshInv /\ PendingInv
  BY DEF Init, ReplayInv, FreshInv, PendingInv
<1>3. OneOwner /\ AtMostOnce /\ NoRecordLost
  BY DEF Init, OneOwner, AtMostOnce, NoRecordLost
<1> QED
  BY <1>1, <1>2, <1>3 DEF Inv

\* Every step preserves it.
LEMMA NextInv ==
    Inv /\ [Next]_vars => Inv'
<1> SUFFICES ASSUME Inv, [Next]_vars PROVE Inv'
  OBVIOUS
<1>1. ASSUME NEW r \in Requests,
             SendBody(r) \/ Finalize(r) \/ ScheduleFails(r) \/ Insert(r)
      PROVE  Inv'
  BY <1>1, SendBodyInv, FinalizeInv, InsertOkInv, InsertFailsInv DEF Insert
<1>2. ASSUME NEW p \in Replays, StartReplay(p)
      PROVE  Inv'
  BY <1>2, NoSnapshotInv, TakeSnapshotInv, TakeSnapshotUnreadableInv DEF StartReplay
<1>3. ASSUME NEW p \in Replays, ReplayStep(p)
      PROVE  Inv'
  BY <1>3, ReplayLineInv, ReplayLineFailsInv, ReplayCancelledInv,
     ReplayEndsInv, QuarantineFailsInv, UnlinkInv DEF ReplayStep
<1>4. CASE BeginShutdown \/ Gather \/ Restart
  BY <1>4, LifeInv
<1>5. CASE Stop \/ Crash
  BY <1>5, StopInv, CrashInv
<1>6. CASE UNCHANGED vars
  <2>1. TypeOK'
    BY <1>6 DEF vars, recordVars, fileVars, replayVars, Inv, TypeOK
  <2>2. Quiet
    BY <1>6 DEF vars, recordVars, replayVars, Quiet
  <2> QED
    BY <2>1, <2>2, QuietInv
<1> QED
  BY <1>1, <1>2, <1>3, <1>4, <1>5, <1>6 DEF Next

\* So it always holds.
LEMMA InvAlways == Spec => []Inv
  BY InitInv, NextInv, PTL DEF Spec

-----------------------------------------------------------------------------
(***************************************************************************)
(* Theorems                                                                *)
(***************************************************************************)
\* The trail's state keeps its type, and the lines a replay call works on
\* are never gone from its snapshot file.
THEOREM TypeCorrect == Spec => []TypeOK
<1>1. Inv => TypeOK
  BY DEF Inv
<1> QED
  BY <1>1, InvAlways, PTL

\* A record whose insert was tried is in the database or in a file, unless
\* the fallback write raised or a snapshot could not be read.
THEOREM NothingLost == Spec => []NoRecordLost
<1>1. Inv => NoRecordLost
  BY DEF Inv
<1> QED
  BY <1>1, InvAlways, PTL

\* Replay never gives a record a second row, unless a commit was misreported.
THEOREM NoDuplicates == Spec => []AtMostOnce
<1>1. Inv => AtMostOnce
  BY DEF Inv
<1> QED
  BY <1>1, InvAlways, PTL

\* A line is in the live file or in the list of one replay call, not in two.
THEOREM LinesHaveOneOwner == Spec => []OneOwner
<1>1. Inv => OneOwner
  BY DEF Inv
<1> QED
  BY <1>1, InvAlways, PTL

\* From the moment the lifespan took its list of tasks no response waits for
\* its record to be scheduled, and every insert under way is in the list.
DrainInv ==
    life = "gathering" =>
        \A r \in Requests :
            /\ phase[r] # "sent"
            /\ phase[r] = "inserting" => r \in gathered

\* An orderly stop, in any order of inserts, replays and responses before it,
\* cancels no insert, although its list of tasks is taken once.
THEOREM StopDrains == Spec => []StopAbandonsNothing
<1>1. Init => DrainInv /\ StopAbandonsNothing
  BY DEF Init, DrainInv, StopAbandonsNothing
<1>2. TypeOK /\ DrainInv /\ StopAbandonsNothing /\ [Next]_vars
          => DrainInv' /\ StopAbandonsNothing'
  <2> SUFFICES ASSUME TypeOK, DrainInv, StopAbandonsNothing, [Next]_vars
               PROVE  DrainInv' /\ StopAbandonsNothing'
    OBVIOUS
  <2>1. ASSUME NEW r \in Requests, SendBody(r)
        PROVE  DrainInv' /\ StopAbandonsNothing'
    BY <2>1 DEF SendBody, Serving, TypeOK, DrainInv, StopAbandonsNothing
  <2>2. ASSUME NEW r \in Requests, Finalize(r) \/ ScheduleFails(r)
        PROVE  DrainInv' /\ StopAbandonsNothing'
    BY <2>2 DEF Finalize, ScheduleFails, TypeOK, DrainInv, StopAbandonsNothing
  <2>3. ASSUME NEW r \in Requests, Insert(r)
        PROVE  DrainInv' /\ StopAbandonsNothing'
    <3>1. Recorded(r)
      BY <2>3 DEF Insert, InsertOk, InsertFails
    <3> QED
      BY <3>1 DEF Recorded, TypeOK, DrainInv, StopAbandonsNothing
  <2>4. CASE Gather
    BY <2>4 DEF Gather, NoRequestOpen, AuditTasks, TypeOK, DrainInv, StopAbandonsNothing
  <2>5. CASE Stop
    <3>1. \A r \in Requests : phase[r] \notin {"sent", "inserting"}
      BY <2>5 DEF Stop, DrainInv
    <3> QED
      BY <2>5, <3>1 DEF Stop, TypeOK, DrainInv, StopAbandonsNothing
  <2>6. CASE Crash
    BY <2>6 DEF Crash, TypeOK, DrainInv, StopAbandonsNothing
  <2>7. CASE BeginShutdown \/ Restart
    BY <2>7 DEF BeginShutdown, Restart, DrainInv, StopAbandonsNothing
  <2>8. CASE UNCHANGED recordVars
    BY <2>8 DEF recordVars, DrainInv, StopAbandonsNothing
  <2>9. ASSUME NEW p \in Replays, StartReplay(p) \/ ReplayStep(p)
        PROVE  UNCHANGED recordVars
    BY <2>9 DEF StartReplay, ReplayNothing, ReplayUnavailable, TakeSnapshot,
       TakeSnapshotUnreadable, ReplayStep, ReplayLine, ReplayLineFails,
       ReplayCancelled, ReplayEnds, QuarantineFails, Unlink
  <2> QED
    BY <2>1, <2>2, <2>3, <2>4, <2>5, <2>6, <2>7, <2>8, <2>9 DEF Next, vars
<1> QED
  BY <1>1, <1>2, TypeCorrect, PTL DEF Spec
=============================================================================
