------------------------ MODULE ReportGenerationProofs ------------------------
(***************************************************************************)
(* Report generation for any number of requests, restarts and failures.    *)
(* The registry entry always has a live thread, whoever's process it names; *)
(* and as long as requests neither raced, failed nor cancelled, the entry  *)
(* works as the lock it is meant to be.                                    *)
(***************************************************************************)
EXTENDS ReportGeneration, FiniteSetTheorems, TLAPS

Shown == {"generating", "done", "error"}

(* A report was written by a job that has left its thread's last write     *)
(* behind, and whose process had ended well: nothing changes that.         *)
Genuine ==
    row.status = "done" =>
        row.by \in Jobs /\ process[row.by] = "good" /\ pc[row.by] \in {"pop", "ended"}

(* A DELETE that works on the campaign has taken an entry. *)
DeletesCancel == \A d \in Cancels : deleting[d] \in {"kill", "hide", "delete"} => cancelled # {}

(* While nothing is upset or cancelled, the registry is a lock: the one    *)
(* job that runs is the one it names,                                      *)
OneJob ==
    /\ \A j \in Jobs : pc[j] \in Running \ {"register"} => entry # None /\ entry.job = j
    /\ \A i, j \in Jobs : pc[i] = "register" /\ pc[j] \in Running => entry = None /\ i = j

(* only that job's process runs, while its thread waits for it,            *)
ProcessWatched == \A j \in Jobs : process[j] = "running" => pc[j] \in {"expose", "wait"}

(* and the row is there from the first job on, before its entry goes.      *)
RowWritten ==
    /\ accepted => row.status \in Shown \/ \E j \in Jobs : pc[j] = "mark"
    /\ \A g \in Gets : since[g] =>
          /\ getting[g] = "read" => row.status \in Shown
          /\ getting[g] # "not_found"

Calm == ~ upset /\ cancelled = {}

CalmInv == OneJob /\ ProcessWatched /\ RowWritten

IInv == TypeOK /\ RegistryNeverLeaks /\ Genuine /\ DeletesCancel /\ (Calm => CalmInv)

-----------------------------------------------------------------------------
LEMMA InitIInv == Init => IInv
  <1> SUFFICES ASSUME Init PROVE IInv
    OBVIOUS
  <1>1. TypeOK
    BY RGAssumption DEF Init, Row, TypeOK
  <1>2. RegistryNeverLeaks /\ Genuine /\ DeletesCancel
    BY DEF Init, Row, RegistryNeverLeaks, Genuine, DeletesCancel
  <1>3. CalmInv
    BY DEF Init, Running, CalmInv, OneJob, ProcessWatched, RowWritten
  <1> QED
    BY <1>1, <1>2, <1>3 DEF IInv

LEMMA TypeKept ==
  ASSUME TypeOK, [Next]_vars
  PROVE  TypeOK'
  <1> USE RGAssumption DEF posts, reads, deletes
  <1>1. CASE UNCHANGED vars
    BY <1>1 DEF vars, TypeOK, Running
  <1>2. ASSUME NEW j \in Jobs, Post(j) \/ Thread(j) \/ Exit(j)
        PROVE  TypeOK'
    <2>1. CASE CheckRegistry(j)
      BY <2>1 DEF CheckRegistry, Goto, TypeOK, Running
    <2>2. CASE Register(j)
      BY <2>2 DEF Register, Goto, Entry, TypeOK, Running
    <2>3. CASE Start(j)
      BY <2>3 DEF Start, Goto, TypeOK, Running
    <2>4. CASE Mark(j)
      BY <2>4 DEF Mark, Goto, Row, TypeOK, Running
    <2>5. CASE Spawn(j)
      BY <2>5 DEF Spawn, Goto, TypeOK, Running
    <2>6. CASE Expose(j)
      BY <2>6 DEF Expose, Goto, Entry, TypeOK, Running
    <2>7. CASE Exit(j)
      BY <2>7 DEF Exit, TypeOK, Running
    <2>8. CASE Communicate(j)
      BY <2>8 DEF Communicate, Goto, TypeOK, Running
    <2>9. CASE Timeout(j)
      BY <2>9 DEF Timeout, Goto, Kill, TypeOK, Running
    <2>10. CASE WriteTimeout(j)
      BY <2>10 DEF WriteTimeout, Goto, Row, TypeOK, Running
    <2>11. CASE CheckCancelled(j)
      BY <2>11 DEF CheckCancelled, Goto, TypeOK, Running
    <2>12. CASE WriteReport(j)
      BY <2>12 DEF WriteReport, Goto, Row, TypeOK, Running
    <2>13. CASE WriteException(j)
      BY <2>13 DEF WriteException, Goto, Row, TypeOK, Running
    <2>14. CASE WriteFails(j)
      BY <2>14 DEF WriteFails, Goto, TypeOK, Running
    <2>15. CASE Pop(j)
      BY <2>15 DEF Pop, Goto, TypeOK, Running
    <2> QED
      BY <1>2, <2>1, <2>2, <2>3, <2>4, <2>5, <2>6, <2>7, <2>8, <2>9, <2>10, <2>11, <2>12, <2>13,
         <2>14, <2>15
         DEF Post, Thread
  <1>3. ASSUME NEW g \in Gets, Get(g)
        PROVE  TypeOK'
    <2>1. CASE ReadRegistry(g)
      BY <2>1 DEF ReadRegistry, TypeOK, Running
    <2>2. CASE ReadReport(g)
      BY <2>2 DEF ReadReport, TypeOK, Running
    <2> QED
      BY <1>3, <2>1, <2>2 DEF Get
  <1>4. ASSUME NEW d \in Cancels, Delete(d)
        PROVE  TypeOK'
    <2>1. CASE Unregister(d)
      BY <2>1 DEF Unregister, TypeOK, Running
    <2>2. CASE KillProcess(d)
      BY <2>2 DEF KillProcess, Kill, TypeOK, Running
    <2>3. CASE HideReport(d)
      BY <2>3 DEF HideReport, Row, TypeOK, Running
    <2>4. CASE DeleteReport(d)
      BY <2>4 DEF DeleteReport, Row, TypeOK, Running
    <2>5. CASE DeleteFails(d)
      BY <2>5 DEF DeleteFails, TypeOK, Running
    <2> QED
      BY <1>4, <2>1, <2>2, <2>3, <2>4, <2>5 DEF Delete
  <1>5. CASE Restart
    BY <1>5 DEF Restart, TypeOK, Running
  <1> QED
    BY <1>1, <1>2, <1>3, <1>4, <1>5 DEF Next

(* Whoever races, fails or restarts, the thread of the entry stays alive.  *)
LEMMA RegistryKept ==
  ASSUME TypeOK, RegistryNeverLeaks, [Next]_vars
  PROVE  RegistryNeverLeaks'
  <1> USE RGAssumption DEF posts, reads, deletes
  <1>1. CASE UNCHANGED vars
    BY <1>1 DEF vars, TypeOK, RegistryNeverLeaks, Running
  <1>2. ASSUME NEW j \in Jobs, Post(j) \/ Thread(j) \/ Exit(j)
        PROVE  RegistryNeverLeaks'
    <2>1. CASE CheckRegistry(j)
      BY <2>1 DEF CheckRegistry, Goto, TypeOK, RegistryNeverLeaks, Running
    <2>2. CASE Register(j)
      BY <2>2 DEF Register, Goto, Entry, TypeOK, RegistryNeverLeaks, Running
    <2>3. CASE Start(j)
      BY <2>3 DEF Start, Goto, TypeOK, RegistryNeverLeaks, Running
    <2>4. CASE Mark(j)
      BY <2>4 DEF Mark, Goto, Row, TypeOK, RegistryNeverLeaks, Running
    <2>5. CASE Spawn(j)
      BY <2>5 DEF Spawn, Goto, TypeOK, RegistryNeverLeaks, Running
    <2>6. CASE Expose(j)
      BY <2>6 DEF Expose, Goto, Entry, TypeOK, RegistryNeverLeaks, Running
    <2>7. CASE Exit(j)
      BY <2>7 DEF Exit, TypeOK, RegistryNeverLeaks, Running
    <2>8. CASE Communicate(j)
      BY <2>8 DEF Communicate, Goto, TypeOK, RegistryNeverLeaks, Running
    <2>9. CASE Timeout(j)
      BY <2>9 DEF Timeout, Goto, Kill, TypeOK, RegistryNeverLeaks, Running
    <2>10. CASE WriteTimeout(j)
      BY <2>10 DEF WriteTimeout, Goto, Row, TypeOK, RegistryNeverLeaks, Running
    <2>11. CASE CheckCancelled(j)
      BY <2>11 DEF CheckCancelled, Goto, TypeOK, RegistryNeverLeaks, Running
    <2>12. CASE WriteReport(j)
      BY <2>12 DEF WriteReport, Goto, Row, TypeOK, RegistryNeverLeaks, Running
    <2>13. CASE WriteException(j)
      BY <2>13 DEF WriteException, Goto, Row, TypeOK, RegistryNeverLeaks, Running
    <2>14. CASE WriteFails(j)
      BY <2>14 DEF WriteFails, Goto, TypeOK, RegistryNeverLeaks, Running
    <2>15. CASE Pop(j)
      BY <2>15 DEF Pop, Goto, TypeOK, RegistryNeverLeaks, Running
    <2> QED
      BY <1>2, <2>1, <2>2, <2>3, <2>4, <2>5, <2>6, <2>7, <2>8, <2>9, <2>10, <2>11, <2>12, <2>13,
         <2>14, <2>15
         DEF Post, Thread
  <1>3. ASSUME NEW g \in Gets, Get(g)
        PROVE  RegistryNeverLeaks'
    <2>1. CASE ReadRegistry(g)
      BY <2>1 DEF ReadRegistry, TypeOK, RegistryNeverLeaks, Running
    <2>2. CASE ReadReport(g)
      BY <2>2 DEF ReadReport, TypeOK, RegistryNeverLeaks, Running
    <2> QED
      BY <1>3, <2>1, <2>2 DEF Get
  <1>4. ASSUME NEW d \in Cancels, Delete(d)
        PROVE  RegistryNeverLeaks'
    <2>1. CASE Unregister(d)
      BY <2>1 DEF Unregister, TypeOK, RegistryNeverLeaks, Running
    <2>2. CASE KillProcess(d)
      BY <2>2 DEF KillProcess, Kill, TypeOK, RegistryNeverLeaks, Running
    <2>3. CASE HideReport(d)
      BY <2>3 DEF HideReport, Row, TypeOK, RegistryNeverLeaks, Running
    <2>4. CASE DeleteReport(d)
      BY <2>4 DEF DeleteReport, Row, TypeOK, RegistryNeverLeaks, Running
    <2>5. CASE DeleteFails(d)
      BY <2>5 DEF DeleteFails, TypeOK, RegistryNeverLeaks, Running
    <2> QED
      BY <1>4, <2>1, <2>2, <2>3, <2>4, <2>5 DEF Delete
  <1>5. CASE Restart
    BY <1>5 DEF Restart, TypeOK, RegistryNeverLeaks, Running
  <1> QED
    BY <1>1, <1>2, <1>3, <1>4, <1>5 DEF Next

LEMMA GenuineKept ==
  ASSUME TypeOK, Genuine, [Next]_vars
  PROVE  Genuine'
  <1> USE RGAssumption DEF posts, reads, deletes
  <1>1. CASE UNCHANGED vars
    BY <1>1 DEF vars, TypeOK, Genuine
  <1>2. ASSUME NEW j \in Jobs, Post(j) \/ Thread(j) \/ Exit(j)
        PROVE  Genuine'
    <2>1. CASE CheckRegistry(j)
      BY <2>1 DEF CheckRegistry, Goto, TypeOK, Genuine
    <2>2. CASE Register(j)
      BY <2>2 DEF Register, Goto, Entry, TypeOK, Genuine
    <2>3. CASE Start(j)
      BY <2>3 DEF Start, Goto, TypeOK, Genuine
    <2>4. CASE Mark(j)
      BY <2>4 DEF Mark, Goto, Row, TypeOK, Genuine
    <2>5. CASE Spawn(j)
      BY <2>5 DEF Spawn, Goto, TypeOK, Genuine
    <2>6. CASE Expose(j)
      BY <2>6 DEF Expose, Goto, Entry, TypeOK, Genuine
    <2>7. CASE Exit(j)
      BY <2>7 DEF Exit, TypeOK, Genuine
    <2>8. CASE Communicate(j)
      BY <2>8 DEF Communicate, Goto, TypeOK, Genuine
    <2>9. CASE Timeout(j)
      BY <2>9 DEF Timeout, Goto, Kill, TypeOK, Genuine
    <2>10. CASE WriteTimeout(j)
      BY <2>10 DEF WriteTimeout, Goto, Row, TypeOK, Genuine
    <2>11. CASE CheckCancelled(j)
      BY <2>11 DEF CheckCancelled, Goto, TypeOK, Genuine
    <2>12. CASE WriteReport(j)
      BY <2>12 DEF WriteReport, Goto, Row, TypeOK, Genuine
    <2>13. CASE WriteException(j)
      BY <2>13 DEF WriteException, Goto, Row, TypeOK, Genuine
    <2>14. CASE WriteFails(j)
      BY <2>14 DEF WriteFails, Goto, TypeOK, Genuine
    <2>15. CASE Pop(j)
      BY <2>15 DEF Pop, Goto, TypeOK, Genuine
    <2> QED
      BY <1>2, <2>1, <2>2, <2>3, <2>4, <2>5, <2>6, <2>7, <2>8, <2>9, <2>10, <2>11, <2>12, <2>13,
         <2>14, <2>15
         DEF Post, Thread
  <1>3. ASSUME NEW g \in Gets, Get(g)
        PROVE  Genuine'
    <2>1. CASE ReadRegistry(g)
      BY <2>1 DEF ReadRegistry, TypeOK, Genuine
    <2>2. CASE ReadReport(g)
      BY <2>2 DEF ReadReport, TypeOK, Genuine
    <2> QED
      BY <1>3, <2>1, <2>2 DEF Get
  <1>4. ASSUME NEW d \in Cancels, Delete(d)
        PROVE  Genuine'
    <2>1. CASE Unregister(d)
      BY <2>1 DEF Unregister, TypeOK, Genuine
    <2>2. CASE KillProcess(d)
      BY <2>2 DEF KillProcess, Kill, TypeOK, Genuine
    <2>3. CASE HideReport(d)
      BY <2>3 DEF HideReport, Row, TypeOK, Genuine
    <2>4. CASE DeleteReport(d)
      BY <2>4 DEF DeleteReport, Row, TypeOK, Genuine
    <2>5. CASE DeleteFails(d)
      BY <2>5 DEF DeleteFails, TypeOK, Genuine
    <2> QED
      BY <1>4, <2>1, <2>2, <2>3, <2>4, <2>5 DEF Delete
  <1>5. CASE Restart
    BY <1>5 DEF Restart, TypeOK, Genuine
  <1> QED
    BY <1>1, <1>2, <1>3, <1>4, <1>5 DEF Next

LEMMA DeletesKept ==
  ASSUME TypeOK, DeletesCancel, [Next]_vars
  PROVE  DeletesCancel'
  <1> USE RGAssumption DEF posts, reads, deletes
  <1>1. CASE UNCHANGED vars
    BY <1>1 DEF vars, TypeOK, DeletesCancel
  <1>2. ASSUME NEW j \in Jobs, Post(j) \/ Thread(j) \/ Exit(j)
        PROVE  DeletesCancel'
    <2>1. CASE CheckRegistry(j)
      BY <2>1 DEF CheckRegistry, Goto, TypeOK, DeletesCancel
    <2>2. CASE Register(j)
      BY <2>2 DEF Register, Goto, Entry, TypeOK, DeletesCancel
    <2>3. CASE Start(j)
      BY <2>3 DEF Start, Goto, TypeOK, DeletesCancel
    <2>4. CASE Mark(j)
      BY <2>4 DEF Mark, Goto, Row, TypeOK, DeletesCancel
    <2>5. CASE Spawn(j)
      BY <2>5 DEF Spawn, Goto, TypeOK, DeletesCancel
    <2>6. CASE Expose(j)
      BY <2>6 DEF Expose, Goto, Entry, TypeOK, DeletesCancel
    <2>7. CASE Exit(j)
      BY <2>7 DEF Exit, TypeOK, DeletesCancel
    <2>8. CASE Communicate(j)
      BY <2>8 DEF Communicate, Goto, TypeOK, DeletesCancel
    <2>9. CASE Timeout(j)
      BY <2>9 DEF Timeout, Goto, Kill, TypeOK, DeletesCancel
    <2>10. CASE WriteTimeout(j)
      BY <2>10 DEF WriteTimeout, Goto, Row, TypeOK, DeletesCancel
    <2>11. CASE CheckCancelled(j)
      BY <2>11 DEF CheckCancelled, Goto, TypeOK, DeletesCancel
    <2>12. CASE WriteReport(j)
      BY <2>12 DEF WriteReport, Goto, Row, TypeOK, DeletesCancel
    <2>13. CASE WriteException(j)
      BY <2>13 DEF WriteException, Goto, Row, TypeOK, DeletesCancel
    <2>14. CASE WriteFails(j)
      BY <2>14 DEF WriteFails, Goto, TypeOK, DeletesCancel
    <2>15. CASE Pop(j)
      BY <2>15 DEF Pop, Goto, TypeOK, DeletesCancel
    <2> QED
      BY <1>2, <2>1, <2>2, <2>3, <2>4, <2>5, <2>6, <2>7, <2>8, <2>9, <2>10, <2>11, <2>12, <2>13,
         <2>14, <2>15
         DEF Post, Thread
  <1>3. ASSUME NEW g \in Gets, Get(g)
        PROVE  DeletesCancel'
    <2>1. CASE ReadRegistry(g)
      BY <2>1 DEF ReadRegistry, TypeOK, DeletesCancel
    <2>2. CASE ReadReport(g)
      BY <2>2 DEF ReadReport, TypeOK, DeletesCancel
    <2> QED
      BY <1>3, <2>1, <2>2 DEF Get
  <1>4. ASSUME NEW d \in Cancels, Delete(d)
        PROVE  DeletesCancel'
    <2>1. CASE Unregister(d)
      BY <2>1 DEF Unregister, TypeOK, DeletesCancel
    <2>2. CASE KillProcess(d)
      BY <2>2 DEF KillProcess, Kill, TypeOK, DeletesCancel
    <2>3. CASE HideReport(d)
      BY <2>3 DEF HideReport, Row, TypeOK, DeletesCancel
    <2>4. CASE DeleteReport(d)
      BY <2>4 DEF DeleteReport, Row, TypeOK, DeletesCancel
    <2>5. CASE DeleteFails(d)
      BY <2>5 DEF DeleteFails, TypeOK, DeletesCancel
    <2> QED
      BY <1>4, <2>1, <2>2, <2>3, <2>4, <2>5 DEF Delete
  <1>5. CASE Restart
    BY <1>5 DEF Restart, TypeOK, DeletesCancel
  <1> QED
    BY <1>1, <1>2, <1>3, <1>4, <1>5 DEF Next

-----------------------------------------------------------------------------
(* The lock. *)

LEMMA OneJobKept ==
  ASSUME TypeOK, Calm, Calm', OneJob, [Next]_vars
  PROVE  OneJob'
  <1> USE RGAssumption DEF posts, reads, deletes
  <1>1. CASE UNCHANGED vars
    BY <1>1 DEF vars, TypeOK, Calm, OneJob, Running
  <1>2. ASSUME NEW j \in Jobs, Post(j) \/ Thread(j) \/ Exit(j)
        PROVE  OneJob'
    <2>1. CASE CheckRegistry(j)
      <3>1. entry' = entry /\ \A i \in Jobs \ {j} : pc'[i] = pc[i]
        BY <2>1 DEF CheckRegistry, Goto, TypeOK
      <3>2. CASE entry = None
        <4>1. pc[j] = "free" /\ pc'[j] = "register"
          BY <2>1, <3>2 DEF CheckRegistry, Goto, TypeOK
        <4>2. ~ \E i \in Jobs : pc[i] = "register"
          BY <2>1, <3>2 DEF CheckRegistry, Calm
        <4>3. \A i \in Jobs : pc[i] \notin Running
          BY <3>2, <4>2 DEF OneJob
        <4> QED
          BY <3>1, <3>2, <4>1, <4>3 DEF OneJob, Running
      <3>3. CASE entry # None
        <4>1. pc'[j] = "ended"
          BY <2>1, <3>3 DEF CheckRegistry, Goto, TypeOK
        <4> QED
          BY <3>1, <4>1 DEF OneJob, Running
      <3> QED
        BY <3>2, <3>3
    <2>2. CASE Register(j)
      BY <2>2 DEF Register, Goto, Entry, TypeOK, Calm, OneJob, Running
    <2>3. CASE Start(j)
      BY <2>3 DEF Start, Goto, TypeOK, Calm, OneJob, Running
    <2>4. CASE Mark(j)
      BY <2>4 DEF Mark, Goto, Row, TypeOK, Calm, OneJob, Running
    <2>5. CASE Spawn(j)
      BY <2>5 DEF Spawn, Goto, TypeOK, Calm, OneJob, Running
    <2>6. CASE Expose(j)
      BY <2>6 DEF Expose, Goto, Entry, TypeOK, Calm, OneJob, Running
    <2>7. CASE Exit(j)
      BY <2>7 DEF Exit, TypeOK, Calm, OneJob, Running
    <2>8. CASE Communicate(j)
      BY <2>8 DEF Communicate, Goto, TypeOK, Calm, OneJob, Running
    <2>9. CASE Timeout(j)
      BY <2>9 DEF Timeout, Goto, Kill, TypeOK, Calm, OneJob, Running
    <2>10. CASE WriteTimeout(j)
      BY <2>10 DEF WriteTimeout, Goto, Row, TypeOK, Calm, OneJob, Running
    <2>11. CASE CheckCancelled(j)
      BY <2>11 DEF CheckCancelled, Goto, TypeOK, Calm, OneJob, Running
    <2>12. CASE WriteReport(j)
      BY <2>12 DEF WriteReport, Goto, Row, TypeOK, Calm, OneJob, Running
    <2>13. CASE WriteException(j)
      BY <2>13 DEF WriteException, Goto, Row, TypeOK, Calm, OneJob, Running
    <2>14. CASE WriteFails(j)
      BY <2>14 DEF WriteFails, Goto, TypeOK, Calm, OneJob, Running
    <2>15. CASE Pop(j)
      BY <2>15 DEF Pop, Goto, TypeOK, Calm, OneJob, Running
    <2> QED
      BY <1>2, <2>1, <2>2, <2>3, <2>4, <2>5, <2>6, <2>7, <2>8, <2>9, <2>10, <2>11, <2>12, <2>13,
         <2>14, <2>15
         DEF Post, Thread
  <1>3. ASSUME NEW g \in Gets, Get(g)
        PROVE  OneJob'
    <2>1. CASE ReadRegistry(g)
      BY <2>1 DEF ReadRegistry, TypeOK, Calm, OneJob, Running
    <2>2. CASE ReadReport(g)
      BY <2>2 DEF ReadReport, TypeOK, Calm, OneJob, Running
    <2> QED
      BY <1>3, <2>1, <2>2 DEF Get
  <1>4. ASSUME NEW d \in Cancels, Delete(d)
        PROVE  OneJob'
    <2>1. CASE Unregister(d)
      BY <2>1 DEF Unregister, TypeOK, Calm, OneJob, Running
    <2>2. CASE KillProcess(d)
      BY <2>2 DEF KillProcess, Kill, TypeOK, Calm, OneJob, Running
    <2>3. CASE HideReport(d)
      BY <2>3 DEF HideReport, Row, TypeOK, Calm, OneJob, Running
    <2>4. CASE DeleteReport(d)
      BY <2>4 DEF DeleteReport, Row, TypeOK, Calm, OneJob, Running
    <2>5. CASE DeleteFails(d)
      BY <2>5 DEF DeleteFails, TypeOK, Calm, OneJob, Running
    <2> QED
      BY <1>4, <2>1, <2>2, <2>3, <2>4, <2>5 DEF Delete
  <1>5. CASE Restart
    BY <1>5 DEF Restart, TypeOK, Calm, OneJob, Running
  <1> QED
    BY <1>1, <1>2, <1>3, <1>4, <1>5 DEF Next

LEMMA WatchedKept ==
  ASSUME TypeOK, Calm, Calm', ProcessWatched, [Next]_vars
  PROVE  ProcessWatched'
  <1> USE RGAssumption DEF posts, reads, deletes
  <1>1. CASE UNCHANGED vars
    BY <1>1 DEF vars, TypeOK, Calm, ProcessWatched
  <1>2. ASSUME NEW j \in Jobs, Post(j) \/ Thread(j) \/ Exit(j)
        PROVE  ProcessWatched'
    <2>1. CASE CheckRegistry(j)
      BY <2>1 DEF CheckRegistry, Goto, TypeOK, Calm, ProcessWatched
    <2>2. CASE Register(j)
      BY <2>2 DEF Register, Goto, Entry, TypeOK, Calm, ProcessWatched
    <2>3. CASE Start(j)
      BY <2>3 DEF Start, Goto, TypeOK, Calm, ProcessWatched
    <2>4. CASE Mark(j)
      BY <2>4 DEF Mark, Goto, Row, TypeOK, Calm, ProcessWatched
    <2>5. CASE Spawn(j)
      BY <2>5 DEF Spawn, Goto, TypeOK, Calm, ProcessWatched
    <2>6. CASE Expose(j)
      BY <2>6 DEF Expose, Goto, Entry, TypeOK, Calm, ProcessWatched
    <2>7. CASE Exit(j)
      BY <2>7 DEF Exit, TypeOK, Calm, ProcessWatched
    <2>8. CASE Communicate(j)
      BY <2>8 DEF Communicate, Goto, TypeOK, Calm, ProcessWatched
    <2>9. CASE Timeout(j)
      BY <2>9 DEF Timeout, Goto, Kill, TypeOK, Calm, ProcessWatched
    <2>10. CASE WriteTimeout(j)
      BY <2>10 DEF WriteTimeout, Goto, Row, TypeOK, Calm, ProcessWatched
    <2>11. CASE CheckCancelled(j)
      BY <2>11 DEF CheckCancelled, Goto, TypeOK, Calm, ProcessWatched
    <2>12. CASE WriteReport(j)
      BY <2>12 DEF WriteReport, Goto, Row, TypeOK, Calm, ProcessWatched
    <2>13. CASE WriteException(j)
      BY <2>13 DEF WriteException, Goto, Row, TypeOK, Calm, ProcessWatched
    <2>14. CASE WriteFails(j)
      BY <2>14 DEF WriteFails, Goto, TypeOK, Calm, ProcessWatched
    <2>15. CASE Pop(j)
      BY <2>15 DEF Pop, Goto, TypeOK, Calm, ProcessWatched
    <2> QED
      BY <1>2, <2>1, <2>2, <2>3, <2>4, <2>5, <2>6, <2>7, <2>8, <2>9, <2>10, <2>11, <2>12, <2>13,
         <2>14, <2>15
         DEF Post, Thread
  <1>3. ASSUME NEW g \in Gets, Get(g)
        PROVE  ProcessWatched'
    <2>1. CASE ReadRegistry(g)
      BY <2>1 DEF ReadRegistry, TypeOK, Calm, ProcessWatched
    <2>2. CASE ReadReport(g)
      BY <2>2 DEF ReadReport, TypeOK, Calm, ProcessWatched
    <2> QED
      BY <1>3, <2>1, <2>2 DEF Get
  <1>4. ASSUME NEW d \in Cancels, Delete(d)
        PROVE  ProcessWatched'
    <2>1. CASE Unregister(d)
      BY <2>1 DEF Unregister, TypeOK, Calm, ProcessWatched
    <2>2. CASE KillProcess(d)
      BY <2>2 DEF KillProcess, Kill, TypeOK, Calm, ProcessWatched
    <2>3. CASE HideReport(d)
      BY <2>3 DEF HideReport, Row, TypeOK, Calm, ProcessWatched
    <2>4. CASE DeleteReport(d)
      BY <2>4 DEF DeleteReport, Row, TypeOK, Calm, ProcessWatched
    <2>5. CASE DeleteFails(d)
      BY <2>5 DEF DeleteFails, TypeOK, Calm, ProcessWatched
    <2> QED
      BY <1>4, <2>1, <2>2, <2>3, <2>4, <2>5 DEF Delete
  <1>5. CASE Restart
    BY <1>5 DEF Restart, TypeOK, Calm, ProcessWatched
  <1> QED
    BY <1>1, <1>2, <1>3, <1>4, <1>5 DEF Next

LEMMA RowKept ==
  ASSUME TypeOK, Calm, Calm', OneJob, DeletesCancel, RowWritten, [Next]_vars
  PROVE  RowWritten'
  <1> USE RGAssumption DEF posts, reads, deletes
  <1>1. CASE UNCHANGED vars
    BY <1>1 DEF vars, TypeOK, Calm, OneJob, DeletesCancel, RowWritten, Running, Shown
  <1>2. ASSUME NEW j \in Jobs, Post(j) \/ Thread(j) \/ Exit(j)
        PROVE  RowWritten'
    <2>1. CASE CheckRegistry(j)
      BY <2>1
         DEF CheckRegistry, Goto, TypeOK, Calm, OneJob, DeletesCancel, RowWritten, Running, Shown
    <2>2. CASE Register(j)
      BY <2>2
         DEF Register, Goto, Entry, TypeOK, Calm, OneJob, DeletesCancel, RowWritten, Running, Shown
    <2>3. CASE Start(j)
      BY <2>3 DEF Start, Goto, TypeOK, Calm, OneJob, DeletesCancel, RowWritten, Running, Shown
    <2>4. CASE Mark(j)
      BY <2>4 DEF Mark, Goto, Row, TypeOK, Calm, OneJob, DeletesCancel, RowWritten, Running, Shown
    <2>5. CASE Spawn(j)
      BY <2>5 DEF Spawn, Goto, TypeOK, Calm, OneJob, DeletesCancel, RowWritten, Running, Shown
    <2>6. CASE Expose(j)
      BY <2>6
         DEF Expose, Goto, Entry, TypeOK, Calm, OneJob, DeletesCancel, RowWritten, Running, Shown
    <2>7. CASE Exit(j)
      BY <2>7 DEF Exit, TypeOK, Calm, OneJob, DeletesCancel, RowWritten, Running, Shown
    <2>8. CASE Communicate(j)
      BY <2>8 DEF Communicate, Goto, TypeOK, Calm, OneJob, DeletesCancel, RowWritten, Running, Shown
    <2>9. CASE Timeout(j)
      BY <2>9
         DEF Timeout, Goto, Kill, TypeOK, Calm, OneJob, DeletesCancel, RowWritten, Running, Shown
    <2>10. CASE WriteTimeout(j)
      BY <2>10
         DEF WriteTimeout, Goto, Row, TypeOK, Calm, OneJob, DeletesCancel, RowWritten, Running,
             Shown
    <2>11. CASE CheckCancelled(j)
      BY <2>11
         DEF CheckCancelled, Goto, TypeOK, Calm, OneJob, DeletesCancel, RowWritten, Running, Shown
    <2>12. CASE WriteReport(j)
      BY <2>12
         DEF WriteReport, Goto, Row, TypeOK, Calm, OneJob, DeletesCancel, RowWritten, Running, Shown
    <2>13. CASE WriteException(j)
      BY <2>13
         DEF WriteException, Goto, Row, TypeOK, Calm, OneJob, DeletesCancel, RowWritten, Running,
             Shown
    <2>14. CASE WriteFails(j)
      BY <2>14 DEF WriteFails, Goto, TypeOK, Calm, OneJob, DeletesCancel, RowWritten, Running, Shown
    <2>15. CASE Pop(j)
      BY <2>15 DEF Pop, Goto, TypeOK, Calm, OneJob, DeletesCancel, RowWritten, Running, Shown
    <2> QED
      BY <1>2, <2>1, <2>2, <2>3, <2>4, <2>5, <2>6, <2>7, <2>8, <2>9, <2>10, <2>11, <2>12, <2>13,
         <2>14, <2>15
         DEF Post, Thread
  <1>3. ASSUME NEW g \in Gets, Get(g)
        PROVE  RowWritten'
    <2>1. CASE ReadRegistry(g)
      BY <2>1 DEF ReadRegistry, TypeOK, Calm, OneJob, DeletesCancel, RowWritten, Running, Shown
    <2>2. CASE ReadReport(g)
      BY <2>2 DEF ReadReport, TypeOK, Calm, OneJob, DeletesCancel, RowWritten, Running, Shown
    <2> QED
      BY <1>3, <2>1, <2>2 DEF Get
  <1>4. ASSUME NEW d \in Cancels, Delete(d)
        PROVE  RowWritten'
    <2>1. CASE Unregister(d)
      BY <2>1 DEF Unregister, TypeOK, Calm, OneJob, DeletesCancel, RowWritten, Running, Shown
    <2>2. CASE KillProcess(d)
      BY <2>2 DEF KillProcess, Kill, TypeOK, Calm, OneJob, DeletesCancel, RowWritten, Running, Shown
    <2>3. CASE HideReport(d)
      BY <2>3 DEF HideReport, Row, TypeOK, Calm, OneJob, DeletesCancel, RowWritten, Running, Shown
    <2>4. CASE DeleteReport(d)
      BY <2>4 DEF DeleteReport, Row, TypeOK, Calm, OneJob, DeletesCancel, RowWritten, Running, Shown
    <2>5. CASE DeleteFails(d)
      BY <2>5 DEF DeleteFails, TypeOK, Calm, OneJob, DeletesCancel, RowWritten, Running, Shown
    <2> QED
      BY <1>4, <2>1, <2>2, <2>3, <2>4, <2>5 DEF Delete
  <1>5. CASE Restart
    BY <1>5 DEF Restart, TypeOK, Calm, OneJob, DeletesCancel, RowWritten, Running, Shown
  <1> QED
    BY <1>1, <1>2, <1>3, <1>4, <1>5 DEF Next

(* What upset the requests, or cancelled a job, is not forgotten.          *)
LEMMA CalmBefore ==
  ASSUME TypeOK, [Next]_vars, Calm'
  PROVE  Calm
  <1> USE RGAssumption DEF posts, reads, deletes
  <1>1. CASE UNCHANGED vars
    BY <1>1 DEF vars, Calm
  <1>2. ASSUME NEW j \in Jobs, Post(j) \/ Thread(j) \/ Exit(j)
        PROVE  Calm
    <2>1. CASE CheckRegistry(j)
      BY <2>1 DEF CheckRegistry, Goto, Calm
    <2>2. CASE Register(j)
      BY <2>2 DEF Register, Goto, Entry, Calm
    <2>3. CASE Start(j)
      BY <2>3 DEF Start, Goto, Calm
    <2>4. CASE Mark(j)
      BY <2>4 DEF Mark, Goto, Row, Calm
    <2>5. CASE Spawn(j)
      BY <2>5 DEF Spawn, Goto, Calm
    <2>6. CASE Expose(j)
      BY <2>6 DEF Expose, Goto, Entry, Calm
    <2>7. CASE Exit(j)
      BY <2>7 DEF Exit, Calm
    <2>8. CASE Communicate(j)
      BY <2>8 DEF Communicate, Goto, Calm
    <2>9. CASE Timeout(j)
      BY <2>9 DEF Timeout, Goto, Kill, Calm
    <2>10. CASE WriteTimeout(j)
      BY <2>10 DEF WriteTimeout, Goto, Row, Calm
    <2>11. CASE CheckCancelled(j)
      BY <2>11 DEF CheckCancelled, Goto, Calm
    <2>12. CASE WriteReport(j)
      BY <2>12 DEF WriteReport, Goto, Row, Calm
    <2>13. CASE WriteException(j)
      BY <2>13 DEF WriteException, Goto, Row, Calm
    <2>14. CASE WriteFails(j)
      BY <2>14 DEF WriteFails, Goto, Calm
    <2>15. CASE Pop(j)
      BY <2>15 DEF Pop, Goto, Calm
    <2> QED
      BY <1>2, <2>1, <2>2, <2>3, <2>4, <2>5, <2>6, <2>7, <2>8, <2>9, <2>10, <2>11, <2>12, <2>13,
         <2>14, <2>15
         DEF Post, Thread
  <1>3. ASSUME NEW g \in Gets, Get(g)
        PROVE  Calm
    <2>1. CASE ReadRegistry(g)
      BY <2>1 DEF ReadRegistry, Calm
    <2>2. CASE ReadReport(g)
      BY <2>2 DEF ReadReport, Calm
    <2> QED
      BY <1>3, <2>1, <2>2 DEF Get
  <1>4. ASSUME NEW d \in Cancels, Delete(d)
        PROVE  Calm
    <2>1. CASE Unregister(d)
      BY <2>1 DEF Unregister, Calm
    <2>2. CASE KillProcess(d)
      BY <2>2 DEF KillProcess, Kill, Calm
    <2>3. CASE HideReport(d)
      BY <2>3 DEF HideReport, Row, Calm
    <2>4. CASE DeleteReport(d)
      BY <2>4 DEF DeleteReport, Row, Calm
    <2>5. CASE DeleteFails(d)
      BY <2>5 DEF DeleteFails, Calm
    <2> QED
      BY <1>4, <2>1, <2>2, <2>3, <2>4, <2>5 DEF Delete
  <1>5. CASE Restart
    BY <1>5 DEF Restart, Calm
  <1> QED
    BY <1>1, <1>2, <1>3, <1>4, <1>5 DEF Next

LEMMA Inductive == IInv /\ [Next]_vars => IInv'
  BY TypeKept, RegistryKept, GenuineKept, DeletesKept, OneJobKept, WatchedKept, RowKept, CalmBefore
     DEF IInv, CalmInv

-----------------------------------------------------------------------------
(* Every variable of the report generation keeps its type. *)
THEOREM TypeCorrect == Spec => []TypeOK
  <1>1. IInv => TypeOK
    BY DEF IInv
  <1> QED
    BY <1>1, InitIInv, Inductive, PTL DEF Spec

(* Whatever is shown as "done" is the output of a process that ended by    *)
(* itself with exit code 0, for any number of requests that race, cancel   *)
(* and fail and for any number of restarts.                                *)
THEOREM ReportsAreGenuine == Spec => []DoneIsGenuine
  <1>1. IInv => DoneIsGenuine
    BY DEF IInv, Genuine, DoneIsGenuine
  <1> QED
    BY <1>1, InitIInv, Inductive, PTL DEF Spec

(* The registry never names a dead thread; and unless two POSTs met between *)
(* the look and the entry, a write failed, the server restarted or a DELETE *)
(* came, at most one process runs and an accepted report is visible.       *)
THEOREM RegistryIsSound == Spec => []RegistrySound
  <1>1. ASSUME IInv
        PROVE  RegistrySound
    <2>1. RegistryNeverLeaks
      BY <1>1 DEF IInv
    <2>2. AcceptedIsVisible
      BY <1>1 DEF IInv, Calm, CalmInv, RowWritten, AcceptedIsVisible
    <2>3. OneProcess
      <3> DEFINE S == {j \in Jobs : process[j] = "running"}
      <3>1. SUFFICES ASSUME Calm
                     PROVE  Cardinality(S) <= 1
        BY DEF Calm, OneProcess
      <3>2. OneJob /\ ProcessWatched
        BY <1>1, <3>1 DEF IInv, CalmInv
      <3>3. \A i, j \in S : i = j
        BY <3>2 DEF OneJob, ProcessWatched, Running
      <3> HIDE DEF S
      <3>4. CASE S = {}
        BY <3>4, FS_EmptySet
      <3>5. CASE S # {}
        <4>1. PICK j \in S : TRUE
          BY <3>5
        <4>2. S = {j}
          BY <3>3, <4>1
        <4> QED
          BY <4>2, FS_Singleton
      <3> QED
        BY <3>4, <3>5
    <2> QED
      BY <2>1, <2>2, <2>3 DEF RegistrySound
  <1> QED
    BY <1>1, InitIInv, Inductive, PTL DEF Spec
=============================================================================
