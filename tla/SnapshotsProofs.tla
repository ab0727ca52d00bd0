--------------------------- MODULE SnapshotsProofs ---------------------------
(***************************************************************************)
(* Snapshots: the location record covers every snapshot, an acknowledged   *)
(* deletion has removed it, a ready snapshot exists.  The properties       *)
(* follow from HandleInv, which is inductive handle by handle: a step of   *)
(* one handle leaves all that belongs to another alone.  The refinement of *)
(* Contract follows from it: a step means one Move of the handle's state.  *)
(***************************************************************************)
EXTENDS Snapshots, TLAPS

\* A step that concerns one handle.
HandleStep(h) ==
    \/ COStep(h)
    \/ Call(h)
    \/ CallStep(h)
    \/ Abort(h)
    \/ \E a \in Actions : HelperSucceeds(h, a)
    \/ \E a \in Actions : HelperFails(h, a)
    \/ \E a \in Actions : HelperDeleted(h, a)

\* All that belongs to a handle is as it was.
Untouched(h) ==
    /\ want'[h] = want[h]
    /\ src'[h] = src[h]
    /\ content'[h] = content[h]
    /\ record'[h] = record[h]
    /\ lv'[h] = lv[h]
    /\ job'[h] = job[h]
    /\ pc'[h] = pc[h]
    /\ loc'[h] = loc[h]
    /\ src[h] \in live' <=> src[h] \in live

\* Next is a step of one handle or of a volume.
LEMMA NextCases ==
    Next <=> \/ \E h \in Handles : HandleStep(h)
             \/ \E v \in Volumes, fate \in PVFates : PVChanges(v, fate)
             \/ \E v \in Volumes : VolumeDeleted(v)
BY Zenon DEF Next, HandleStep

\* Replacing one helper keeps the type of the helpers.
LEMMA JobUpdate ==
    ASSUME NEW S, NEW f \in [Handles -> [Actions -> S]],
           NEW h \in Handles, NEW a \in Actions, NEW j \in S
    PROVE  [f EXCEPT ![h][a] = j] \in [Handles -> [Actions -> S]]
OBVIOUS

\* A handle's step keeps the types.
LEMMA HandleType ==
    ASSUME TypeOK, NEW h \in Handles, HandleStep(h)
    PROVE  TypeOK'
<1>. USE LocOfAssumption, NoRecordAssumption, NoJobAssumption, FatesAssumption, MaxFaultsAssumption
     DEF TypeOK, Wants, Contents, Actions, Job, Creating, Deleting
<1>1. ASSUME NEW v \in Volumes, AskCreate(h, v) PROVE TypeOK'
  BY <1>1 DEF AskCreate, cluster, call
<1>2. CASE AskDelete(h)
  BY <1>2 DEF AskDelete, cluster, call
<1>3. CASE Retain(h)
  BY <1>3 DEF Retain, cluster, call
<1>4. ASSUME NEW kind \in Imports, Import(h, kind) PROVE TypeOK'
  BY <1>4 DEF Import, cluster, call
<1>5. CASE Abandon(h)
  BY <1>5 DEF Abandon, cluster, call
<1>6. CASE Call(h)
  BY <1>6 DEF Call, co, cluster
<1>7. CASE SourcePV(h)
  BY <1>7, SMTT(30) DEF SourcePV, Found, Fail, Goto, co, cluster
<1>8. CASE RecordLocation(h)
  <2>1. pc' \in [Handles -> Creating \cup Deleting \cup {"idle"}]
    <3>1. \E l \in Creating \cup Deleting \cup {"idle"} : pc' = [pc EXCEPT ![h] = l]
      BY <1>8 DEF RecordLocation, Goto
    <3>. QED
      BY <3>1
  <2>2. record' \in [Handles -> Locations \cup {NoRecord}]
    <3>1. record' = record \/ record' = [record EXCEPT ![h] = loc[h]]
      BY <1>8, Zenon DEF RecordLocation
    <3>. QED
      BY <3>1
  <2>. QED
    BY <1>8, <2>1, <2>2 DEF RecordLocation, co
<1>9. CASE CheckRecord(h)
  BY <1>9 DEF CheckRecord, Goto, co, cluster
<1>10. CASE CreateHelper(h)
  <2>1. pc' \in [Handles -> Creating \cup Deleting \cup {"idle"}]
    BY <1>10 DEF CreateHelper, StartHelper, Goto
  <2>2. job' \in [Handles -> [Actions -> Job \cup {NoJob}]]
    <3>1. [loc |-> loc[h], phase |-> "running"] \in Job
      OBVIOUS
    <3>2. \/ job' = job
          \/ \E j \in Job \cup {NoJob} : job' = [job EXCEPT ![h]["create"] = j]
      BY <1>10, <3>1, Zenon DEF CreateHelper, StartHelper
    <3>3. job \in [Handles -> [Actions -> Job \cup {NoJob}]] /\ "create" \in Actions
      OBVIOUS
    <3>. HIDE DEF TypeOK, Actions, Job
    <3>4. ASSUME NEW j \in Job \cup {NoJob}
          PROVE  [job EXCEPT ![h]["create"] = j] \in [Handles -> [Actions -> Job \cup {NoJob}]]
      BY <3>3, JobUpdate, Zenon
    <3>. QED
      BY <3>2, <3>3, <3>4, Zenon
  <2>. QED
    BY <1>10, <2>1, <2>2 DEF CreateHelper, StartHelper, co
<1>11. CASE WaitCreated(h)
  <2>1. pc' \in [Handles -> Creating \cup Deleting \cup {"idle"}]
    <3>1. \E l \in Creating \cup Deleting \cup {"idle"} : pc' = [pc EXCEPT ![h] = l]
      BY <1>11 DEF WaitCreated, Fail, Goto
    <3>. QED
      BY <3>1
  <2>2. job' \in [Handles -> [Actions -> Job \cup {NoJob}]]
    <3>1. job' = job \/ job' = [job EXCEPT ![h]["create"] = NoJob]
      BY <1>11, Zenon DEF WaitCreated, Ended, HelperMissing
    <3>2. job \in [Handles -> [Actions -> Job \cup {NoJob}]] /\ "create" \in Actions
      OBVIOUS
    <3>. HIDE DEF TypeOK, Actions, Job
    <3>3. ASSUME NEW j \in Job \cup {NoJob}
          PROVE  [job EXCEPT ![h]["create"] = j] \in [Handles -> [Actions -> Job \cup {NoJob}]]
      BY <3>2, JobUpdate, Zenon
    <3>. QED
      BY <3>1, <3>2, <3>3, Zenon
  <2>3. faults' \in 0..MaxFaults
    BY <1>11 DEF WaitCreated, Ended, HelperMissing, Fault
  <2>4. UNCHANGED <<want, src, content, pv, live, record, lv, loc>>
    BY <1>11, Zenon DEF WaitCreated, Fail, co
  <2>. QED
    BY <2>1, <2>2, <2>3, <2>4
<1>12. CASE AnswerCreate(h)
  BY <1>12 DEF AnswerCreate, OkCreate, Goto, cluster
<1>13. CASE FindContent(h)
  <2>1. pc' \in [Handles -> Creating \cup Deleting \cup {"idle"}]
    BY <1>13 DEF FindContent, OkDelete, Found, Goto
  <2>2. loc' \in [Handles -> Locations]
    <3>1. LocOf[src[h]] \in Locations
      OBVIOUS
    <3>2. loc' = loc \/ loc' = [loc EXCEPT ![h] = LocOf[src[h]]]
      BY <1>13, Zenon DEF FindContent, OkDelete, Found
    <3>. QED
      BY <3>1, <3>2
  <2>3. want' \in [Handles -> Wants] /\ src' = src /\ content' \in [Handles -> Contents]
    BY <1>13 DEF FindContent, OkDelete, co
  <2>4. UNCHANGED <<pv, live, record, lv, job, faults>>
    BY <1>13, Zenon DEF FindContent, cluster
  <2>. QED
    BY <2>1, <2>2, <2>3, <2>4
<1>14. CASE PVLocation(h)
  <2>1. pc' \in [Handles -> Creating \cup Deleting \cup {"idle"}]
    <3>1. \E l \in Creating \cup Deleting \cup {"idle"} : pc' = [pc EXCEPT ![h] = l]
      BY <1>14 DEF PVLocation, Found, Goto
    <3>. QED
      BY <3>1
  <2>2. loc' \in [Handles -> Locations]
    <3>1. LocOf[src[h]] \in Locations
      OBVIOUS
    <3>2. loc' = loc \/ loc' = [loc EXCEPT ![h] = LocOf[src[h]]]
      BY <1>14, Zenon DEF PVLocation, Found
    <3>. QED
      BY <3>1, <3>2
  <2>3. UNCHANGED <<want, src, content>>
    BY <1>14 DEF PVLocation, co
  <2>4. UNCHANGED <<pv, live, record, lv, job, faults>>
    BY <1>14, Zenon DEF PVLocation, cluster
  <2>. QED
    BY <2>1, <2>2, <2>3, <2>4
<1>15. CASE RecordedLocation(h)
  <2>1. pc' \in [Handles -> Creating \cup Deleting \cup {"idle"}]
    <3>1. \E l \in Creating \cup Deleting \cup {"idle"} : pc' = [pc EXCEPT ![h] = l]
      BY <1>15 DEF RecordedLocation, Found, OkDelete, Fail, Goto
    <3>. QED
      BY <3>1
  <2>2. loc' \in [Handles -> Locations]
    <3>1. \/ UNCHANGED loc
          \/ record[h] # NoRecord /\ loc' = [loc EXCEPT ![h] = record[h]]
      <4>. HIDE DEF TypeOK
      <4>. QED
        BY <1>15 DEF RecordedLocation, lookupSnapshotLocation, Found, OkDelete, Fail
    <3>2. record[h] # NoRecord => record[h] \in Locations
      OBVIOUS
    <3>. QED
      BY <3>1, <3>2
  <2>3. want' \in [Handles -> Wants] /\ src' = src /\ content' \in [Handles -> Contents]
    BY <1>15 DEF RecordedLocation, OkDelete, Fail, co
  <2>4. UNCHANGED <<pv, live, record, lv, job, faults>>
    BY <1>15, Zenon DEF RecordedLocation, cluster
  <2>. QED
    BY <2>1, <2>2, <2>3, <2>4
<1>16. CASE DeleteHelper(h)
  <2>1. pc' \in [Handles -> Creating \cup Deleting \cup {"idle"}]
    BY <1>16 DEF DeleteHelper, StartHelper, Goto
  <2>2. job' \in [Handles -> [Actions -> Job \cup {NoJob}]]
    <3>1. [loc |-> loc[h], phase |-> "running"] \in Job
      OBVIOUS
    <3>2. \/ job' = job
          \/ \E j \in Job \cup {NoJob} : job' = [job EXCEPT ![h]["delete"] = j]
      BY <1>16, <3>1, Zenon DEF DeleteHelper, StartHelper
    <3>3. job \in [Handles -> [Actions -> Job \cup {NoJob}]] /\ "delete" \in Actions
      OBVIOUS
    <3>. HIDE DEF TypeOK, Actions, Job
    <3>4. ASSUME NEW j \in Job \cup {NoJob}
          PROVE  [job EXCEPT ![h]["delete"] = j] \in [Handles -> [Actions -> Job \cup {NoJob}]]
      BY <3>3, JobUpdate, Zenon
    <3>. QED
      BY <3>2, <3>3, <3>4, Zenon
  <2>. QED
    BY <1>16, <2>1, <2>2 DEF DeleteHelper, StartHelper, co
<1>17. CASE WaitDeleted(h)
  <2>1. pc' \in [Handles -> Creating \cup Deleting \cup {"idle"}]
    <3>1. \E l \in Creating \cup Deleting \cup {"idle"} : pc' = [pc EXCEPT ![h] = l]
      BY <1>17 DEF WaitDeleted, Fail, Goto
    <3>. QED
      BY <3>1
  <2>2. job' \in [Handles -> [Actions -> Job \cup {NoJob}]]
    <3>1. job' = job \/ job' = [job EXCEPT ![h]["delete"] = NoJob]
      BY <1>17, Zenon DEF WaitDeleted, Ended, HelperMissing
    <3>2. job \in [Handles -> [Actions -> Job \cup {NoJob}]] /\ "delete" \in Actions
      OBVIOUS
    <3>. HIDE DEF TypeOK, Actions, Job
    <3>3. ASSUME NEW j \in Job \cup {NoJob}
          PROVE  [job EXCEPT ![h]["delete"] = j] \in [Handles -> [Actions -> Job \cup {NoJob}]]
      BY <3>2, JobUpdate, Zenon
    <3>. QED
      BY <3>1, <3>2, <3>3, Zenon
  <2>3. faults' \in 0..MaxFaults
    BY <1>17 DEF WaitDeleted, Ended, HelperMissing, Fault
  <2>4. UNCHANGED <<want, src, content, pv, live, record, lv, loc>>
    BY <1>17, Zenon DEF WaitDeleted, Fail, co
  <2>. QED
    BY <2>1, <2>2, <2>3, <2>4
<1>18. CASE ForgetLocation(h)
  BY <1>18 DEF ForgetLocation, Fault, Goto, co
<1>19. CASE AnswerDelete(h)
  BY <1>19 DEF AnswerDelete, OkDelete, Goto, cluster
<1>20. CASE Abort(h)
  BY <1>20 DEF Abort, Fault, Fail, Goto, co, cluster
<1>21. ASSUME NEW a \in Actions, HelperSucceeds(h, a) PROVE TypeOK'
  BY <1>21 DEF HelperSucceeds, HelperWorks, Running, co, call
<1>22. ASSUME NEW a \in Actions, HelperFails(h, a) PROVE TypeOK'
  <2>1. lv' \in [Handles -> SUBSET Locations]
    BY <1>22 DEF HelperFails, HelperWorks, Running
  <2>2. job' \in [Handles -> [Actions -> Job \cup {NoJob}]]
    BY <1>22 DEF HelperFails, Running
  <2>. QED
    BY <1>22, <2>1, <2>2 DEF HelperFails, Fault, co, call
<1>23. ASSUME NEW a \in Actions, HelperDeleted(h, a) PROVE TypeOK'
  <2>1. lv' \in [Handles -> SUBSET Locations]
    <3>1. CASE UNCHANGED lv
      BY <3>1
    <3>2. CASE Running(h, a) /\ HelperWorks(h, a)
      BY <3>2 DEF HelperWorks, Running
    <3>. QED
      BY <1>23, <3>1, <3>2, Zenon DEF HelperDeleted
  <2>2. job' \in [Handles -> [Actions -> Job \cup {NoJob}]]
    BY <1>23 DEF HelperDeleted
  <2>. QED
    BY <1>23, <2>1, <2>2 DEF HelperDeleted, Fault, co, call
<1>. QED
  BY <1>1, <1>2, <1>3, <1>4, <1>5, <1>6, <1>7, <1>8, <1>9, <1>10, <1>11, <1>12, <1>13, <1>14, <1>15,
     <1>16, <1>17, <1>18, <1>19, <1>20, <1>21, <1>22, <1>23, Zenon DEF HandleStep, COStep, CallStep

\* A handle's step leaves the other handles alone.
LEMMA Others ==
    ASSUME TypeOK, NEW g \in Handles, NEW h \in Handles, g # h, HandleStep(h)
    PROVE  Untouched(g)
<1>. USE DEF TypeOK, Untouched
<1>1. ASSUME NEW v \in Volumes, AskCreate(h, v) PROVE Untouched(g)
  BY <1>1 DEF AskCreate, cluster, call
<1>2. CASE AskDelete(h)
  BY <1>2 DEF AskDelete, cluster, call
<1>3. CASE Retain(h)
  BY <1>3 DEF Retain, cluster, call
<1>4. ASSUME NEW kind \in Imports, Import(h, kind) PROVE Untouched(g)
  BY <1>4 DEF Import, cluster, call
<1>5. CASE Abandon(h)
  BY <1>5 DEF Abandon, cluster, call
<1>6. CASE Call(h)
  BY <1>6 DEF Call, co, cluster
<1>7. CASE SourcePV(h)
  BY <1>7 DEF SourcePV, Found, Fail, Goto, co, cluster
<1>8. CASE RecordLocation(h)
  BY <1>8 DEF RecordLocation, Goto, co
<1>9. CASE CheckRecord(h)
  BY <1>9 DEF CheckRecord, Goto, co, cluster
<1>10. CASE CreateHelper(h)
  BY <1>10 DEF CreateHelper, StartHelper, Goto, co
<1>11. CASE WaitCreated(h)
  BY <1>11 DEF WaitCreated, Ended, HelperMissing, Fault, Fail, Goto, co
<1>12. CASE AnswerCreate(h)
  BY <1>12 DEF AnswerCreate, OkCreate, Goto, cluster
<1>13. CASE FindContent(h)
  BY <1>13 DEF FindContent, Found, OkDelete, Goto, co, cluster
<1>14. CASE PVLocation(h)
  BY <1>14 DEF PVLocation, Found, Goto, co, cluster
<1>15. CASE RecordedLocation(h)
  BY <1>15 DEF RecordedLocation, lookupSnapshotLocation, Found, OkDelete, Fail, Goto, co, cluster
<1>16. CASE DeleteHelper(h)
  BY <1>16 DEF DeleteHelper, StartHelper, Goto, co
<1>17. CASE WaitDeleted(h)
  BY <1>17 DEF WaitDeleted, Ended, HelperMissing, Fault, Fail, Goto, co
<1>18. CASE ForgetLocation(h)
  BY <1>18 DEF ForgetLocation, Fault, Goto, co
<1>19. CASE AnswerDelete(h)
  BY <1>19 DEF AnswerDelete, OkDelete, Goto, cluster
<1>20. CASE Abort(h)
  BY <1>20 DEF Abort, Fault, Fail, Goto, co, cluster
<1>21. ASSUME NEW a \in Actions, HelperSucceeds(h, a) PROVE Untouched(g)
  BY <1>21 DEF HelperSucceeds, HelperWorks, Running, co, call
<1>22. ASSUME NEW a \in Actions, HelperFails(h, a) PROVE Untouched(g)
  BY <1>22 DEF HelperFails, HelperWorks, SourceFound, Fault, co, call
<1>23. ASSUME NEW a \in Actions, HelperDeleted(h, a) PROVE Untouched(g)
  BY <1>23 DEF HelperDeleted, HelperWorks, SourceFound, Fault, co, call
<1>. QED
  BY <1>1, <1>2, <1>3, <1>4, <1>5, <1>6, <1>7, <1>8, <1>9, <1>10, <1>11, <1>12, <1>13, <1>14, <1>15,
     <1>16, <1>17, <1>18, <1>19, <1>20, <1>21, <1>22, <1>23, Zenon DEF HandleStep, COStep, CallStep

\* A handle's step deletes no volume.
LEMMA StepLive ==
    ASSUME NEW h \in Handles, HandleStep(h)
    PROVE  live' = live
BY Zenon DEF HandleStep, COStep, AskCreate, AskDelete, Retain, Import, Abandon, Call, CallStep, SourcePV,
   RecordLocation, CheckRecord, CreateHelper, StartHelper, WaitCreated, AnswerCreate, FindContent,
   PVLocation, RecordedLocation, DeleteHelper, WaitDeleted, ForgetLocation, AnswerDelete, Abort,
   HelperSucceeds, HelperFails, HelperDeleted, cluster

\* What is untouched keeps its invariant.
LEMMA UntouchedInv ==
    ASSUME NEW h \in Handles, HandleInv(h), Untouched(h)
    PROVE  HandleInv(h)'
BY DEF HandleInv, CallInv, CreateInv, DeleteInv, PlaceInv, Alive, Running, Succeeded, Perished, Untouched

\* A volume that is deleted takes its snapshots along only where they are part of it.
LEMMA DeletedInv ==
    ASSUME TypeOK, NEW h \in Handles, HandleInv(h), VolumeDeleted(src[h])
    PROVE  HandleInv(h)'
<1>1. /\ want' = want /\ src' = src /\ content' = content /\ record' = record
      /\ job' = job /\ pc' = pc /\ loc' = loc
      /\ want[h] # "new" /\ src[h] \notin live'
      /\ lv'[h] = IF src[h] \in Thick THEN {} ELSE lv[h]
  BY DEF VolumeDeleted, co, call, TypeOK
<1>2. Perished(h)' <=> src[h] \in Thick
  BY <1>1 DEF Perished
<1>3. ~Perished(h)
  BY DEF Perished, VolumeDeleted
<1>. QED
  BY <1>1, <1>2, <1>3 DEF HandleInv, CallInv, CreateInv, DeleteInv, PlaceInv, Alive, Running, Succeeded

\* A handle's step keeps its own invariant.
LEMMA HandleStepInv ==
    ASSUME TypeOK, NEW h \in Handles, HandleInv(h), HandleStep(h)
    PROVE  HandleInv(h)'
<1>. USE LocOfAssumption, NoRecordAssumption, NoJobAssumption, FatesAssumption
     DEF TypeOK, HandleInv, CallInv, CreateInv, DeleteInv, PlaceInv, Alive, Running, Succeeded, Perished,
         Actions, Job, Creating, Deleting
<1>1. ASSUME NEW v \in Volumes, AskCreate(h, v) PROVE HandleInv(h)'
  BY <1>1, SMTT(60) DEF AskCreate, cluster, call
<1>2. CASE AskDelete(h)
  BY <1>2, SMTT(60) DEF AskDelete, cluster, call
<1>3. CASE Retain(h)
  BY <1>3, SMTT(60) DEF Retain, cluster, call
<1>4. ASSUME NEW kind \in Imports, Import(h, kind) PROVE HandleInv(h)'
  BY <1>4, SMTT(60) DEF Import, cluster, call
<1>5. CASE Abandon(h)
  BY <1>5, SMTT(60) DEF Abandon, cluster, call
<1>6. CASE Call(h)
  BY <1>6, SMTT(60) DEF Call, co, cluster
<1>7. CASE SourcePV(h)
  BY <1>7, SMTT(60) DEF SourcePV, Found, Fail, Goto, co, cluster
<1>8. CASE RecordLocation(h)
  BY <1>8, SMTT(60) DEF RecordLocation, Goto, co
<1>9. CASE CheckRecord(h)
  BY <1>9, SMTT(60) DEF CheckRecord, Goto, co, cluster
<1>10. CASE CreateHelper(h)
  BY <1>10, SMTT(60) DEF CreateHelper, StartHelper, Goto, co
<1>11. CASE WaitCreated(h)
  BY <1>11, SMTT(60) DEF WaitCreated, Ended, HelperMissing, Fault, Fail, Goto, co
<1>12. CASE AnswerCreate(h)
  BY <1>12, SMTT(60) DEF AnswerCreate, OkCreate, Goto, cluster
<1>13. CASE FindContent(h)
  BY <1>13, SMTT(60) DEF FindContent, Found, OkDelete, Goto, co, cluster
<1>14. CASE PVLocation(h)
  BY <1>14, SMTT(60) DEF PVLocation, Found, Goto, co, cluster
<1>15. CASE RecordedLocation(h)
  BY <1>15, SMTT(60) DEF RecordedLocation, lookupSnapshotLocation, Found, OkDelete, Fail, Goto, co,
     cluster
<1>16. CASE DeleteHelper(h)
  BY <1>16, SMTT(60) DEF DeleteHelper, StartHelper, Goto, co
<1>17. CASE WaitDeleted(h)
  BY <1>17, SMTT(60) DEF WaitDeleted, Ended, HelperMissing, Fault, Fail, Goto, co
<1>18. CASE ForgetLocation(h)
  BY <1>18, SMTT(60) DEF ForgetLocation, Fault, Goto, co
<1>19. CASE AnswerDelete(h)
  BY <1>19, SMTT(60) DEF AnswerDelete, OkDelete, Goto, cluster
<1>20. CASE Abort(h)
  BY <1>20, SMTT(60) DEF Abort, Fault, Fail, Goto, co, cluster
<1>21. ASSUME NEW a \in Actions, HelperSucceeds(h, a) PROVE HandleInv(h)'
  BY <1>21, SMTT(60) DEF HelperSucceeds, HelperWorks, SourceFound, co, call
<1>22. ASSUME NEW a \in Actions, HelperFails(h, a) PROVE HandleInv(h)'
  BY <1>22, SMTT(60) DEF HelperFails, HelperWorks, SourceFound, Fault, co, call
<1>23. ASSUME NEW a \in Actions, HelperDeleted(h, a) PROVE HandleInv(h)'
  BY <1>23, SMTT(60) DEF HelperDeleted, HelperWorks, SourceFound, Fault, co, call
<1>. QED
  BY <1>1, <1>2, <1>3, <1>4, <1>5, <1>6, <1>7, <1>8, <1>9, <1>10, <1>11, <1>12, <1>13, <1>14, <1>15,
     <1>16, <1>17, <1>18, <1>19, <1>20, <1>21, <1>22, <1>23, Zenon DEF HandleStep, COStep, CallStep

\* The initial states satisfy the invariant.
LEMMA InitInv == Init => IInv
BY LocOfAssumption, NoRecordAssumption, NoJobAssumption, MaxFaultsAssumption
   DEF Init, IInv, TypeOK, HandleInv, CallInv, CreateInv, DeleteInv, PlaceInv, Alive, Running,
     Succeeded, Perished,
       Wants, Contents, Actions, Job, Creating, Deleting

\* Every step keeps the invariant.
LEMMA NextInv == IInv /\ [Next]_vars => IInv'
<1> SUFFICES ASSUME IInv, [Next]_vars PROVE IInv'
  OBVIOUS
<1>1. ASSUME NEW h \in Handles, HandleStep(h) PROVE IInv'
  <2>1. TypeOK'
    BY <1>1, HandleType DEF IInv
  <2>2. ASSUME NEW g \in Handles PROVE HandleInv(g)'
    <3>1. CASE g = h
      BY <1>1, <3>1, HandleStepInv DEF IInv
    <3>2. CASE g # h
      BY <1>1, <3>2, Others, UntouchedInv DEF IInv
    <3>. QED
      BY <3>1, <3>2
  <2>. QED
    BY <2>1, <2>2 DEF IInv
<1>2. ASSUME NEW v \in Volumes, NEW fate \in PVFates, PVChanges(v, fate) PROVE IInv'
  <2>1. TypeOK'
    BY <1>2, FatesAssumption DEF IInv, TypeOK, PVChanges, co, call
  <2>2. ASSUME NEW g \in Handles PROVE HandleInv(g)'
    <3>1. Untouched(g)
      BY <1>2 DEF PVChanges, co, call, Untouched
    <3>. QED
      BY <3>1, UntouchedInv DEF IInv
  <2>. QED
    BY <2>1, <2>2 DEF IInv
<1>4. ASSUME NEW v \in Volumes, VolumeDeleted(v) PROVE IInv'
  <2>1. TypeOK'
    BY <1>4 DEF IInv, TypeOK, VolumeDeleted, co, call
  <2>2. ASSUME NEW g \in Handles PROVE HandleInv(g)'
    <3>1. CASE src[g] = v
      BY <1>4, <3>1, DeletedInv DEF IInv
    <3>2. CASE src[g] # v
      <4>1. Untouched(g)
        BY <1>4, <3>2 DEF VolumeDeleted, co, call, Untouched
      <4>. QED
        BY <4>1, UntouchedInv DEF IInv
    <3>. QED
      BY <3>1, <3>2
  <2>. QED
    BY <2>1, <2>2 DEF IInv
<1>3. CASE UNCHANGED vars
  <2>1. TypeOK'
    BY <1>3 DEF IInv, TypeOK, vars
  <2>2. ASSUME NEW g \in Handles PROVE HandleInv(g)'
    <3>1. Untouched(g)
      BY <1>3 DEF vars, Untouched
    <3>. QED
      BY <3>1, UntouchedInv DEF IInv
  <2>. QED
    BY <2>1, <2>2 DEF IInv
<1>. QED
  BY <1>1, <1>2, <1>3, <1>4, NextCases

\* The inductive invariant of the snapshot protocol holds in every state.
THEOREM SnapshotsInductive == Spec => []IInv
BY InitInv, NextInv, PTL DEF Spec

\* Records, helpers and calls stay well typed; in particular a deletion works only
\* with a location that a PV, an annotation or a record named.
THEOREM SnapshotsTyped == Spec => []TypeOK
<1>1. IInv => TypeOK
  BY DEF IInv
<1>. QED
  BY <1>1, SnapshotsInductive, PTL

\* Every snapshot on a node is on record where it is, for any number of handles,
\* volumes, locations and faults (recordSnapshotLocation, forgetSnapshotLocation).
THEOREM RecordsCover == Spec => []RecordCovers
<1>1. IInv => RecordCovers
  BY DEF IInv, HandleInv, PlaceInv, RecordCovers
<1>. QED
  BY <1>1, SnapshotsInductive, PTL

\* DeleteSnapshot answers OK only when the snapshot is gone.
THEOREM DeletionsAreReal == Spec => []DeletedIsGone
<1>1. IInv => DeletedIsGone
  BY DEF IInv, HandleInv, PlaceInv, DeletedIsGone
<1>. QED
  BY <1>1, SnapshotsInductive, PTL

\* A snapshot CreateSnapshot has reported exists until its deletion is asked for, or the
\* deletion of the striped volume it is part of.
THEOREM ReadyIsReal == Spec => []ReadyExists
<1>1. IInv => ReadyExists
  BY DEF IInv, HandleInv, PlaceInv, ReadyExists
<1>. QED
  BY <1>1, SnapshotsInductive, PTL

-----------------------------------------------------------------------------
(* The snapshot calls implement Contract.                                  *)

\* The handle's LV comes, goes or stays.
Same(h) == lv'[h] = lv[h]
Comes(h) == lv'[h] # {}
Goes(h) == lv'[h] \subseteq lv[h]

\* What a step may mean to the CO, in terms of the handle it concerns.
KindMove(h) ==
    \/ want'[h] = want[h] /\ Same(h)
    \/ want'[h] = want[h] /\ Comes(h) /\ want[h] \in {"new", "lost"}
    \/ want'[h] = want[h] /\ Goes(h) /\ want[h] \in {"deleting", "lost"}
    \/ Same(h) /\ want[h] = "new" /\ want'[h] = "ready" /\ lv[h] # {}
    \/ Same(h) /\ want[h] = "ready" /\ want'[h] = "kept"
    \/ Same(h) /\ want[h] = "kept" /\ want'[h] = "ready"
    \/ Same(h) /\ want[h] = "ready" /\ want'[h] = "deleting"
    \/ Same(h) /\ want[h] = "deleting" /\ want'[h] = "gone" /\ lv[h] = {}
    \/ Same(h) /\ want[h] \in {"new", "deleting"} /\ want'[h] = "lost"

Move(h) ==
    \/ src'[h] = src[h] /\ KindMove(h)
    \/ Same(h) /\ want[h] \in {"none", "gone"} /\ want'[h] = "new"

\* The work of a helper shows only while the CO waits for it or has lost track.
LEMMA WorkMoves ==
    ASSUME TypeOK, NEW h \in Handles, HandleInv(h), NEW a \in Actions,
           Running(h, a), HelperWorks(h, a), want' = want, src' = src
    PROVE  Move(h)
<1>. USE LocOfAssumption, NoJobAssumption DEF TypeOK, HandleInv, Running, Job, Actions, Wants, KindMove
<1>1. CASE a = "create"
  BY <1>1 DEF HelperWorks, Move, Comes, CreateInv
<1>2. CASE a = "delete"
  <2>1. job[h]["delete"] # NoJob
    BY <1>2
  <2>2. lv'[h] = lv[h] \ {job[h]["delete"].loc}
    BY <1>2 DEF HelperWorks
  <2>3. CASE want[h] \in {"deleting", "lost"}
    BY <2>2, <2>3 DEF Move, Goes
  <2>4. CASE want[h] \notin {"deleting", "lost"}
    <3>1. lv'[h] = lv[h]
      BY <2>1, <2>2, <2>4 DEF DeleteInv, PlaceInv, Alive
    <3>. QED
      BY <3>1 DEF Move, Same
  <2>. QED
    BY <2>3, <2>4
<1>. QED
  BY <1>1, <1>2

\* Every step of a handle is one of the moves.
LEMMA StepMoves ==
    ASSUME TypeOK, NEW h \in Handles, HandleInv(h), HandleInv(h)', HandleStep(h)
    PROVE  Move(h)
<1>. USE DEF TypeOK, Move, KindMove, Same
<1>1. CASE COStep(h)
  <2>1. ASSUME NEW v \in Volumes, AskCreate(h, v) PROVE Move(h)
    BY <2>1 DEF AskCreate, cluster
  <2>2. CASE AskDelete(h) \/ Retain(h) \/ Abandon(h)
    BY <2>2 DEF AskDelete, Retain, Abandon, cluster
  <2>3. ASSUME NEW kind \in Imports, Import(h, kind) PROVE Move(h)
    BY <2>3 DEF Import, cluster
  <2>. QED
    BY <1>1, <2>1, <2>2, <2>3, Zenon DEF COStep
<1>2. CASE Call(h)
  BY <1>2 DEF Call, co, cluster
<1>3. CASE Abort(h)
  BY <1>3 DEF Abort, Fail, co, cluster
<1>4. CASE SourcePV(h)
  BY <1>4 DEF SourcePV, Fail, co, cluster
<1>5. CASE RecordLocation(h)
  BY <1>5 DEF RecordLocation, co
<1>6. CASE CheckRecord(h)
  BY <1>6 DEF CheckRecord, co, cluster
<1>7. CASE CreateHelper(h)
  BY <1>7 DEF CreateHelper, StartHelper, co
<1>8. CASE WaitCreated(h)
  BY <1>8 DEF WaitCreated, Fail, co
<1>9. CASE AnswerCreate(h)
  BY <1>9 DEF AnswerCreate, OkCreate, cluster, HandleInv, CallInv, CreateInv, Perished
<1>10. CASE FindContent(h)
  BY <1>10 DEF FindContent, OkDelete, Found, co, cluster, HandleInv, PlaceInv
<1>11. CASE PVLocation(h)
  BY <1>11 DEF PVLocation, co, cluster
<1>12. CASE RecordedLocation(h)
  BY <1>12 DEF RecordedLocation, OkDelete, Fail, co, cluster, HandleInv, PlaceInv
<1>13. CASE DeleteHelper(h)
  BY <1>13 DEF DeleteHelper, StartHelper, co
<1>14. CASE WaitDeleted(h)
  BY <1>14 DEF WaitDeleted, Fail, co
<1>15. CASE ForgetLocation(h)
  BY <1>15 DEF ForgetLocation, co
<1>16. CASE AnswerDelete(h)
  BY <1>16 DEF AnswerDelete, OkDelete, cluster, HandleInv, DeleteInv
<1>17. ASSUME NEW a \in Actions, HelperSucceeds(h, a) PROVE Move(h)
  BY <1>17, WorkMoves DEF HelperSucceeds, co
<1>18. ASSUME NEW a \in Actions, HelperFails(h, a) PROVE Move(h)
  BY <1>18, WorkMoves DEF HelperFails, co
<1>19. ASSUME NEW a \in Actions, HelperDeleted(h, a) PROVE Move(h)
  BY <1>19, WorkMoves DEF HelperDeleted, co
<1>. QED
  BY <1>1, <1>2, <1>3, <1>4, <1>5, <1>6, <1>7, <1>8, <1>9, <1>10, <1>11, <1>12, <1>13, <1>14, <1>15,
     <1>16, <1>17, <1>18, <1>19, Zenon DEF HandleStep, CallStep

\* A move of one handle is a step of the contract, or no step of it.
LEMMA MoveMaps ==
    ASSUME TypeOK, TypeOK', NEW h \in Handles, Move(h), live' = live,
           want[h] = "new" => ~Perished(h),
           \A g \in Handles \ {h} : Untouched(g)
    PROVE  [Promise!Next]_(Promise!vars)
<1>. DEFINE told == [g \in Handles |-> Told(g)]
            exists == {g \in Handles : lv[g] # {}}
            fragile == {g \in Handles : src[g] \in Thick}
<1>1. \A g \in Handles \ {h} : Told(g)' = Told(g) /\ lv'[g] = lv[g] /\ src'[g] = src[g]
  BY DEF Untouched, Told, Perished
<1>2. told' = [told EXCEPT ![h] = Told(h)']
  BY <1>1
<1>3. Same(h) => exists' = exists
  BY <1>1 DEF Same
<1>4. Comes(h) => exists' = exists \cup {h}
  BY <1>1 DEF Comes
<1>5. Goes(h) => exists' = exists \/ exists' = exists \ {h}
  BY <1>1 DEF Goes
<1>6. Told(h)' = Told(h) => told' = told
  BY <1>1
<1>7. told[h] = Told(h) /\ (h \in exists <=> lv[h] # {})
  OBVIOUS
<1>8. want'[h] = want[h] /\ src'[h] = src[h] => Told(h)' = Told(h)
  BY DEF Told, Perished
<1>19. src'[h] = src[h] => fragile' = fragile
  BY <1>1
<1>20. fragile' \in {fragile \cup {h}, fragile \ {h}}
  BY <1>1
<1>. HIDE DEF told, exists, fragile
<1>12. ASSUME NEW from, NEW to, Same(h), Told(h) \in from, Told(h)' = to
       PROVE  Promise!Becomes(h, from, to)
  BY <1>2, <1>3, <1>7, <1>12 DEF Promise!Becomes, told, exists
<1>13. CASE Same(h) /\ want[h] \in {"none", "gone"} /\ want'[h] = "new"
  <2>1. Promise!Becomes(h, {"none", "gone"}, "wanted")
    BY <1>12, <1>13 DEF Told
  <2>2. Promise!Want(h)
    BY <1>20, <2>1 DEF Promise!Want, fragile
  <2>. QED
    BY <2>2 DEF Promise!Next
<1>21. CASE src'[h] = src[h] /\ KindMove(h)
  <2>0. src'[h] = src[h] /\ fragile' = fragile
    BY <1>19, <1>21
  <2>1. ASSUME NEW from, NEW to, Same(h), Told(h) \in from, Told(h)' = to
        PROVE  Promise!Turns(h, from, to)
    BY <1>12, <2>0, <2>1 DEF Promise!Turns, fragile
  <2>9. CASE Told(h)' = Told(h) /\ Same(h)
    BY <1>3, <1>6, <2>0, <2>9 DEF Promise!vars, told, exists, fragile
  <2>10. CASE want'[h] = want[h] /\ Comes(h) /\ want[h] \in {"new", "lost"}
    <3>1. Told(h) \in {"wanted", "lost"}
      BY <2>10 DEF Told
    <3>2. told' = told /\ exists' = exists \cup {h}
      BY <1>4, <1>6, <1>8, <2>0, <2>10
    <3>3. Promise!Appear(h)
      BY <1>7, <2>0, <3>1, <3>2 DEF Promise!Appear, told, exists, fragile
    <3>. QED
      BY <3>3 DEF Promise!Next
  <2>11. CASE want'[h] = want[h] /\ Goes(h) /\ want[h] \in {"deleting", "lost"}
    <3>1. Told(h) \in {"unwanted", "lost"} /\ told' = told
      BY <1>6, <1>8, <2>0, <2>11 DEF Told
    <3>2. CASE exists' = exists
      BY <2>0, <3>1, <3>2 DEF Promise!vars, told, exists, fragile
    <3>3. CASE exists' = exists \ {h}
      <4>1. Promise!Vanish(h)
        BY <1>7, <2>0, <3>1, <3>3 DEF Promise!Vanish, told, exists, fragile
      <4>. QED
        BY <4>1 DEF Promise!Next
    <3>. QED
      BY <1>5, <2>11, <3>2, <3>3
  <2>14. CASE Same(h) /\ want[h] = "new" /\ want'[h] = "ready" /\ lv[h] # {}
    <3>1. Told(h) = "wanted" /\ Told(h)' = "ready"
      BY <2>0, <2>14 DEF Told, Perished
    <3>2. Promise!Ready(h)
      BY <1>7, <2>1, <2>14, <3>1 DEF Promise!Ready, exists
    <3>. QED
      BY <3>2 DEF Promise!Next
  <2>15. CASE Same(h) /\ want[h] = "ready" /\ want'[h] = "deleting"
    <3>1. Told(h) \in {"ready", "perished"} /\ Told(h)' = "unwanted"
      BY <2>15 DEF Told
    <3>2. Promise!Unwant(h)
      BY <2>1, <2>15, <3>1 DEF Promise!Unwant
    <3>. QED
      BY <3>2 DEF Promise!Next
  <2>16. CASE Same(h) /\ want[h] = "deleting" /\ want'[h] = "gone" /\ lv[h] = {}
    <3>1. Told(h) = "unwanted" /\ Told(h)' = "gone"
      BY <2>16 DEF Told
    <3>2. Promise!Gone(h)
      BY <1>7, <2>1, <2>16, <3>1 DEF Promise!Gone, exists
    <3>. QED
      BY <3>2 DEF Promise!Next
  <2>17. CASE Same(h) /\ want[h] \in {"new", "deleting"} /\ want'[h] = "lost"
    <3>1. Told(h) \in {"wanted", "ready", "unwanted"} /\ Told(h)' = "lost"
      BY <2>17 DEF Told
    <3>2. Promise!Lose(h)
      BY <2>1, <2>17, <3>1 DEF Promise!Lose
    <3>. QED
      BY <3>2 DEF Promise!Next
  <2>18. CASE Same(h) /\ want[h] \in {"ready", "kept"} /\ want'[h] \in {"ready", "kept"}
    <3>1. Told(h)' = Told(h)
      BY <2>0, <2>18 DEF Told, Perished
    <3>. QED
      BY <2>9, <2>18, <3>1
  <2>. QED
    BY <1>8, <1>21, <2>0, <2>9, <2>10, <2>11, <2>14, <2>15, <2>16, <2>17, <2>18 DEF KindMove
<1>. QED
  BY <1>13, <1>21 DEF Move

\* The snapshots that are part of a volume perish with it.
LEMMA DeletedMaps ==
    ASSUME IInv, NEW v \in Volumes, VolumeDeleted(v)
    PROVE  Promise!Next
<1>. DEFINE told == [g \in Handles |-> Told(g)]
            exists == {g \in Handles : lv[g] # {}}
            fragile == {g \in Handles : src[g] \in Thick}
            S == {g \in Handles : src[g] = v /\ v \in Thick}
<1>1. /\ want' = want /\ src' = src /\ live' = live \ {v} /\ v \in live
      /\ lv' = [g \in Handles |-> IF src[g] = v /\ v \in Thick THEN {} ELSE lv[g]]
      /\ \A g \in Handles : src[g] = v => want[g] # "new"
  BY DEF VolumeDeleted, co
<1>2. fragile' = fragile /\ exists' = exists \ S /\ S \subseteq fragile /\ S \in SUBSET Handles
  BY <1>1
<1>3. ASSUME NEW g \in Handles
      PROVE  Told(g)' = IF g \in S /\ Told(g) = "ready" THEN "perished" ELSE Told(g)
  <2>1. Perished(g)' <=> Perished(g) \/ g \in S
    BY <1>1 DEF Perished
  <2>2. g \in S => ~Perished(g)
    BY <1>1 DEF Perished
  <2>3. want[g] \in Wants /\ want'[g] = want[g]
    BY <1>1 DEF IInv, TypeOK
  <2>. HIDE DEF S
  <2>4. CASE want[g] \in {"ready", "kept"}
    BY <2>1, <2>2, <2>3, <2>4 DEF Told
  <2>5. CASE want[g] \notin {"ready", "kept"}
    BY <2>3, <2>5 DEF Told, Wants
  <2>. QED
    BY <2>4, <2>5
<1>4. \A g \in S : Told(g) # "wanted"
  BY <1>1 DEF Told, IInv, TypeOK, Wants
<1>5. told' = [g \in Handles |-> IF g \in S /\ told[g] = "ready" THEN "perished" ELSE told[g]]
  BY <1>3
<1>6. \A g \in S : told[g] # "wanted"
  BY <1>4
<1>. HIDE DEF told, exists, fragile, S
<1>7. PICK T \in SUBSET Handles : T = S
  BY <1>2
<1>8. Promise!Perish(T)
  BY <1>2, <1>5, <1>6, <1>7 DEF Promise!Perish, told, exists, fragile
<1>. QED
  BY <1>8 DEF Promise!Next

\* CreateSnapshot and DeleteSnapshot keep the contract with the CO: for any number
\* of handles, volumes, locations and faults, a snapshot appears only while it is
\* wanted, goes only once its deletion is or with the striped volume it is part of, is
\* reported ready only when it exists and gone only when it does not.
THEOREM SnapshotsKeepContract == Spec => ContractKept
<1>1. Init => Promise!Init
  BY DEF Init, Promise!Init, Told
<1>2. IInv /\ IInv' /\ [Next]_vars => [Promise!Next]_(Promise!vars)
  <2>. SUFFICES ASSUME IInv, IInv', [Next]_vars PROVE [Promise!Next]_(Promise!vars)
    OBVIOUS
  <2>1. ASSUME NEW h \in Handles, HandleStep(h) PROVE [Promise!Next]_(Promise!vars)
    <3>1. Move(h)
      BY <2>1, StepMoves DEF IInv
    <3>2. \A g \in Handles \ {h} : Untouched(g)
      BY <2>1, Others DEF IInv
    <3>3. live' = live
      BY <2>1, StepLive
    <3>4. want[h] = "new" => ~Perished(h)
      BY DEF IInv, HandleInv, CallInv, Perished
    <3>. QED
      BY <3>1, <3>2, <3>3, <3>4, MoveMaps DEF IInv
  <2>2. CASE UNCHANGED <<want, src, live, lv>>
    BY <2>2 DEF Promise!vars, Told, Perished
  <2>3. ASSUME NEW v \in Volumes, VolumeDeleted(v) PROVE [Promise!Next]_(Promise!vars)
    BY <2>3, DeletedMaps
  <2>. QED
    BY <2>1, <2>2, <2>3, NextCases DEF PVChanges, co, vars
<1>. QED
  BY <1>1, <1>2, SnapshotsInductive, PTL DEF Spec, ContractKept, Promise!Spec

=============================================================================
