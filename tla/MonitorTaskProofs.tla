-------------------------- MODULE MonitorTaskProofs --------------------------
(***************************************************************************)
(* What MonitorTask guarantees for every choice of durations and image     *)
(* indices.  The flags the thread shares with the UI say too little to     *)
(* carry the invariants: what matters is where the thread is, so LocalFlag *)
(* adds how its own copy of m_anomalyActive stands to the anomaly writer   *)
(* at each point between the locked regions.                               *)
(***************************************************************************)
EXTENDS MonitorTask, TLAPS

\* The thread's copy of the flag and the writers, point by point.
LocalFlag ==
  /\ pc = "record" => loc.active = anomaly.open
  /\ pc \in {"clear", "begin"} => ~loc.active /\ ~anomaly.open
  /\ pc = "activate" => ~active /\ anomaly.open

\* The inductive invariant.
IInv ==
  /\ TypeOK
  /\ LocalFlag
  /\ SessionFlag
  /\ WriterExclusion
  /\ FilesAccounted
  /\ SessionImages

\* The flags, apart from the rest of the type: a prover that handles the
\* numbers handles no Boolean variables beside them.
TypeFlags ==
  /\ stopRequested \in BOOLEAN
  /\ enabled \in BOOLEAN
  /\ pending \in BOOLEAN
  /\ active \in BOOLEAN
  /\ openFailed \in BOOLEAN

TypeData ==
  /\ pc \in ThreadStates
  /\ segment \in Segments
  /\ loc \in [enabled : BOOLEAN, active : BOOLEAN, segment : Segments]
  /\ normal \in [open : BOOLEAN, seconds : Nat]
  /\ anomaly \in [open : BOOLEAN, seconds : Nat]
  /\ frameIndex \in Nat
  /\ images \in SUBSET ImageIndices
  /\ unreported \in Int

LEMMA TypeParts == TypeOK <=> TypeFlags /\ TypeData
  BY Zenon DEF TypeOK, TypeFlags, TypeData

\* A RecordTask is either closed or was opened with a number of seconds.
LEMMA TaskTypes ==
  /\ Closed \in [open : BOOLEAN, seconds : Nat]
  /\ Opened(0) \in [open : BOOLEAN, seconds : Nat]
  /\ Opened(AnomalySeconds) \in [open : BOOLEAN, seconds : Nat]
  BY AnomalyAssumption DEF Closed, Opened

\* The default length is one of the lengths.
LEMMA DefaultIsSegment == DefaultSegment \in Segments
  BY DEF Segments

\* At the start nothing is open and nothing is owed.
LEMMA InitInvariant == Init => IInv
<1> SUFFICES ASSUME Init PROVE IInv
  OBVIOUS
<1> USE DEF Init
<1>1. TypeOK
  <2>1. TypeFlags BY DEF TypeFlags
  <2>2. TypeData
    BY DefaultIsSegment DEF TypeData, ThreadStates, Closed
  <2>3. QED BY <2>1, <2>2, TypeParts
<1>2. LocalFlag /\ SessionFlag /\ WriterExclusion
  BY DEF LocalFlag, SessionFlag, WriterExclusion, Closed
<1>3. FilesAccounted /\ SessionImages
  BY DEF FilesAccounted, Count, Closed, SessionImages
<1>4. QED
  BY <1>1, <1>2, <1>3 DEF IInv

\* An image index is below the frame index that follows it.
LEMMA NextIndexGrows ==
  ASSUME frameIndex \in Nat, frameIndex \in ImageIndices
  PROVE  NextIndex = frameIndex + 1
  BY AnomalyAssumption DEF NextIndex

\* The frame index stays a number and never goes back within a session.
LEMMA NextIndexType ==
  ASSUME frameIndex \in Nat
  PROVE  NextIndex \in Nat /\ NextIndex >= frameIndex
  BY DEF NextIndex

\* Every step of the thread, of the UI and of the clock keeps the invariant.
LEMMA StepInvariant == IInv /\ [Next]_vars => IInv'
<1> SUFFICES ASSUME IInv, [Next]_vars PROVE IInv'
  OBVIOUS
<1> USE DEF IInv, shared, session
<1> DEFINE Others == LocalFlag /\ SessionFlag /\ WriterExclusion
                     /\ FilesAccounted
<1>1. CASE Start
  <2>1. TypeOK' BY <1>1 DEF Start, TypeOK, ThreadStates
  <2>2. Others'
    BY <1>1 DEF Start, LocalFlag, SessionFlag, WriterExclusion, FilesAccounted
  <2>3. SessionImages' BY <1>1 DEF Start, SessionImages
  <2>4. QED BY <2>1, <2>2, <2>3
<1>2. CASE OpenSource
  <2>1. TypeOK' BY <1>2 DEF OpenSource, TypeOK, ThreadStates
  <2>2. Others'
    BY <1>2 DEF OpenSource, LocalFlag, SessionFlag, WriterExclusion,
                FilesAccounted
  <2>3. SessionImages' BY <1>2 DEF OpenSource, SessionImages
  <2>4. QED BY <2>1, <2>2, <2>3
<1>3. CASE ReadFrame \/ LeaveLoop
  <2>1. TypeOK' BY <1>3 DEF ReadFrame, LeaveLoop, TypeOK, ThreadStates
  <2>2. Others'
    BY <1>3 DEF ReadFrame, LeaveLoop, LocalFlag, SessionFlag,
                WriterExclusion, FilesAccounted
  <2>3. SessionImages' BY <1>3 DEF ReadFrame, LeaveLoop, SessionImages
  <2>4. QED BY <2>1, <2>2, <2>3
<1>4. CASE Snapshot
  <2>1. TypeOK' BY <1>4 DEF Snapshot, TypeOK, ThreadStates
  <2>2. Others'
    BY <1>4 DEF Snapshot, TypeOK, LocalFlag, SessionFlag, WriterExclusion,
                FilesAccounted
  <2>3. SessionImages' BY <1>4 DEF Snapshot, SessionImages
  <2>4. QED BY <2>1, <2>2, <2>3
<1>5. CASE ClearPending
  <2>1. TypeOK' BY <1>5 DEF ClearPending, TypeOK, ThreadStates
  <2>2. Others'
    BY <1>5 DEF ClearPending, TypeOK, LocalFlag, SessionFlag,
                WriterExclusion, FilesAccounted
  <2>3. SessionImages' BY <1>5 DEF ClearPending, SessionImages
  <2>4. QED BY <2>1, <2>2, <2>3
<1>6. CASE BeginAnomaly
  <2>1. TypeOK'
    <3>1. openFailed' \in {openFailed, TRUE} /\ UNCHANGED shared
      BY <1>6, Zenon DEF BeginAnomaly
    <3>2. TypeFlags'
      BY <3>1, Zenon DEF TypeOK, TypeFlags
    <3>3. /\ pc' \in {"activate", "record"} /\ normal' = Closed
          /\ anomaly' \in {anomaly, Opened(AnomalySeconds)}
          /\ UNCHANGED <<loc, segment>>
          /\ frameIndex' \in {frameIndex, 0} /\ images' \in {images, {}}
          /\ unreported' \in {unreported - Count(normal),
                              unreported - Count(normal) + 1}
      BY <1>6, Zenon DEF BeginAnomaly
    <3>4. unreported' \in Int
      BY <3>3 DEF TypeOK, Count
    <3>5. /\ normal' \in [open : BOOLEAN, seconds : Nat]
          /\ anomaly' \in [open : BOOLEAN, seconds : Nat]
      BY <3>3, TaskTypes, Zenon DEF TypeOK
    <3>6. TypeData'
      BY <3>3, <3>4, <3>5 DEF TypeOK, TypeData, ThreadStates
    <3>7. QED BY <3>2, <3>6, Zenon DEF TypeOK, TypeFlags, TypeData
  <2>2. Others'
    BY <1>6 DEF BeginAnomaly, TypeOK, LocalFlag, SessionFlag,
                WriterExclusion, FilesAccounted, Closed, Opened, Count
  <2>3. SessionImages'
    BY <1>6 DEF BeginAnomaly, SessionImages, LocalFlag
  <2>4. QED BY <2>1, <2>2, <2>3
<1>7. CASE Activate
  <2>1. TypeOK' BY <1>7 DEF Activate, TypeOK, ThreadStates
  <2>2. Others'
    BY <1>7 DEF Activate, TypeOK, LocalFlag, SessionFlag, WriterExclusion,
                FilesAccounted
  <2>3. SessionImages' BY <1>7 DEF Activate, SessionImages
  <2>4. QED BY <2>1, <2>2, <2>3
<1>8. CASE RecordAnomaly
  <2>0. anomaly.open /\ ~normal.open
    BY <1>8 DEF RecordAnomaly, LocalFlag, WriterExclusion
  <2>1. CASE EndSession
    <3>1. TypeOK'
      <4>1. TypeFlags'
        BY <1>8, <2>1, Zenon DEF RecordAnomaly, EndSession, TypeOK, TypeFlags
      <4>2. TypeData'
        BY <1>8, <2>1, AnomalyAssumption
           DEF RecordAnomaly, EndSession, TypeOK, TypeData, ThreadStates,
               Closed,
               Opened, Count
      <4>3. QED BY <4>1, <4>2, Zenon DEF TypeOK, TypeFlags, TypeData
    <3>2. Others'
      <4>1. FilesAccounted'
        BY <1>8, <2>0, <2>1
           DEF RecordAnomaly, EndSession, FilesAccounted, Closed, Count
      <4>2. LocalFlag' /\ SessionFlag' /\ WriterExclusion'
        BY <1>8, <2>0, <2>1
           DEF RecordAnomaly, EndSession, LocalFlag, SessionFlag,
               WriterExclusion, Closed
      <4>3. QED BY <4>1, <4>2
    <3>3. SessionImages'
      BY <2>1 DEF EndSession, SessionImages
    <3>4. QED BY <3>1, <3>2, <3>3
  <2>2. CASE /\ images' \in {images,
                             images \cup ({frameIndex} \cap ImageIndices)}
             /\ frameIndex' = NextIndex
             /\ UNCHANGED <<pending, active, anomaly, unreported>>
    <3>1. TypeOK'
      BY <1>8, <2>2, NextIndexType DEF RecordAnomaly, TypeOK, ThreadStates
    <3>2. Others'
      BY <1>8, <2>0, <2>2
         DEF RecordAnomaly, TypeOK, LocalFlag, SessionFlag,
             WriterExclusion, FilesAccounted, Count
    <3>3. ASSUME NEW i \in images' PROVE i < frameIndex'
      <4>1. CASE i \in images
        BY <2>2, <4>1, NextIndexType, AnomalyAssumption
           DEF SessionImages, TypeOK
      <4>2. CASE i = frameIndex /\ frameIndex \in ImageIndices
        BY <2>2, <4>2, NextIndexGrows DEF TypeOK
      <4>3. QED BY <2>2, <3>3, <4>1, <4>2
    <3>4. SessionImages' BY <2>0, <2>2, <3>3 DEF SessionImages
    <3>5. QED BY <3>1, <3>2, <3>4
  <2>3. QED BY <1>8, <2>1, <2>2 DEF RecordAnomaly
<1>9. CASE RecordNormal
  <2>0. ~anomaly.open
    BY <1>9, SMTT(30)
            DEF RecordNormal, LocalFlag
  <2>1. TypeOK'
    <3>1. openFailed' \in {openFailed, TRUE} /\ UNCHANGED shared
      BY <1>9, Zenon DEF RecordNormal, StartNormal, StopNormal
    <3>2. TypeFlags'
      BY <3>1, Zenon DEF TypeOK, TypeFlags
    <3>3. /\ pc' = "loop" /\ normal' \in {normal, Closed, Opened(0)}
          /\ UNCHANGED <<segment, loc, session>>
          /\ unreported' \in {unreported, unreported + 1, unreported - 1,
                              unreported - 1 + 1, unreported - Count(normal)}
      BY <1>9, Zenon DEF RecordNormal, StartNormal, StopNormal
    <3>4. unreported' \in Int
      BY <3>3 DEF TypeOK, Count
    <3>5. normal' \in [open : BOOLEAN, seconds : Nat]
      BY <3>3, TaskTypes, Zenon DEF TypeOK
    <3>6. TypeData'
      BY <3>3, <3>4, <3>5 DEF TypeOK, TypeData, ThreadStates
    <3>7. QED BY <3>2, <3>6, Zenon DEF TypeOK, TypeFlags, TypeData
  <2>2. Others'
    BY <1>9, <2>0
       DEF RecordNormal, StartNormal, StopNormal, TypeOK, LocalFlag,
           SessionFlag, WriterExclusion, FilesAccounted, Closed, Opened, Count
  <2>3. SessionImages'
    BY <1>9, <2>0 DEF RecordNormal, SessionImages
  <2>4. QED BY <2>1, <2>2, <2>3
<1>10. CASE FlushAnomaly
  <2>1. TypeOK'
    <3>1. TypeFlags'
      BY <1>10, Zenon DEF FlushAnomaly, TypeOK, TypeFlags
    <3>2. TypeData'
      BY <1>10, AnomalyAssumption
         DEF FlushAnomaly, TypeOK, TypeData, ThreadStates, Closed,
             Opened, Count
    <3>3. QED BY <3>1, <3>2, Zenon DEF TypeOK, TypeFlags, TypeData
  <2>2. Others'
    <3>1. FilesAccounted'
      BY <1>10 DEF FlushAnomaly, TypeOK, FilesAccounted, Closed, Count
    <3>2. LocalFlag' /\ SessionFlag' /\ WriterExclusion'
      BY <1>10 DEF FlushAnomaly, LocalFlag, SessionFlag,
                   WriterExclusion, Closed
    <3>3. QED BY <3>1, <3>2
  <2>3. SessionImages' BY <1>10 DEF FlushAnomaly, SessionImages
  <2>4. QED BY <2>1, <2>2, <2>3
<1>11. CASE FlushNormal
  <2>1. TypeOK'
    <3>1. TypeFlags'
      BY <1>11, Zenon DEF FlushNormal, StopNormal, TypeOK, TypeFlags
    <3>2. TypeData'
      BY <1>11, AnomalyAssumption
         DEF FlushNormal, StopNormal, TypeOK, TypeData, ThreadStates, Closed,
             Opened, Count
    <3>3. QED BY <3>1, <3>2, Zenon DEF TypeOK, TypeFlags, TypeData
  <2>2. Others'
    <3>1. FilesAccounted'
      BY <1>11
         DEF FlushNormal, StopNormal, TypeOK, FilesAccounted, Closed, Count
    <3>2. LocalFlag' /\ SessionFlag' /\ WriterExclusion'
      BY <1>11 DEF FlushNormal, StopNormal, LocalFlag, SessionFlag,
                   WriterExclusion, Closed
    <3>3. QED BY <3>1, <3>2
  <2>3. SessionImages'
    BY <1>11 DEF FlushNormal, SessionImages
  <2>4. QED BY <2>1, <2>2, <2>3
<1>12. CASE \E on \in BOOLEAN : SetRecordingEnabled(on)
  <2>1. TypeOK' BY <1>12 DEF SetRecordingEnabled, TypeOK
  <2>2. Others'
    BY <1>12 DEF SetRecordingEnabled, LocalFlag, SessionFlag,
                 WriterExclusion, FilesAccounted
  <2>3. SessionImages' BY <1>12 DEF SetRecordingEnabled, SessionImages
  <2>4. QED BY <2>1, <2>2, <2>3
<1>13. CASE \E s \in SegmentChoices : SetSegmentDuration(s)
  <2>1. TypeOK' BY <1>13 DEF SetSegmentDuration, TypeOK, Segments
  <2>2. Others'
    BY <1>13 DEF SetSegmentDuration, LocalFlag, SessionFlag,
                 WriterExclusion, FilesAccounted
  <2>3. SessionImages' BY <1>13 DEF SetSegmentDuration, SessionImages
  <2>4. QED BY <2>1, <2>2, <2>3
<1>14. CASE NotifyAnomalyDetected
  <2>1. TypeOK' BY <1>14 DEF NotifyAnomalyDetected, TypeOK
  <2>2. Others'
    BY <1>14 DEF NotifyAnomalyDetected, LocalFlag, SessionFlag,
                 WriterExclusion, FilesAccounted
  <2>3. SessionImages' BY <1>14 DEF NotifyAnomalyDetected, SessionImages
  <2>4. QED BY <2>1, <2>2, <2>3
<1>15. CASE Stop
  <2>1. TypeOK' BY <1>15 DEF Stop, TypeOK
  <2>2. Others'
    BY <1>15 DEF Stop, LocalFlag, SessionFlag, WriterExclusion,
                 FilesAccounted
  <2>3. SessionImages' BY <1>15 DEF Stop, SessionImages
  <2>4. QED BY <2>1, <2>2, <2>3
<1>16. CASE Tick
  <2>0. normal'.open = normal.open /\ anomaly'.open = anomaly.open
    BY <1>16 DEF Tick, TypeOK
  <2>1. TypeOK' BY <1>16 DEF Tick, TypeOK
  <2>2. Others'
    BY <1>16, <2>0 DEF Tick, LocalFlag, SessionFlag, WriterExclusion,
                       FilesAccounted, Count
  <2>3. SessionImages' BY <1>16, <2>0 DEF Tick, SessionImages
  <2>4. QED BY <2>1, <2>2, <2>3
<1>17. CASE UNCHANGED vars
  <2>1. TypeOK' BY <1>17 DEF vars, TypeOK
  <2>2. Others'
    BY <1>17 DEF vars, LocalFlag, SessionFlag, WriterExclusion,
                 FilesAccounted, Count
  <2>3. SessionImages' BY <1>17 DEF vars, SessionImages
  <2>4. QED BY <2>1, <2>2, <2>3
<1>18. QED
  BY <1>1, <1>2, <1>3, <1>4, <1>5, <1>6, <1>7, <1>8, <1>9, <1>10, <1>11,
     <1>12, <1>13, <1>14, <1>15, <1>16, <1>17
     DEF Next, ThreadStep, ReadNothing

\* The invariant holds throughout.
LEMMA Invariant == Spec => []IInv
<1>1. QED
  BY InitInvariant, StepInvariant, PTL DEF Spec

\* Every variable of the channel keeps to its type.
THEOREM TypeCorrect == Spec => []TypeOK
<1>1. IInv => TypeOK
  BY DEF IInv
<1>2. QED
  BY Invariant, <1>1, PTL

\* The normal and the anomaly writer of a channel are never open at once.
THEOREM ExclusiveWriters == Spec => []WriterExclusion
<1>1. IInv => WriterExclusion
  BY DEF IInv
<1>2. QED
  BY Invariant, <1>1, PTL

\* m_anomalyActive tells the UI thread what the anomaly writer does.
THEOREM FlagTracksWriter == Spec => []SessionFlag
<1>1. IInv => SessionFlag
  BY DEF IInv
<1>2. QED
  BY Invariant, <1>1, PTL

\* Every file a channel opens is announced exactly once, after it is closed.
THEOREM EveryFileAnnounced == Spec => []FilesAccounted
<1>1. IInv => FilesAccounted
  BY DEF IInv
<1>2. QED
  BY Invariant, <1>1, PTL

\* The images announced with a session were taken from its own frames.
THEOREM ImagesOfTheSession == Spec => []SessionImages
<1>1. IInv => SessionImages
  BY DEF IInv
<1>2. QED
  BY Invariant, <1>1, PTL

\* No frame falls between two files while recording is on.
THEOREM GapFree == Spec => NoRecordingGap
<1> DEFINE Kept ==
      pc = "record" /\ pc' = "loop" /\ loc.enabled /\ ~openFailed' =>
        IF loc.active THEN anomaly.open ELSE normal'.open
<1>1. IInv /\ [Next]_vars => [Kept]_vars
  <2> SUFFICES ASSUME IInv, Next, pc = "record", pc' = "loop",
                      loc.enabled, ~openFailed'
               PROVE  IF loc.active THEN anomaly.open ELSE normal'.open
    OBVIOUS
  <2>1. RecordAnomaly \/ RecordNormal
    BY DEF Next, ThreadStep, Start, OpenSource, ReadFrame, ReadNothing,
           LeaveLoop, Snapshot, ClearPending, BeginAnomaly, Activate,
           FlushAnomaly, FlushNormal, SetRecordingEnabled,
           SetSegmentDuration, NotifyAnomalyDetected, Stop, Tick, vars
  <2>2. CASE RecordAnomaly
    BY <2>2 DEF RecordAnomaly, IInv, LocalFlag
  <2>3. CASE RecordNormal
    BY <2>3 DEF RecordNormal, StartNormal, Opened, IInv, TypeOK
  <2>4. QED BY <2>1, <2>2, <2>3
<1>2. QED
  BY Invariant, <1>1, PTL DEF Spec, NoRecordingGap
=============================================================================
