--------------------------- MODULE RegulatorsProofs ---------------------------
(***************************************************************************)
(* What the ring of sleep, digestion, trials and reviews keeps to, for     *)
(* every set of methods and all limits, wherever a cycle is killed.        *)
(***************************************************************************)
EXTENDS Regulators, TLAPS

Sleep == [state: {"NONE", "AWAKE", "WAKE_TRANSITION"} \cup Asleep,
          since: 0..OldSleep, slept: 0..MaxSleep]

LEMMA Limits ==
  /\ OldSleep \in Nat /\ OldDigestion \in Nat /\ Never = OldDigestion + 1
  /\ {MaxSleep, MinAwake, MaxAwake, MinSleep, Grace, Stall, Window} \subseteq Nat
  /\ Grace < OldDigestion
  /\ 0 \in 0..Never /\ 0 \in 0..OldSleep /\ 0 \in 0..MaxSleep /\ 0 \in 0..(MaxSleep + 2)
  BY RegulatorsAssumption DEF OldSleep, OldDigestion, Never

LEMMA OlderType ==
  ASSUME NEW limit \in Nat, NEW age \in 0..limit
  PROVE  Older(age, limit) \in 0..limit /\ age <= Older(age, limit)
  BY DEF Older

LEMMA SleepTypes ==
  ASSUME TypeOK
  PROVE  /\ sleep \in Sleep /\ NoFile \in Sleep
         /\ Begin => sleep' \in Sleep
         /\ Decide \in {"AWAKE", "WAKE_TRANSITION"} \cup Asleep
         /\ \A hungry : Gate(hungry) => sleep' \in Sleep
<1>1. sleep \in Sleep /\ NoFile \in Sleep
  BY Limits DEF TypeOK, Sleep, NoFile
<1>2. Begin => sleep' \in Sleep
  <2>1. /\ Older(sleep.since, OldSleep) \in 0..OldSleep
        /\ Older(sleep.slept, MaxSleep) \in 0..MaxSleep /\ 0 \in 0..MaxSleep
    BY <1>1, Limits, OlderType DEF Sleep
  <2>2. QED
    BY <1>1, <2>1 DEF Begin, Sleep
<1>3. Decide \in {"AWAKE", "WAKE_TRANSITION"} \cup Asleep
  BY <1>1 DEF Decide, State, Asleep, Sleep
<1>4. ASSUME NEW hungry, Gate(hungry) PROVE sleep' \in Sleep
  <2>1. \/ sleep' = sleep
        \/ sleep' = [sleep EXCEPT !.state = Decide, !.since = 0]
    BY <1>4 DEF Gate, Stepped
  <2>2. [sleep EXCEPT !.state = Decide, !.since = 0] \in Sleep
    BY <1>1, <1>3, Limits DEF Sleep
  <2>3. QED
    BY <1>1, <2>1, <2>2
<1>5. QED
  BY <1>1, <1>2, <1>3, <1>4

LEMMA TypeStep ==
  ASSUME TypeOK, [Next]_vars
  PROVE  TypeOK'
<1> USE DEF TypeOK, Steps, Then
<1>1. CASE Begin
  <2>1. sleep' \in Sleep
    BY <1>1, SleepTypes
  <2>2. {stalled', idle'} \subseteq 0..Never
    BY <1>1, Limits DEF Begin, Older
  <2>3. tags' \subseteq 0..Window
    BY <1>1, Limits DEF Begin, Waiting
  <2>4. QED
    BY <1>1, <2>1, <2>2, <2>3 DEF Begin, Sleep
<1>2. ASSUME NEW hungry \in BOOLEAN, Gate(hungry) PROVE TypeOK'
  <2>1. sleep' \in Sleep
    BY <1>2, SleepTypes
  <2>2. fasting' \in 0..(MaxSleep + 2) /\ intake' \in BOOLEAN
    BY <1>2, Limits DEF Gate, Stepped, Older
  <2>3. QED
    BY <1>2, <2>1, <2>2 DEF Gate, Stepped, Sleep
<1>3. ASSUME NEW ms \in SUBSET Method, Admit(ms) PROVE TypeOK'
  BY <1>3 DEF Admit, Trials, disk, history
<1>4. ASSUME NEW done \in SUBSET Method, NEW good \in SUBSET Method, Try(done, good)
      PROVE  TypeOK'
  <2>1. shelf' \in [Method -> Trials]
    BY <1>4 DEF Try, Trials
  <2>2. ext' \in Reports
    BY <1>4 DEF Try, Report, Reports
  <2>3. skills' \subseteq Method
    BY <1>4 DEF Try
  <2>4. idle' \in 0..Never
    BY <1>4, Limits DEF Try
  <2>5. QED
    BY <1>4, <2>1, <2>2, <2>3, <2>4 DEF Try
<1>5. ASSUME NEW done \in SUBSET Method, NEW over \in SUBSET Method, Retry(done, over)
      PROVE  TypeOK'
  <2>1. shelf' \in [Method -> Trials]
    BY <1>5 DEF Retry, Trials
  <2>2. ext' \in Reports
    BY <1>5 DEF Retry, Reports
  <2>3. idle' \in 0..Never
    BY <1>5, Limits DEF Retry
  <2>4. QED
    BY <1>5, <2>1, <2>2, <2>3 DEF Retry, disk
<1>6. ASSUME NEW any \in BOOLEAN, Resolve(any) PROVE TypeOK'
  BY <1>6 DEF Resolve, Reports, disk
<1>7. ASSUME NEW some \in SUBSET (0..Window), NEW fresh \in BOOLEAN, Review(some, fresh)
      PROVE  TypeOK'
  <2>1. ext' \in Reports
    BY <1>7 DEF Review, Reports
  <2>2. idle' \in 0..Never
    BY <1>7, Limits DEF Review
  <2>3. tags' \subseteq 0..Window
    BY <1>7, Limits DEF Review
  <2>4. QED
    BY <1>7, <2>1, <2>2, <2>3 DEF Review
<1>8. CASE Note
  <2>1. stalled' \in 0..Never
    BY <1>8, Limits DEF Note
  <2>2. QED
    BY <1>8, <2>1 DEF Note, history
<1>9. CASE SaveCore \/ SaveExtensions
  BY <1>9 DEF SaveCore, SaveExtensions, Gone, history
<1>10. CASE Crash
  <2>1. sleep' \in Sleep
    BY <1>10, SleepTypes DEF Crash, Torn
  <2>2. stalled' \in 0..Never
    BY <1>10, Limits DEF Crash, Torn
  <2>3. QED
    BY <1>10, <2>1, <2>2 DEF Crash, Gone, Sleep
<1>11. CASE UNCHANGED vars
  BY <1>11 DEF vars, disk, history
<1>12. QED
  BY <1>1, <1>2, <1>3, <1>4, <1>5, <1>6, <1>7, <1>8, <1>9, <1>10, <1>11 DEF Next

\* The variables stay in their types: no age or count leaves the range its limits give it.
THEOREM TypeInvariant == Spec => []TypeOK
<1>1. Init => TypeOK
  <2> SUFFICES ASSUME Init PROVE TypeOK
    OBVIOUS
  <2>1. sleep \in Sleep
    BY Limits DEF Init, Sleep, NoFile
  <2>2. ext \in Reports /\ saved \in Reports
    BY DEF Init, NoReport, Reports
  <2>3. shelf \in [Method -> Trials] /\ core \in [Method -> Trials]
    BY DEF Init, Trials
  <2>4. Never \in 0..Never
    BY Limits
  <2>5. QED
    BY <2>1, <2>2, <2>3, <2>4, Limits DEF Init, TypeOK, Steps, Sleep
<1>2. QED
  BY <1>1, TypeStep, PTL DEF Spec

-----------------------------------------------------------------------------
(* Sleep. *)

\* Asleep, he has fasted for no longer than the cycles he has slept, the first of them counted
\* with the gate that sent him to sleep; awake, he does not fast.  A marker that is torn is
\* that of somebody awake.
FastsBySleep ==
  /\ sleep.state \in Asleep =>
       \/ fasting <= sleep.slept
       \/ pc # "gate" /\ sleep.slept < MaxSleep /\ fasting <= sleep.slept + 1
  /\ sleep.state = "AWAKE" => fasting = 0 /\ (pc = "gate" => sleep.slept = 0)
  /\ sleep.state = "NONE" => sleep = NoFile
  /\ FastsEnd

LEMMA FastsStep ==
  ASSUME 1 <= MinAwake, 1 <= MaxSleep, TypeOK, FastsBySleep, [Next]_vars
  PROVE  FastsBySleep'
<1>1. /\ sleep \in Sleep /\ fasting \in 0..(MaxSleep + 2) /\ MaxSleep \in Nat /\ MinAwake \in Nat
      /\ sleep.slept \in 0..MaxSleep /\ sleep.since \in 0..OldSleep /\ OldSleep \in Nat
  BY Limits, SleepTypes DEF TypeOK, Sleep
<1> USE DEF FastsBySleep, FastsEnd
<1>2. CASE Begin
  <2>1. fasting' = fasting /\ pc' = "gate"
    BY <1>2 DEF Begin, Then
  <2>2. CASE sleep.state = "NONE"
    BY <1>2, <2>1, <2>2, <1>1 DEF Begin, NoFile, Asleep
  <2>3. CASE sleep.state = "AWAKE"
    <3>1. sleep' = [sleep EXCEPT !.since = Older(@, OldSleep), !.slept = 0]
      BY <1>2, <2>3 DEF Begin
    <3>2. sleep'.state = "AWAKE" /\ sleep'.slept = 0
      BY <1>1, <2>3, <3>1 DEF Sleep
    <3>3. QED
      BY <1>1, <2>1, <2>3, <3>2 DEF Asleep
  <2>4. CASE sleep.state \in Asleep \cup {"WAKE_TRANSITION"}
    <3>1. sleep' = [sleep EXCEPT !.since = Older(@, OldSleep), !.slept = Older(@, MaxSleep)]
      BY <1>2, <2>4 DEF Begin, Asleep
    <3>2. sleep'.state = sleep.state /\ sleep'.slept = Older(sleep.slept, MaxSleep)
      BY <1>1, <3>1 DEF Sleep
    <3>3. QED
      BY <1>1, <2>1, <2>4, <3>2 DEF Asleep, Older
  <2>5. QED
    BY <1>1, <2>2, <2>3, <2>4 DEF Sleep
<1>3. ASSUME NEW hungry \in BOOLEAN, Gate(hungry) PROVE FastsBySleep'
  <2>1. /\ pc = "gate" /\ pc' # "gate"
        /\ sleep' = IF Decide = sleep.state THEN sleep
                    ELSE [sleep EXCEPT !.state = Decide, !.since = 0]
        /\ fasting' = IF Suppressed(Decide) THEN Older(fasting, MaxSleep + 2) ELSE 0
    BY <1>3 DEF Gate, Stepped, Then
  <2>2. sleep'.state = Decide /\ sleep'.slept = sleep.slept
    BY <1>1, <2>1 DEF Sleep
  <2>3. fasting' \in {0, fasting + 1} /\ (Decide = "AWAKE" => fasting' = 0)
    BY <1>1, <2>1 DEF Suppressed, Older
  <2>4. Decide # "NONE"
    BY SleepTypes DEF Asleep
  <2>5. CASE sleep.state = "NONE"
    <3>1. State = "AWAKE" /\ sleep.since = 0
      BY <2>5 DEF State, NoFile
    <3>2. Decide = "AWAKE"
      BY <1>1, <2>5, <3>1 DEF Decide, FallsAsleep, Asleep
    <3>3. QED
      BY <1>1, <2>1, <2>2, <2>3, <3>2 DEF Asleep
  <2>6. CASE sleep.state = "AWAKE"
    <3>0. State = "AWAKE"
      BY <2>6 DEF State
    <3>1. Decide \in {"AWAKE", "SLEEP_LIGHT"}
      BY <2>6, <3>0 DEF Decide, Asleep
    <3>2. QED
      BY <1>1, <2>1, <2>2, <2>3, <2>6, <3>1 DEF Asleep
  <2>7. CASE sleep.state = "WAKE_TRANSITION"
    <3>1. Decide = "AWAKE"
      BY <2>7 DEF Decide, State, NoFile, Asleep
    <3>2. QED
      BY <1>1, <2>1, <2>2, <2>3, <3>1 DEF Asleep
  <2>8. CASE sleep.state \in Asleep
    <3>1. \/ Decide = "WAKE_TRANSITION"
          \/ Decide \in Asleep /\ sleep.slept < MaxSleep
      BY <1>1, <2>8 DEF Decide, State, NoFile, Asleep, Wakes, Capped
    <3>2. QED
      BY <1>1, <2>1, <2>2, <2>3, <2>8, <3>1 DEF Asleep
  <2>9. QED
    BY <1>1, <2>5, <2>6, <2>7, <2>8 DEF Sleep
<1>4. CASE Crash
  BY <1>1, <1>4 DEF Crash, Torn, Gone, NoFile, Asleep
<1>5. CASE UNCHANGED <<sleep, fasting>> /\ pc' # "gate"
  BY <1>1, <1>5
<1>6. CASE UNCHANGED vars
  BY <1>6 DEF vars, disk, history
<1>7. QED
  BY <1>2, <1>3, <1>4, <1>5, <1>6
  DEF Next, Admit, Try, Retry, Resolve, Review, Note, SaveCore, SaveExtensions, Then, Gone,
      disk, history

\* Sleep never keeps intake shut for longer than the cap and the cycle of transition.
THEOREM FastsInvariant ==
  ASSUME 1 <= MinAwake, 1 <= MaxSleep
  PROVE  Spec => []FastsEnd
<1>1. Init => FastsBySleep
  BY Limits DEF Init, FastsBySleep, FastsEnd, NoFile, Asleep
<1>2. TypeOK /\ FastsBySleep /\ [Next]_vars => FastsBySleep'
  BY FastsStep
<1>3. QED
  BY <1>1, <1>2, TypeInvariant, PTL DEF Spec, FastsBySleep

-----------------------------------------------------------------------------
(* Intake and digestion. *)

\* What the marker calls digestion was real work, no older than the marker says; a report of
\* work in the extensions is one of this cycle once its arm has been.
WorkBehindReports ==
  /\ stalled = Never \/ idle <= stalled
  /\ ext.retried \/ saved.retried => skills # {}
  /\ pc \in {"retrials", "emerge", "decisions", "hindsight", "note"} /\ ext.tested => idle = 0
  /\ pc \in {"emerge", "decisions", "hindsight", "note"} /\ ext.retried => idle = 0
  /\ pc = "note" /\ ext.reviewed => idle = 0
  /\ IntakeFollowsDigestion

LEMMA WorkStep ==
  ASSUME Trying = {TRUE}, TypeOK, WorkBehindReports, [Next]_vars
  PROVE  WorkBehindReports'
<1>1. /\ stalled \in 0..Never /\ idle \in 0..Never /\ Never \in Nat /\ Grace \in Nat
      /\ trying = TRUE /\ ext \in Reports /\ saved \in Reports
  BY Limits DEF TypeOK
<1> USE DEF WorkBehindReports, IntakeFollowsDigestion, Then
<1>2. CASE Begin
  <2>1. stalled' = Older(stalled, OldDigestion) /\ idle' = Older(idle, OldDigestion)
    BY <1>2 DEF Begin
  <2>2. stalled' = Never \/ idle' <= stalled'
    BY <1>1, <2>1, Limits DEF Older
  <2>3. QED
    BY <1>2, <2>2 DEF Begin
<1>3. ASSUME NEW hungry \in BOOLEAN, Gate(hungry) PROVE WorkBehindReports'
  <2>1. /\ pc' = "harvest" /\ UNCHANGED <<stalled, skills, ext, saved, idle>>
        /\ intake' /\ Coupled => IntakePermitted
    BY <1>3 DEF Gate, Stepped
  <2>2. QED
    BY <1>1, <2>1 DEF IntakePermitted
<1>4. ASSUME NEW ms \in SUBSET Method, Admit(ms) PROVE WorkBehindReports'
  BY <1>4 DEF Admit, disk, history
<1>5. ASSUME NEW done \in SUBSET Method, NEW good \in SUBSET Method, Try(done, good)
      PROVE  WorkBehindReports'
  <2>1. /\ ext'.tested => done # {}
        /\ ext'.retried = ext.retried
        /\ pc = "trials" /\ pc' = "retrials" /\ skills \subseteq skills'
        /\ idle' = (IF done # {} THEN 0 ELSE idle) /\ UNCHANGED <<stalled, saved, intake>>
    BY <1>1, <1>5 DEF Try, Report, Reports
  <2>2. QED
    BY <1>1, <2>1
<1>6. ASSUME NEW done \in SUBSET Method, NEW over \in SUBSET Method, Retry(done, over)
      PROVE  WorkBehindReports'
  <2>1. /\ ext'.tested = ext.tested
        /\ ext'.retried => done # {} /\ skills # {}
        /\ pc = "retrials" /\ pc' = "emerge"
        /\ idle' = (IF done # {} THEN 0 ELSE idle) /\ UNCHANGED <<stalled, saved, skills, intake>>
    BY <1>1, <1>6 DEF Retry, Reports, disk
  <2>2. QED
    BY <1>1, <2>1
<1>7. ASSUME NEW any \in BOOLEAN, Resolve(any) PROVE WorkBehindReports'
  BY <1>1, <1>7 DEF Resolve, Reports, disk
<1>8. ASSUME NEW some \in SUBSET (0..Window), NEW fresh \in BOOLEAN, Review(some, fresh)
      PROVE  WorkBehindReports'
  <2>1. /\ ext'.tested = ext.tested /\ ext'.retried = ext.retried
        /\ ext'.reviewed => some # {}
        /\ pc = "hindsight" /\ pc' = "note"
        /\ idle' = (IF some # {} THEN 0 ELSE idle) /\ UNCHANGED <<stalled, saved, skills, intake>>
    BY <1>1, <1>8 DEF Review, Reports
  <2>2. QED
    BY <1>1, <2>1
<1>9. CASE Note
  BY <1>1, <1>9 DEF Note, Digested, history
<1>10. CASE SaveCore \/ SaveExtensions
  BY <1>10 DEF SaveCore, SaveExtensions, Gone, history
<1>11. CASE Crash
  BY <1>11 DEF Crash, Torn, Gone
<1>12. CASE UNCHANGED vars
  BY <1>12 DEF vars, disk, history
<1>13. QED
  BY <1>2, <1>3, <1>4, <1>5, <1>6, <1>7, <1>8, <1>9, <1>10, <1>11, <1>12 DEF Next

\* Under the coupling, a cycle takes methods in only with real work behind it, as long as the
\* trials are switched on in every process.
THEOREM IntakeInvariant ==
  ASSUME Trying = {TRUE}
  PROVE  Spec => []IntakeFollowsDigestion
<1>1. Init => WorkBehindReports
  BY DEF Init, WorkBehindReports, IntakeFollowsDigestion, NoReport
<1>2. TypeOK /\ WorkBehindReports /\ [Next]_vars => WorkBehindReports'
  BY WorkStep
<1>3. QED
  BY <1>1, <1>2, TypeInvariant, PTL DEF Spec, WorkBehindReports
=============================================================================
