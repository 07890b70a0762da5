------------------------- MODULE DsetCampaignProofs -------------------------
(***************************************************************************)
(* Theorems about DsetCampaign, for every corpus, every K and any number   *)
(* of interruptions, those inside a write included.                        *)
(***************************************************************************)
EXTENDS DsetCampaign, TLAPS

\* The inductive invariant: the tasks a process still has to run have left
\* nothing in the file, not even an unfinished row, nobody has more than K
\* rows, and K of them are only found for a task that obtained them.
IInv ==
  /\ TypeOK
  /\ pc = "running" => \A t \in todo : rows[t] = 0 /\ t \notin voids
  /\ \A t \in Tasks : /\ rows[t] <= K
                      /\ tail = t => rows[t] > 0
                      /\ rows[t] = K => outcome[t] = "ok"

\* What a write of `lines` rows and a last piece does to the file, for a task
\* that has no row in it.
LEMMA WriteEffect ==
  ASSUME IInv, NEW t \in Tasks, rows[t] = 0,
         NEW lines \in 0 .. K, NEW piece \in {Clean, Fragment, t},
         piece = t => lines < K,
         Write(t, lines, piece)
  PROVE  /\ rows' \in [Tasks -> Nat]
         /\ tail' \in 0 .. N + 1
         /\ garbled' \in BOOLEAN
         /\ rows'[t] <= lines + (IF piece = t THEN 1 ELSE 0)
         /\ \A u \in Tasks \ {t} : rows'[u] <= rows[u]
         /\ \A u \in Tasks \ {t} : rows[u] = 0 => rows'[u] = 0
         /\ \A u \in Tasks : tail' = u => u = t /\ rows'[u] > 0
<1>0. /\ N \in Nat \ {0} /\ K \in Nat \ {0}
      /\ Tasks = 1 .. N /\ Clean = 0 /\ Fragment = N + 1
  BY CampaignAssumption DEF Tasks, Clean, Fragment
<1>1. rows \in [Tasks -> Nat] /\ tail \in 0 .. N + 1 /\ garbled \in BOOLEAN
  BY DEF IInv, TypeOK
<1>2. \A u \in Tasks : tail = u => rows[u] > 0
  BY DEF IInv
<1>3. tail # t
  BY <1>2
<1> DEFINE unfinished == IF piece = t THEN 1 ELSE 0
           intact == IF tail = Clean THEN lines + unfinished
                     ELSE IF lines > 0 THEN lines - 1 + unfinished
                     ELSE 0
<1>4. unfinished \in 0 .. 1 /\ (unfinished = 1 <=> piece = t)
  OBVIOUS
<1>5. intact \in Nat /\ intact <= lines + unfinished
  BY <1>0, <1>4
<1>6. /\ rows' = [u \in Tasks |->
                    rows[u] - (IF u = tail THEN 1 ELSE 0)
                            + (IF u = t THEN intact ELSE 0)]
      /\ tail' = IF tail # Clean /\ lines = 0 THEN Fragment ELSE piece
  BY DEF Write
<1>7. garbled' \in BOOLEAN
  BY DEF Write
<1>8. rows'[t] = intact
  BY <1>1, <1>3, <1>5, <1>6
<1>9. ASSUME NEW u \in Tasks \ {t}
      PROVE  /\ rows'[u] \in Nat /\ rows'[u] <= rows[u]
             /\ rows[u] = 0 => rows'[u] = 0
  BY <1>1, <1>2, <1>6
<1>10. rows' \in [Tasks -> Nat]
  BY <1>5, <1>6, <1>8, <1>9
<1>11. tail' \in 0 .. N + 1
  BY <1>0, <1>6
<1>12. ASSUME NEW u \in Tasks, tail' = u PROVE u = t /\ rows'[u] > 0
  <2>1. piece = t /\ u = t
    BY <1>0, <1>6, <1>12
  <2>2. tail = Clean \/ lines > 0
    BY <1>0, <1>6, <1>12
  <2>3. intact > 0
    BY <1>0, <1>4, <2>1, <2>2
  <2>4. QED
    BY <1>8, <2>1, <2>3
<1>13. QED
  BY <1>4, <1>5, <1>7, <1>8, <1>9, <1>10, <1>11, <1>12

LEMMA InvariantInductive == Spec => []IInv
<1>0. /\ N \in Nat \ {0} /\ K \in Nat \ {0} /\ MaxAborts \in Nat
      /\ Tasks = 1 .. N /\ Clean = 0 /\ Fragment = N + 1
  BY CampaignAssumption DEF Tasks, Clean, Fragment
<1>1. Init => IInv
  <2> SUFFICES ASSUME Init PROVE IInv
    OBVIOUS
  <2>1. /\ rows \in [Tasks -> Nat] /\ \A t \in Tasks : rows[t] = 0
        /\ outcome \in [Tasks -> {"none", "ok", "void"}]
    BY DEF Init
  <2>2. sidecar \in [state : {"absent", "written", "torn"}, tasks : SUBSET Tasks]
    BY DEF Init, Sidecar
  <2>3. tail \in 0 .. N + 1 /\ \A t \in Tasks : tail # t
    BY <1>0 DEF Init
  <2>4. TypeOK
    <3>1. /\ pc \in {"off", "running"}
          /\ todo \in SUBSET Tasks /\ voids \in SUBSET Tasks
      BY DEF Init
    <3>2. garbled \in BOOLEAN /\ damaged \in BOOLEAN
      BY DEF Init
    <3>3. aborts \in 0 .. MaxAborts
      BY <1>0 DEF Init
    <3>4. QED
      BY <2>1, <2>2, <2>3, <3>1, <3>2, <3>3 DEF TypeOK
  <2>5. \A t \in Tasks : rows[t] <= K /\ rows[t] # K
    BY <1>0, <2>1
  <2>6. pc # "running"
    BY DEF Init
  <2>7. QED
    BY <2>3, <2>4, <2>5, <2>6 DEF IInv
<1>2. IInv /\ [Next]_vars => IInv'
  <2> SUFFICES ASSUME IInv, [Next]_vars PROVE IInv'
    OBVIOUS
  <2>0. TypeOK
    BY DEF IInv
  <2>1. PriorVoids \in SUBSET Tasks
    BY <2>0 DEF PriorVoids, TypeOK
  <2>2. CASE Start
    <3>1. CASE Completed = Tasks
      <4>1. /\ sidecar' = Sidecar("written", PriorVoids)
            /\ UNCHANGED <<pc, rows, tail, garbled, aborts, outcome, damaged>>
            /\ pc = "off"
            /\ todo' = Tasks \ Completed /\ voids' = PriorVoids
        BY <2>2, <3>1 DEF Start, fileVars
      <4>2. sidecar' \in [state : {"absent", "written", "torn"}, tasks : SUBSET Tasks]
        BY <2>1, <4>1 DEF Sidecar
      <4>3. TypeOK'
        BY <2>0, <2>1, <4>1, <4>2 DEF TypeOK
      <4>4. QED
        BY <4>1, <4>3 DEF IInv
    <3>2. CASE Completed # Tasks
      <4>1. /\ pc' = "running" /\ UNCHANGED <<sidecar, aborts, outcome, damaged>>
            /\ todo' = Tasks \ Completed /\ voids' = PriorVoids
        BY <2>2, <3>2 DEF Start
      <4>2. \A t \in todo' : t \in Tasks /\ rows[t] = 0 /\ t \notin voids'
        BY <2>0, <4>1 DEF Completed, TypeOK
      <4>3. CASE Completed = {}
        <5>1. /\ rows' = [t \in Tasks |-> 0] /\ tail' = Clean /\ garbled' = FALSE
          BY <2>2, <3>2, <4>3 DEF Start
        <5>2. /\ rows' \in [Tasks -> Nat] /\ \A t \in Tasks : rows'[t] = 0
              /\ tail' \in 0 .. N + 1 /\ garbled' \in BOOLEAN
              /\ \A t \in Tasks : tail' # t
          <6>1. rows' \in [Tasks -> Nat] /\ \A t \in Tasks : rows'[t] = 0
            BY <5>1
          <6>2. tail' \in 0 .. N + 1 /\ \A t \in Tasks : tail' # t
            BY <1>0, <5>1
          <6>3. garbled' \in BOOLEAN
            BY <5>1
          <6>4. QED
            BY <6>1, <6>2, <6>3
        <5>3. TypeOK'
          BY <2>0, <2>1, <4>1, <5>2 DEF TypeOK
        <5>4. \A t \in Tasks : rows'[t] <= K /\ rows'[t] # K
          BY <1>0, <5>2
        <5>5. \A t \in todo' : t \in Tasks /\ t \notin voids'
          BY <4>2
        <5>6. QED
          BY <4>1, <5>2, <5>3, <5>4, <5>5 DEF IInv
      <4>4. CASE Completed # {}
        <5>1. UNCHANGED <<rows, tail, garbled>>
          BY <2>2, <3>2, <4>4 DEF Start, fileVars
        <5>2. TypeOK'
          BY <2>0, <2>1, <4>1, <5>1 DEF TypeOK
        <5>3. QED
          BY <4>1, <4>2, <5>1, <5>2 DEF IInv
      <4>5. QED
        BY <4>3, <4>4
    <3>3. QED
      BY <3>1, <3>2
  <2>3. ASSUME NEW t \in Tasks, NEW n \in 0 .. K, Current(t), AppendRuns(t, n),
               todo' = todo \ {t}, voids' \in {voids, voids \cup {t}},
               n < K => outcome' = [outcome EXCEPT ![t] = "void"],
               n = K => outcome' = [outcome EXCEPT ![t] = "ok"],
               UNCHANGED <<sidecar, pc, aborts, damaged>>
        PROVE  IInv'
    <3>1. pc = "running" /\ t \in todo /\ rows[t] = 0
      BY <2>3 DEF Current, IInv
    <3>2. /\ rows' \in [Tasks -> Nat] /\ tail' \in 0 .. N + 1
          /\ garbled' \in BOOLEAN
          /\ rows'[t] <= n
          /\ \A u \in Tasks \ {t} : rows'[u] <= rows[u]
          /\ \A u \in Tasks \ {t} : rows[u] = 0 => rows'[u] = 0
          /\ \A u \in Tasks : tail' = u => rows'[u] > 0
      <4>1. CASE n = 0
        BY <1>0, <2>0, <2>3, <3>1, <4>1 DEF AppendRuns, fileVars, TypeOK, IInv
      <4>2. CASE n # 0
        <5>1. Write(t, n, Clean) /\ Clean # t
          BY <1>0, <2>3, <4>2 DEF AppendRuns
        <5>2. QED
          BY <3>1, <5>1, WriteEffect
      <4>3. QED
        BY <4>1, <4>2
    <3>3. outcome' \in [Tasks -> {"none", "ok", "void"}]
      BY <1>0, <2>0, <2>3 DEF TypeOK
    <3>4. TypeOK'
      BY <2>0, <2>3, <3>2, <3>3 DEF TypeOK
    <3>5. ASSUME NEW u \in Tasks
          PROVE  rows'[u] <= K /\ (rows'[u] = K => outcome'[u] = "ok")
      <4>1. rows[u] \in Nat /\ rows'[u] \in Nat /\ rows[u] <= K
            /\ (rows[u] = K => outcome[u] = "ok")
        BY <2>0, <3>2 DEF TypeOK, IInv
      <4>2. CASE u = t
        BY <1>0, <2>0, <2>3, <3>2, <4>1, <4>2 DEF TypeOK
      <4>3. CASE u # t
        <5>1. outcome'[u] = outcome[u]
          BY <1>0, <2>0, <2>3, <4>3 DEF TypeOK
        <5>2. QED
          BY <1>0, <3>2, <4>1, <4>3, <5>1
      <4>4. QED
        BY <4>2, <4>3
    <3>6. \A u \in todo' : rows'[u] = 0 /\ u \notin voids'
      BY <2>0, <2>3, <3>1, <3>2 DEF TypeOK, IInv
    <3>7. QED
      BY <3>2, <3>4, <3>5, <3>6 DEF IInv
  <2>4. ASSUME NEW t \in Tasks, TaskScored(t) PROVE IInv'
    <3>1. K \in 0 .. K /\ ~(K < K)
      BY <1>0
    <3>2. /\ Current(t) /\ AppendRuns(t, K) /\ todo' = todo \ {t}
          /\ voids' \in {voids, voids \cup {t}}
          /\ outcome' = [outcome EXCEPT ![t] = "ok"]
          /\ UNCHANGED <<sidecar, pc, aborts, damaged>>
      BY <2>4 DEF TaskScored
    <3>3. QED
      BY <2>3, <3>1, <3>2
  <2>5. ASSUME NEW t \in Tasks, NEW n \in 0 .. K - 1, TaskVoid(t, n) PROVE IInv'
    <3>1. n \in 0 .. K /\ n < K /\ n # K
      BY <1>0
    <3>2. /\ Current(t) /\ AppendRuns(t, n) /\ todo' = todo \ {t}
          /\ voids' \in {voids, voids \cup {t}}
          /\ outcome' = [outcome EXCEPT ![t] = "void"]
          /\ UNCHANGED <<sidecar, pc, aborts, damaged>>
      BY <2>5 DEF TaskVoid
    <3>3. QED
      BY <2>3, <3>1, <3>2
  <2>6. ASSUME pc' = "off", aborts' \in 0 .. MaxAborts,
               sidecar' \in [state : {"absent", "written", "torn"}, tasks : SUBSET Tasks],
               damaged' \in BOOLEAN,
               UNCHANGED <<rows, tail, garbled, todo, voids, outcome>>
        PROVE  IInv'
    BY <2>0, <2>6 DEF IInv, TypeOK
  <2>7. /\ Sidecar("written", voids) \in
             [state : {"absent", "written", "torn"}, tasks : SUBSET Tasks]
        /\ Sidecar("torn", {}) \in
             [state : {"absent", "written", "torn"}, tasks : SUBSET Tasks]
    BY <2>0 DEF Sidecar, TypeOK
  <2>16. damaged \in BOOLEAN
    BY <2>0 DEF TypeOK
  <2>8. Aborted => aborts' \in 0 .. MaxAborts
    BY <1>0, <2>0 DEF Aborted, TypeOK
  <2>9. CASE CorpusDone
    BY <2>0, <2>6, <2>7, <2>9, <2>16 DEF CorpusDone, WriteSidecar, fileVars, TypeOK
  <2>10. CASE ProviderUnreachable
    BY <2>6, <2>7, <2>8, <2>10, <2>16 DEF ProviderUnreachable, WriteSidecar, fileVars
  <2>11. CASE Dies
    BY <2>0, <2>6, <2>8, <2>11, <2>16 DEF Dies, fileVars, TypeOK
  <2>12. CASE DiesWritingSidecar
    BY <2>6, <2>7, <2>8, <2>12 DEF DiesWritingSidecar, fileVars
  <2>17. CASE DiesRewritingSidecar
    <3>1. aborts' \in 0 .. MaxAborts
      BY <2>17, CampaignAssumption DEF DiesRewritingSidecar, IInv, TypeOK
    <3> QED BY <3>1, <2>6, <2>7, <2>17 DEF DiesRewritingSidecar, fileVars
  <2>13. ASSUME NEW t \in Tasks, NEW n \in 1 .. K, DiesAppending(t, n)
         PROVE  IInv'
    <3>1. pc = "running" /\ t \in todo /\ rows[t] = 0
      BY <2>13 DEF DiesAppending, Current, IInv
    <3>2. PICK lines \in 0 .. n - 1, piece \in {Clean, Fragment, t} :
            Write(t, lines, piece)
      BY <2>13 DEF DiesAppending
    <3>3. /\ pc' = "off" /\ damaged' = TRUE /\ UNCHANGED <<sidecar, todo, voids>>
          /\ aborts' \in 0 .. MaxAborts
          /\ outcome' = [outcome EXCEPT ![t] = IF n = K THEN "ok" ELSE "void"]
      BY <2>8, <2>13 DEF DiesAppending
    <3>4. lines \in 0 .. K /\ lines < n /\ lines < K
      BY <1>0, <3>2
    <3>5. /\ rows' \in [Tasks -> Nat] /\ tail' \in 0 .. N + 1
          /\ garbled' \in BOOLEAN
          /\ rows'[t] <= lines + (IF piece = t THEN 1 ELSE 0)
          /\ \A u \in Tasks \ {t} : rows'[u] <= rows[u]
          /\ \A u \in Tasks : tail' = u => rows'[u] > 0
      BY <3>1, <3>2, <3>4, WriteEffect
    <3>6. rows'[t] <= n
      BY <1>0, <3>4, <3>5
    <3>7. outcome' \in [Tasks -> {"none", "ok", "void"}]
      BY <2>0, <3>3 DEF TypeOK
    <3>8. TypeOK'
      BY <2>0, <3>3, <3>5, <3>7 DEF TypeOK
    <3>9. ASSUME NEW u \in Tasks
          PROVE  rows'[u] <= K /\ (rows'[u] = K => outcome'[u] = "ok")
      <4>1. rows[u] \in Nat /\ rows'[u] \in Nat /\ rows[u] <= K
            /\ (rows[u] = K => outcome[u] = "ok")
        BY <2>0, <3>5 DEF TypeOK, IInv
      <4>2. CASE u = t
        BY <1>0, <2>0, <3>3, <3>6, <4>1, <4>2 DEF TypeOK
      <4>3. CASE u # t
        <5>1. outcome'[u] = outcome[u]
          BY <2>0, <3>3, <4>3 DEF TypeOK
        <5>2. QED
          BY <1>0, <3>5, <4>1, <4>3, <5>1
      <4>4. QED
        BY <4>2, <4>3
    <3>10. QED
      BY <3>3, <3>5, <3>8, <3>9 DEF IInv
  <2>14. CASE UNCHANGED vars
    BY <2>14 DEF vars, fileVars, IInv, TypeOK
  <2>15. QED
    BY <2>2, <2>4, <2>5, <2>9, <2>10, <2>11, <2>12, <2>13, <2>14, <2>17
       DEF Next, RunTask, Cut
<1>3. QED
  BY <1>1, <1>2, PTL DEF Spec

\* The type invariant of the campaign.
THEOREM TypeCorrect == Spec => []TypeOK
<1>1. IInv => TypeOK
  BY DEF IInv
<1>2. QED
  BY <1>1, InvariantInductive, PTL

\* No task's rows mix two attempts, however often the campaign is cut short
\* and wherever in a write it is.
THEOREM RowsNeverPooled == Spec => []NeverPooled
<1>1. IInv => NeverPooled
  BY DEF IInv, NeverPooled
<1>2. QED
  BY <1>1, InvariantInductive, PTL

\* Whatever the interruptions, a task the report scores obtained its K valid
\* runs, and a task that was given up is not scored.
THEOREM ScoresAreEarned == Spec => []ScoredIsEarned
<1>1. IInv => ScoredIsEarned
  <2> SUFFICES ASSUME IInv, NEW t \in Tasks, Verdict(t) = "scored"
               PROVE  outcome[t] = "ok"
    BY DEF ScoredIsEarned
  <2>1. rows[t] >= K
    BY DEF Verdict
  <2>2. rows[t] \in Nat /\ rows[t] <= K
    BY DEF IInv, TypeOK
  <2>3. K \in Nat
    BY CampaignAssumption
  <2>4. rows[t] = K
    BY <2>1, <2>2, <2>3
  <2>5. QED
    BY <2>4 DEF IInv
<1>2. QED
  BY <1>1, InvariantInductive, PTL
-----------------------------------------------------------------------------
(* A scored task is never lost without a word.                             *)

\* A task that is named void never has K rows, and a running process knows at
\* least the void tasks that its sidecar names.  Even a write that was cut in
\* two leaves this true: it is a task's that no sidecar names yet.
VoidsShort ==
  /\ \A t \in PriorVoids : rows[t] < K
  /\ pc = "running" => /\ PriorVoids \subseteq voids
                       /\ \A t \in voids : rows[t] < K

\* What one step does to the task a process is at: the rows of the others
\* stay, or the file cannot be read from then on.
LEMMA OthersStay ==
  ASSUME IInv, NEW t \in Tasks, rows[t] = 0, NEW lines \in 0 .. K,
         NEW piece \in {Clean, Fragment, t}, Write(t, lines, piece)
  PROVE  garbled' \/ \A u \in Tasks \ {t} : rows'[u] = rows[u]
<1>1. Tasks = 1 .. N /\ Clean = 0 /\ rows \in [Tasks -> Nat]
  BY DEF Tasks, Clean, IInv, TypeOK
<1>2. CASE tail # Clean
  BY <1>2 DEF Write
<1>3. CASE tail = Clean
  <2>1. rows' = [u \in Tasks |->
                   rows[u] - (IF u = tail THEN 1 ELSE 0)
                           + (IF u = t THEN lines + (IF piece = t THEN 1 ELSE 0) ELSE 0)]
    BY <1>3 DEF Write
  <2>2. ASSUME NEW u \in Tasks \ {t} PROVE rows'[u] = rows[u]
    <3>1. u # tail /\ rows[u] \in Nat
      BY <1>1, <1>3
    <3>2. QED
      BY <2>1, <3>1
  <2>3. QED
    BY <2>2
<1>4. QED
  BY <1>2, <1>3

\* What VoidsShort needs, and what a score may do, in one step.
LEMMA ScoreStep ==
  ASSUME IInv, VoidsShort, [Next]_vars
  PROVE  /\ VoidsShort'
         /\ Readable' => \A t \in Tasks : Verdict(t) = "scored" => Verdict(t)' = "scored"
<1>0. K \in Nat \ {0}
  BY CampaignAssumption
<1>1. /\ rows \in [Tasks -> Nat] /\ voids \in SUBSET Tasks
      /\ PriorVoids \in SUBSET Tasks
  BY DEF IInv, TypeOK, PriorVoids
<1>2. \A t \in Tasks : Verdict(t) = "scored" <=> t \notin PriorVoids /\ rows[t] >= K
  BY <1>0, <1>1 DEF Verdict
<1>3. ASSUME rows' \in [Tasks -> Nat]
      PROVE  \A t \in Tasks : t \notin PriorVoids' /\ rows'[t] >= K => Verdict(t)' = "scored"
  BY <1>0, <1>3 DEF Verdict
<1>4. CASE Start
  <2>1. PriorVoids' = PriorVoids /\ voids' = PriorVoids
    BY <1>4 DEF Start, PriorVoids, Sidecar
  <2>2. rows' \in [Tasks -> Nat] /\ \A t \in Tasks : rows'[t] = rows[t]
    <3>1. CASE Completed = {} /\ Completed # Tasks
      <4>1. rows' = [t \in Tasks |-> 0]
        BY <1>4, <3>1 DEF Start
      <4>2. \A t \in Tasks : rows[t] = 0
        BY <1>1, <3>1 DEF Completed
      <4>3. QED
        BY <4>1, <4>2
    <3>2. CASE ~(Completed = {} /\ Completed # Tasks)
      BY <1>1, <1>4, <3>2 DEF Start, fileVars
    <3>3. QED
      BY <3>1, <3>2
  <2>3. VoidsShort'
    BY <1>1, <2>1, <2>2 DEF VoidsShort
  <2>4. QED
    BY <1>2, <1>3, <2>1, <2>2, <2>3
<1>5. ASSUME NEW t \in Tasks, Current(t), UNCHANGED sidecar,
             \/ UNCHANGED <<rows, garbled>>
             \/ \E lines \in 0 .. K, piece \in {Clean, Fragment, t} :
                  (piece = t => lines < K) /\ Write(t, lines, piece),
             \/ pc' # "running" \/ voids' = voids
             \/ voids' = voids \cup {t} /\ rows'[t] < K
      PROVE  /\ VoidsShort'
             /\ Readable' => \A u \in Tasks : Verdict(u) = "scored" => Verdict(u)' = "scored"
  <2>1. /\ pc = "running" /\ rows[t] = 0 /\ t \notin voids
        /\ PriorVoids \subseteq voids /\ t \notin PriorVoids
        /\ \A u \in voids : rows[u] < K
        /\ PriorVoids' = PriorVoids
    BY <1>5 DEF Current, IInv, VoidsShort, PriorVoids
  <2>2. /\ rows' \in [Tasks -> Nat]
        /\ \A u \in Tasks \ {t} : rows'[u] <= rows[u]
        /\ garbled' \/ \A u \in Tasks \ {t} : rows'[u] = rows[u]
    <3>1. CASE UNCHANGED <<rows, garbled>>
      BY <1>1, <3>1
    <3>2. ASSUME NEW lines \in 0 .. K, NEW piece \in {Clean, Fragment, t},
                 piece = t => lines < K, Write(t, lines, piece)
          PROVE  /\ rows' \in [Tasks -> Nat]
                 /\ \A u \in Tasks \ {t} : rows'[u] <= rows[u]
                 /\ garbled' \/ \A u \in Tasks \ {t} : rows'[u] = rows[u]
      <4>1. rows' \in [Tasks -> Nat] /\ \A u \in Tasks \ {t} : rows'[u] <= rows[u]
        BY <2>1, <3>2, WriteEffect
      <4>2. garbled' \/ \A u \in Tasks \ {t} : rows'[u] = rows[u]
        BY <2>1, <3>2, OthersStay
      <4>3. QED
        BY <4>1, <4>2
    <3>3. QED
      BY <1>5, <3>1, <3>2
  <2>3. ASSUME NEW u \in voids PROVE rows'[u] < K
    BY <1>0, <1>1, <2>1, <2>2
  <2>4. VoidsShort'
    BY <1>5, <2>1, <2>3 DEF VoidsShort
  <2>5. ASSUME Readable', NEW u \in Tasks, Verdict(u) = "scored"
        PROVE  Verdict(u)' = "scored"
    <3>1. u \notin PriorVoids /\ rows[u] >= K
      BY <1>2, <2>5
    <3>2. u # t
      BY <1>0, <2>1, <3>1
    <3>3. rows'[u] = rows[u]
      BY <2>2, <2>5, <3>2 DEF Readable
    <3>4. QED
      BY <1>3, <2>1, <2>2, <3>1, <3>3
  <2>6. QED
    BY <2>4, <2>5
<1>6. ASSUME NEW t \in Tasks, TaskScored(t)
      PROVE  /\ VoidsShort'
             /\ Readable' => \A u \in Tasks : Verdict(u) = "scored" => Verdict(u)' = "scored"
  <2>1. Write(t, K, Clean) /\ Clean # t /\ K \in 0 .. K
    BY <1>0, <1>6 DEF TaskScored, AppendRuns, Tasks, Clean
  <2>2. Current(t) /\ UNCHANGED sidecar /\ voids' = voids
    BY <1>6 DEF TaskScored
  <2>3. QED
    BY <1>5, <2>1, <2>2
<1>7. ASSUME NEW t \in Tasks, NEW n \in 0 .. K - 1, TaskVoid(t, n)
      PROVE  /\ VoidsShort'
             /\ Readable' => \A u \in Tasks : Verdict(u) = "scored" => Verdict(u)' = "scored"
  <2>1. /\ Current(t) /\ AppendRuns(t, n) /\ UNCHANGED sidecar
        /\ voids' = voids \cup {t} /\ Clean # t /\ n \in 0 .. K /\ n < K
        /\ rows[t] = 0
    BY <1>0, <1>7 DEF TaskVoid, Tasks, Clean, Current, IInv
  <2>2. CASE n = 0
    <3>1. UNCHANGED <<rows, garbled>> /\ rows'[t] < K
      BY <1>0, <2>1, <2>2 DEF AppendRuns, fileVars
    <3>2. QED
      BY <1>5, <2>1, <3>1
  <2>3. CASE n # 0
    <3>1. Write(t, n, Clean)
      BY <2>1, <2>3 DEF AppendRuns
    <3>2. rows' \in [Tasks -> Nat] /\ rows'[t] <= n
      BY <2>1, <3>1, WriteEffect
    <3>3. rows'[t] < K
      BY <1>0, <2>1, <3>2
    <3>4. QED
      BY <1>5, <2>1, <3>1, <3>3
  <2>4. QED
    BY <2>2, <2>3
<1>8. ASSUME NEW t \in Tasks, NEW n \in 1 .. K, DiesAppending(t, n)
      PROVE  /\ VoidsShort'
             /\ Readable' => \A u \in Tasks : Verdict(u) = "scored" => Verdict(u)' = "scored"
  <2>1. Current(t) /\ UNCHANGED sidecar /\ pc' # "running"
    BY <1>8 DEF DiesAppending
  <2>2. PICK lines \in 0 .. n - 1, piece \in {Clean, Fragment, t} : Write(t, lines, piece)
    BY <1>8 DEF DiesAppending
  <2>3. lines \in 0 .. K /\ lines < K
    BY <1>0, <2>2
  <2>4. QED
    BY <1>5, <2>1, <2>2, <2>3
<1>9. ASSUME pc = "running", WriteSidecar, UNCHANGED fileVars
      PROVE  /\ VoidsShort'
             /\ Readable' => \A u \in Tasks : Verdict(u) = "scored" => Verdict(u)' = "scored"
  <2>1. PriorVoids' = voids /\ pc' # "running" /\ rows' = rows
    BY <1>9 DEF WriteSidecar, Sidecar, PriorVoids, fileVars
  <2>2. \A t \in voids : rows[t] < K
    BY <1>9 DEF VoidsShort
  <2>3. VoidsShort'
    BY <2>1, <2>2 DEF VoidsShort
  <2>4. ASSUME NEW u \in Tasks, Verdict(u) = "scored" PROVE Verdict(u)' = "scored"
    <3>1. rows[u] \in Nat /\ rows[u] >= K
      BY <1>1, <1>2, <2>4
    <3>2. u \notin voids
      BY <1>0, <2>2, <3>1
    <3>3. QED
      BY <1>1, <1>3, <2>1, <3>1, <3>2
  <2>5. QED
    BY <2>3, <2>4
<1>10. CASE CorpusDone \/ ProviderUnreachable
  BY <1>9, <1>10 DEF CorpusDone, ProviderUnreachable, Aborted
<1>11. CASE DiesWritingSidecar \/ DiesRewritingSidecar
  <2>1. PriorVoids' = {} /\ pc' # "running" /\ ~Readable'
    BY <1>11 DEF DiesWritingSidecar, DiesRewritingSidecar, Sidecar, PriorVoids, Readable
  <2>2. QED
    BY <2>1 DEF VoidsShort
<1>12. CASE Dies \/ UNCHANGED vars
  <2>1. rows' = rows /\ sidecar' = sidecar /\ (pc' # "running" \/ UNCHANGED <<pc, voids>>)
    BY <1>12 DEF Dies, vars, fileVars
  <2>2. PriorVoids' = PriorVoids
    BY <2>1 DEF PriorVoids
  <2>3. VoidsShort'
    BY <2>1, <2>2 DEF VoidsShort
  <2>4. QED
    BY <1>1, <1>2, <1>3, <2>1, <2>2, <2>3
<1>13. QED
  BY <1>4, <1>6, <1>7, <1>8, <1>10, <1>11, <1>12 DEF Next, RunTask, Cut

LEMMA VoidsStayShort == Spec => []VoidsShort
<1>1. Init => VoidsShort
  BY DEF Init, VoidsShort, PriorVoids, Sidecar
<1>2. IInv /\ VoidsShort /\ [Next]_vars => VoidsShort'
  BY ScoreStep
<1>3. QED
  BY <1>1, <1>2, InvariantInductive, PTL DEF Spec

\* Wherever a write is cut in two, a score the report has shown is shown
\* again or the report refuses the files: no step takes it away in silence.
THEOREM NothingSilentlyLost == Spec => NeverSilentlyLost
<1>1. IInv /\ VoidsShort /\ [Next]_vars
        => [Readable' => \A t \in Tasks : Verdict(t) = "scored" => Verdict(t)' = "scored"]_vars
  BY ScoreStep
<1>2. QED
  BY <1>1, InvariantInductive, VoidsStayShort, PTL DEF Spec, NeverSilentlyLost
-----------------------------------------------------------------------------
(* The promise.                                                            *)

\* Before any process dies inside a write: the file ends in a newline, the
\* sidecar can be read, and a void task is short of rows.
Calm ==
  /\ tail = Clean
  /\ sidecar.state # "torn"
  /\ VoidsShort

\* The rows of t, and of no other task, become n.
LEMMA AppendEffect ==
  ASSUME IInv, tail = Clean, NEW t \in Tasks, rows[t] = 0,
         NEW n \in 0 .. K, AppendRuns(t, n)
  PROVE  /\ tail' = Clean
         /\ rows'[t] = n
         /\ \A u \in Tasks \ {t} : rows'[u] = rows[u]
<1>0. K \in Nat /\ Tasks = 1 .. N /\ Clean = 0 /\ rows \in [Tasks -> Nat]
  BY CampaignAssumption DEF Tasks, Clean, IInv, TypeOK
<1>1. CASE n = 0
  <2>1. rows' = rows /\ tail' = tail
    BY <1>1 DEF AppendRuns, fileVars
  <2>2. QED
    BY <1>1, <2>1
<1>2. CASE n # 0
  <2>1. /\ rows' = [u \in Tasks |->
                      rows[u] - (IF u = tail THEN 1 ELSE 0)
                              + (IF u = t THEN n + (IF Clean = t THEN 1 ELSE 0) ELSE 0)]
        /\ tail' = Clean
    BY <1>2 DEF AppendRuns, Write
  <2>2. \A u \in Tasks : rows'[u] = rows[u] + (IF u = t THEN n ELSE 0)
    BY <1>0, <2>1
  <2>3. n \in Nat /\ \A u \in Tasks : rows[u] \in Nat
    BY <1>0
  <2>4. QED
    BY <2>1, <2>2, <2>3
<1>3. QED
  BY <1>1, <1>2

\* What Calm needs, and what a verdict may do, in one step.
LEMMA CalmStep ==
  ASSUME ~damaged', IInv, Calm, [Next]_vars
  PROVE  /\ Calm'
         /\ \A t \in Tasks : Verdict(t) # "open" => Verdict(t)' = Verdict(t)
<1>0. K \in Nat \ {0}
  BY CampaignAssumption
<1>1. /\ rows \in [Tasks -> Nat] /\ voids \in SUBSET Tasks
      /\ PriorVoids \in SUBSET Tasks
      /\ TypeOK
  BY DEF IInv, TypeOK, PriorVoids
<1>2. CASE Start
  <2>1. PriorVoids' = PriorVoids /\ sidecar'.state # "torn" /\ voids' = PriorVoids
    BY <1>2 DEF Start, PriorVoids, Sidecar, Calm, VoidsShort
  <2>2. \A t \in Tasks : rows'[t] = rows[t]
    <3>1. CASE Completed = {} /\ Completed # Tasks
      <4>1. rows' = [t \in Tasks |-> 0]
        BY <1>2, <3>1 DEF Start
      <4>2. \A t \in Tasks : rows[t] = 0
        BY <1>1, <3>1 DEF Completed
      <4>3. QED
        BY <4>1, <4>2
    <3>2. CASE ~(Completed = {} /\ Completed # Tasks)
      BY <1>2, <3>2 DEF Start, fileVars
    <3>3. QED
      BY <3>1, <3>2
  <2>3. tail' = Clean
    BY <1>2 DEF Start, fileVars, Calm, VoidsShort
  <2>4. Calm'
    BY <1>1, <2>1, <2>2, <2>3 DEF Calm, VoidsShort
  <2>5. ASSUME NEW t \in Tasks PROVE Verdict(t)' = Verdict(t)
    BY <2>1, <2>2 DEF Verdict
  <2>6. QED
    BY <2>4, <2>5
<1>3. ASSUME NEW t \in Tasks, NEW n \in 0 .. K, Current(t), AppendRuns(t, n),
             UNCHANGED <<sidecar, pc>>,
             voids' = voids \/ (voids' = voids \cup {t} /\ n < K)
      PROVE  /\ Calm'
             /\ \A u \in Tasks : Verdict(u) # "open" => Verdict(u)' = Verdict(u)
  <2>1. pc = "running" /\ rows[t] = 0 /\ t \notin voids
    BY <1>3 DEF Current, IInv
  <2>2. /\ tail' = Clean /\ rows'[t] = n
        /\ \A u \in Tasks \ {t} : rows'[u] = rows[u]
    BY <1>3, <2>1, AppendEffect DEF Calm, VoidsShort
  <2>3. PriorVoids' = PriorVoids /\ t \notin PriorVoids /\ PriorVoids \subseteq voids
    BY <1>3, <2>1 DEF PriorVoids, Calm, VoidsShort
  <2>4. /\ \A u \in PriorVoids' : rows'[u] < K
        /\ PriorVoids' \subseteq voids'
    BY <1>1, <1>3, <2>2, <2>3 DEF Calm, VoidsShort
  <2>5. ASSUME NEW u \in voids' PROVE rows'[u] < K
    <3>1. CASE u = t
      BY <1>3, <2>1, <2>2, <3>1
    <3>2. CASE u # t
      BY <1>1, <1>3, <2>1, <2>2, <3>2 DEF Calm, VoidsShort
    <3>3. QED
      BY <3>1, <3>2
  <2>6. Calm'
    BY <1>3, <2>2, <2>4, <2>5 DEF Calm, VoidsShort
  <2>7. Verdict(t) = "open"
    BY <1>0, <2>1, <2>3 DEF Verdict
  <2>8. ASSUME NEW u \in Tasks \ {t} PROVE Verdict(u)' = Verdict(u)
    BY <2>2, <2>3 DEF Verdict
  <2>9. QED
    BY <2>6, <2>7, <2>8
<1>4. ASSUME NEW t \in Tasks, RunTask(t)
      PROVE  /\ Calm'
             /\ \A u \in Tasks : Verdict(u) # "open" => Verdict(u)' = Verdict(u)
  <2>1. CASE TaskScored(t)
    <3>1. K \in 0 .. K
      BY <1>0
    <3>2. Current(t) /\ AppendRuns(t, K) /\ UNCHANGED <<sidecar, pc>> /\ voids' = voids
      BY <2>1 DEF TaskScored
    <3>3. QED
      BY <1>3, <3>1, <3>2
  <2>2. ASSUME NEW n \in 0 .. K - 1, TaskVoid(t, n)
        PROVE  /\ Calm'
               /\ \A u \in Tasks : Verdict(u) # "open" => Verdict(u)' = Verdict(u)
    <3>1. n \in 0 .. K /\ n < K
      BY <1>0
    <3>2. /\ Current(t) /\ AppendRuns(t, n) /\ UNCHANGED <<sidecar, pc>>
          /\ voids' = voids \cup {t}
      BY <2>2 DEF TaskVoid
    <3>3. QED
      BY <1>3, <3>1, <3>2
  <2>3. QED
    BY <1>4, <2>1, <2>2 DEF RunTask
<1>5. ASSUME pc = "running", WriteSidecar, UNCHANGED fileVars
      PROVE  /\ Calm'
             /\ \A u \in Tasks : Verdict(u) # "open" => Verdict(u)' = Verdict(u)
  <2>1. /\ PriorVoids' = voids /\ sidecar'.state # "torn" /\ pc' = "off"
        /\ rows' = rows /\ tail' = tail
    BY <1>5 DEF WriteSidecar, Sidecar, PriorVoids, fileVars
  <2>2. Calm'
    BY <1>5, <2>1 DEF Calm, VoidsShort
  <2>3. ASSUME NEW u \in Tasks, Verdict(u) # "open" PROVE Verdict(u)' = Verdict(u)
    <3>1. u \in PriorVoids => u \in voids
      BY <1>5 DEF Calm, VoidsShort
    <3>2. rows[u] \in Nat /\ (u \in voids => rows[u] < K)
      BY <1>1, <1>5 DEF Calm, VoidsShort
    <3>3. QED
      BY <1>0, <2>1, <2>3, <3>1, <3>2 DEF Verdict
  <2>4. QED
    BY <2>2, <2>3
<1>6. CASE CorpusDone
  BY <1>5, <1>6 DEF CorpusDone
<1>7. CASE ProviderUnreachable
  BY <1>5, <1>7 DEF ProviderUnreachable, Aborted
<1>8. CASE Dies \/ UNCHANGED vars
  <2>1. UNCHANGED <<rows, tail, sidecar>> /\ (pc' = "off" \/ UNCHANGED <<pc, voids>>)
    BY <1>8 DEF Dies, vars, fileVars
  <2>2. PriorVoids' = PriorVoids
    BY <2>1 DEF PriorVoids
  <2>3. QED
    BY <2>1, <2>2 DEF Calm, VoidsShort, Verdict
<1>9. QED
  BY <1>2, <1>4, <1>6, <1>7, <1>8
     DEF Next, Cut, DiesAppending, DiesWritingSidecar, DiesRewritingSidecar

\* The damage of a write that was cut in two is remembered for good.
LEMMA DamageStays == [Next]_vars /\ ~damaged' => ~damaged
BY DEF Next, Start, RunTask, TaskScored, TaskVoid, CorpusDone, Cut,
       ProviderUnreachable, Dies, DiesAppending, DiesWritingSidecar, DiesRewritingSidecar, vars

\* The campaign implements CampaignPromise: whatever is aborted and resumed,
\* no verdict changes before a process dies inside a write.
THEOREM VerdictsKept == Spec => KeepsVerdicts
<1> DEFINE CalmSoFar == ~damaged => Calm
<1>0. N \in Nat \ {0} /\ K \in Nat \ {0} /\ Clean = 0
  BY CampaignAssumption DEF Clean
<1>1. Init => CalmSoFar
  <2>1. Init => PriorVoids = {}
    BY DEF Init, PriorVoids, Sidecar
  <2>2. QED
    BY <2>1 DEF Init, Calm, VoidsShort, Sidecar
<1>2. IInv /\ CalmSoFar /\ [Next]_vars => CalmSoFar'
  BY CalmStep, DamageStays
<1>3. Init => Promise!Init
  <2> SUFFICES ASSUME Init PROVE Promise!Init
    OBVIOUS
  <2>1. PriorVoids = {}
    BY DEF Init, PriorVoids, Sidecar
  <2>2. \A t \in Tasks : Verdict(t) = "open"
    BY <1>0, <2>1 DEF Init, Verdict
  <2>3. [t \in Tasks |-> Verdict(t)] = [t \in Tasks |-> "open"]
    BY <2>2
  <2>4. damaged = FALSE
    BY DEF Init
  <2>5. QED
    BY <2>3, <2>4 DEF Promise!Init
<1>4. IInv /\ CalmSoFar /\ [Next]_vars
        => [Promise!Next]_<<[t \in Tasks |-> Verdict(t)], damaged>>
  <2> SUFFICES ASSUME IInv, CalmSoFar, [Next]_vars, ~damaged'
               PROVE  Promise!Next
    BY DEF Promise!Next
  <2>0. Calm
    BY DamageStays
  <2>1. \A t \in Tasks : Verdict(t) # "open" => Verdict(t)' = Verdict(t)
    BY <2>0, CalmStep
  <2> DEFINE decided == {t \in Tasks : Verdict(t) = "open" /\ Verdict(t)' # "open"}
             v == [t \in decided |-> Verdict(t)']
  <2>2. \A t \in decided : Verdict(t)' \in Promise!Verdicts
    BY DEF Verdict, Promise!Verdicts
  <2>3. v \in [decided -> Promise!Verdicts]
    BY <2>2
  <2>4. \A t \in Tasks : Verdict(t)' = IF t \in decided THEN v[t] ELSE Verdict(t)
    BY <2>1
  <2>5. [t \in Tasks |-> Verdict(t)]' =
          [t \in Tasks |-> IF t \in decided THEN v[t]
                           ELSE [u \in Tasks |-> Verdict(u)][t]]
    BY <2>4
  <2>6. \A t \in decided : [u \in Tasks |-> Verdict(u)][t] = "open"
    OBVIOUS
  <2>7. Promise!Decide(decided)
    BY <2>3, <2>5, <2>6 DEF Promise!Decide
  <2>8. QED
    BY <2>7 DEF Promise!Next
<1>5. QED
  BY <1>1, <1>2, <1>3, <1>4, InvariantInductive, PTL
     DEF Spec, KeepsVerdicts, Promise!Spec
=============================================================================
