---------------------------- MODULE BSpikeProofs ----------------------------
(***************************************************************************)
(* Proofs about BSpike, for any arms, any K and any accepted rate: what    *)
(* the sheet lists, whose object a counted pass is about, what an arm that *)
(* passes at the power of Pow went through, and whose session a candidate  *)
(* may find.                                                               *)
(***************************************************************************)
EXTENDS BSpike, FiniteSetTheorems, SequenceTheorems, TLAPS

Attempt == [attempt_index : 0 .. MaxIndex, valid : BOOLEAN, run : Kinds]
Banked  == [run_index : 0 .. MaxIndex, run : Kinds]
Object  == [arm : Arms \cup {"none"}, run : Nat]

TypeOK ==
  /\ attempts \in Seq(Attempt) /\ valid_runs \in Seq(Banked)
  /\ invalid_count \in Nat /\ attempt_index \in Nat
  /\ status \in {"running", "completed", "void"}
  /\ pc \in {"off", "arm"} /\ todo \in Seq(Arms)
  /\ driver \in {"chat", "claude"} /\ run \in Nat
  /\ ended \in BOOLEAN /\ recorded \in SUBSET Names
  /\ files \in [Arms -> [run : Nat, trials : Seq(Attempt)]]
  /\ sheet \in SUBSET Names
  /\ folder \in [Names -> Object]
  /\ attached \in BOOLEAN /\ unclean \in BOOLEAN /\ uncleared \in BOOLEAN

-----------------------------------------------------------------------------
(* The loop of an arm.                                                     *)

Valids(s) == {j \in 1 .. Len(s) : s[j].valid}

\* The counters are the counts they stand for, and the way the loop stands
\* follows from them.
LoopInv ==
  /\ Cardinality(Valids(attempts)) = Len(valid_runs)
  /\ Len(attempts) = Len(valid_runs) + invalid_count
  /\ status = "running" =>
       Len(valid_runs) < K /\ ~Trials!RateExceeded(invalid_count)
  /\ status = "completed" =>
       Len(valid_runs) = K /\ ~Trials!RateExceeded(invalid_count)
  /\ status = "void" => Len(valid_runs) < K

\* The attempts of an arm that was finished: short of K valid ones, or K of
\* them and an accepted share.
Finished(s) ==
  \/ Cardinality(Valids(s)) < K
  \/ /\ Cardinality(Valids(s)) = K
     /\ ~Trials!RateExceeded(Len(s) - Cardinality(Valids(s)))

FilesInv == \A a \in Arms : Finished(files[a].trials)

-----------------------------------------------------------------------------
(* The command.                                                            *)

\* The rows of the trials this invocation left on disk.
Covered == UNION {Rows(a, files[a].trials) : a \in {b \in Arms : files[b].run = run}}

\* The arms still to run have no file of this invocation, the others are
\* listed; so is everything once the command has returned.
CommandInv ==
  /\ \A a \in Arms : files[a].run <= run
  /\ pc = "arm" =>
       /\ run > 0 /\ ~ended /\ todo # <<>>
       /\ \A i, j \in DOMAIN todo : todo[i] = todo[j] => i = j
       /\ \A i \in DOMAIN todo : files[todo[i]].run < run
       /\ recorded = Covered
  /\ ended => pc = "off" /\ sheet = Covered

\* Verdicts are those of a command that returned, passed for an object that is
\* there; and an object is of this invocation, unless the run began over the
\* remains of another.
OwnInv ==
  /\ run = 0 =>
       /\ \A n \in Names : folder[n] = NoObject
       /\ DOMAIN verdicts = {}
       /\ pc = "off" /\ ~ended
  /\ ~uncleared =>
       /\ \A n \in Names : folder[n] # NoObject => folder[n] = [arm |-> n[1], run |-> run]
       /\ \A row \in DOMAIN verdicts :
            /\ ended /\ row \in sheet
            /\ verdicts[row] = "PASS" => folder[row] # NoObject

\* A registry lists a session that was not closed.
SessionInv ==
  /\ driver = "chat" => leftover = {} \/ unclean
  /\ driver = "claude" => leftover \subseteq {<<"account", 0>>}
  /\ SessionIsOwn

IInv == TypeOK /\ LoopInv /\ FilesInv /\ CommandInv /\ OwnInv /\ SessionInv

-----------------------------------------------------------------------------
(* The trials.                                                             *)

\* Counting the valid attempts, one attempt at a time.
LEMMA OneMore ==
  ASSUME NEW s \in Seq(Attempt), NEW e \in Attempt
  PROVE  /\ IsFiniteSet(Valids(s))
         /\ Cardinality(Valids(s)) \in Nat
         /\ e.valid => Cardinality(Valids(Append(s, e))) = Cardinality(Valids(s)) + 1
         /\ ~e.valid => Cardinality(Valids(Append(s, e))) = Cardinality(Valids(s))
<1>1. Len(s) \in Nat
  OBVIOUS
<1>2. IsFiniteSet(1 .. Len(s))
  BY <1>1, FS_Interval
<1>3. Valids(s) \subseteq 1 .. Len(s)
  BY DEF Valids
<1>4. IsFiniteSet(Valids(s))
  BY <1>2, <1>3, FS_Subset
<1>5. Cardinality(Valids(s)) \in Nat
  BY <1>4, FS_CardinalityType
<1>6. Len(s) + 1 \notin Valids(s)
  BY <1>1, <1>3
<1>7. /\ Len(Append(s, e)) = Len(s) + 1
      /\ Append(s, e)[Len(s) + 1] = e
      /\ \A j \in 1 .. Len(s) : Append(s, e)[j] = s[j]
  OBVIOUS
<1>8. CASE e.valid
  <2>1. Valids(Append(s, e)) = Valids(s) \cup {Len(s) + 1}
    BY <1>1, <1>7, <1>8 DEF Valids
  <2>2. Cardinality(Valids(s) \cup {Len(s) + 1}) = Cardinality(Valids(s)) + 1
    BY <1>4, <1>6, FS_AddElement
  <2>3. QED
    BY <1>4, <1>5, <1>8, <2>1, <2>2
<1>9. CASE ~e.valid
  <2>1. Valids(Append(s, e)) = Valids(s)
    BY <1>1, <1>7, <1>9 DEF Valids
  <2>2. QED
    BY <1>4, <1>5, <1>9, <2>1
<1>10. QED
  BY <1>8, <1>9

LEMMA NoneYet == Cardinality(Valids(<<>>)) = 0
<1>1. Valids(<<>>) = {}
  BY DEF Valids
<1>2. QED
  BY <1>1, FS_EmptySet

\* A fresh loop stands as the code starts it.
LEMMA FreshStands ==
  ASSUME FreshLoop
  PROVE  /\ LoopInv'
         /\ attempts' \in Seq(Attempt) /\ valid_runs' \in Seq(Banked)
         /\ invalid_count' \in Nat /\ attempt_index' \in Nat
         /\ status' \in {"running", "completed", "void"}
<1> USE SpikeAssumption
<1>1. /\ attempts' = <<>> /\ valid_runs' = <<>> /\ invalid_count' = 0
      /\ attempt_index' = 0 /\ status' = "running"
  BY DEF FreshLoop
<1>2. Cardinality(Valids(attempts')) = 0
  BY <1>1, NoneYet
<1>3. Len(<<>>) = 0
  OBVIOUS
<1>4. ~Trials!RateExceeded(0)
  BY DEF Trials!RateExceeded
<1>5. LoopInv'
  BY <1>1, <1>2, <1>3, <1>4 DEF LoopInv, Trials!RateExceeded
<1>6. QED
  BY <1>1, <1>5

\* What one recorded attempt does to the loop.
LEMMA LoopStep ==
  ASSUME TypeOK, LoopInv, NEW kind \in Kinds, attempt_index <= MaxIndex,
         Trials!BankTrial(kind) \/ Trials!ReplaceTrial(kind)
  PROVE  /\ LoopInv'
         /\ attempts' \in Seq(Attempt) /\ valid_runs' \in Seq(Banked)
         /\ invalid_count' \in Nat /\ attempt_index' \in Nat
         /\ status' \in {"running", "completed", "void"}
<1> USE SpikeAssumption
<1> DEFINE e == [attempt_index |-> attempt_index,
                 valid |-> ~Trials!IsInvalid(kind), run |-> kind]
           b == [run_index |-> attempt_index, run |-> kind]
<1>1. /\ attempts \in Seq(Attempt) /\ valid_runs \in Seq(Banked)
      /\ invalid_count \in Nat /\ attempt_index \in Nat
  BY DEF TypeOK
<1>2. attempt_index \in 0 .. MaxIndex
  BY <1>1
<1>3. e \in Attempt
  BY <1>2 DEF Attempt, Trials!IsInvalid
<1>4. b \in Banked
  BY <1>2 DEF Banked
<1>5. Len(attempts) \in Nat /\ Len(valid_runs) \in Nat
  BY <1>1
<1>6. e.valid <=> ~Trials!IsInvalid(kind)
  BY DEF Trials!IsInvalid
<1>7. /\ Append(attempts, e) \in Seq(Attempt)
      /\ Len(Append(attempts, e)) = Len(attempts) + 1
      /\ Append(valid_runs, b) \in Seq(Banked)
      /\ Len(Append(valid_runs, b)) = Len(valid_runs) + 1
  BY <1>1, <1>3, <1>4
<1>8. /\ status = "running" /\ attempts' = Append(attempts, e)
      /\ attempt_index' = attempt_index + 1
  BY DEF Trials!BankTrial, Trials!ReplaceTrial, Trials!Attempted
<1>9. /\ Cardinality(Valids(attempts)) = Len(valid_runs)
      /\ Len(attempts) = Len(valid_runs) + invalid_count
      /\ Len(valid_runs) < K
  BY <1>8 DEF LoopInv
<1>10. CASE Trials!BankTrial(kind)
  <2>1. /\ ~Trials!IsInvalid(kind) /\ valid_runs' = Append(valid_runs, b)
        /\ invalid_count' = invalid_count
        /\ status' = Trials!StatusAfter(Len(valid_runs'), invalid_count)
    BY <1>10 DEF Trials!BankTrial
  <2>2. Cardinality(Valids(attempts')) = Cardinality(Valids(attempts)) + 1
    BY <1>1, <1>3, <1>6, <1>8, <2>1, OneMore
  <2>3. /\ Len(attempts') = Len(attempts) + 1 /\ Len(valid_runs') = Len(valid_runs) + 1
        /\ attempts' \in Seq(Attempt) /\ valid_runs' \in Seq(Banked)
    BY <1>7, <1>8, <2>1
  <2>4. ~Trials!RateExceeded(invalid_count)
    BY <1>8 DEF LoopInv
  <2>5. Len(valid_runs') <= K /\ Len(valid_runs') \in Nat
    BY <1>5, <1>9, <2>3
  <2>6. \/ status' = "completed" /\ Len(valid_runs') = K
        \/ status' = "running" /\ Len(valid_runs') < K
    BY <2>1, <2>4, <2>5 DEF Trials!StatusAfter
  <2>7. LoopInv'
    BY <1>1, <1>5, <1>9, <2>1, <2>2, <2>3, <2>4, <2>6 DEF LoopInv, Trials!RateExceeded
  <2>8. QED
    BY <1>1, <1>8, <2>1, <2>3, <2>6, <2>7
<1>11. CASE Trials!ReplaceTrial(kind)
  <2>1. /\ Trials!IsInvalid(kind) /\ valid_runs' = valid_runs
        /\ invalid_count' = invalid_count + 1
        /\ status' = Trials!StatusAfter(Len(valid_runs), invalid_count')
    BY <1>11 DEF Trials!ReplaceTrial
  <2>2. Cardinality(Valids(attempts')) = Cardinality(Valids(attempts))
    BY <1>1, <1>3, <1>6, <1>8, <2>1, OneMore
  <2>3. Len(attempts') = Len(attempts) + 1 /\ attempts' \in Seq(Attempt)
    BY <1>7, <1>8
  <2>4. \/ status' = "running" /\ ~Trials!RateExceeded(invalid_count')
        \/ status' = "void"
    BY <1>5, <1>9, <2>1 DEF Trials!StatusAfter
  <2>5. LoopInv'
    BY <1>1, <1>5, <1>9, <2>1, <2>2, <2>3, <2>4 DEF LoopInv, Trials!RateExceeded
  <2>6. QED
    BY <1>1, <1>8, <2>1, <2>3, <2>4, <2>5
<1>12. QED
  BY <1>10, <1>11

\* The counters of a loop that ended tell what becomes of its file.
LEMMA LoopFinishes ==
  ASSUME TypeOK, LoopInv, status \in {"completed", "void"}
  PROVE  Finished(attempts)
<1>1. /\ Len(valid_runs) \in Nat /\ invalid_count \in Nat
      /\ Cardinality(Valids(attempts)) = Len(valid_runs)
      /\ Len(attempts) = Len(valid_runs) + invalid_count
  BY DEF TypeOK, LoopInv
<1>2. Len(attempts) - Cardinality(Valids(attempts)) = invalid_count
  BY <1>1
<1>3. QED
  BY <1>1, <1>2 DEF LoopInv, Finished

-----------------------------------------------------------------------------
(* A candidate in its trial.                                               *)

\* The sessions a trial finds and leaves.
LEMMA SessionsKept ==
  ASSUME SessionInv, NEW name, NEW registry,
         InTrial(name, registry), Candidate(name, registry), UNCHANGED driver,
         \/ Close(registry)
         \/ leftover' = leftover \cup {registry} /\ unclean' = TRUE,
         attached \in BOOLEAN, unclean \in BOOLEAN, driver \in {"chat", "claude"}
  PROVE  SessionInv' /\ attached' \in BOOLEAN /\ unclean' \in BOOLEAN
<1>1. attached' <=> (attached \/ registry \in leftover)
  BY DEF Candidate
<1>2. attached' \in BOOLEAN /\ unclean' \in BOOLEAN
  BY DEF Candidate, Close
<1>3. CASE driver = "chat"
  <2>1. leftover = {} \/ unclean
    BY <1>3 DEF SessionInv
  <2>2. attached' => unclean \/ attached
    BY <1>1, <2>1
  <2>3. attached => unclean \/ <<"account", 0>> \in leftover
    BY DEF SessionInv, SessionIsOwn
  <2>4. attached' => unclean
    BY <2>1, <2>2, <2>3
  <2>5. CASE Close(registry)
    <3>1. \/ leftover' = leftover \ {registry} /\ unclean' = unclean
          \/ unclean' = TRUE
      BY <1>3, <2>5 DEF Close
    <3>2. (leftover' = {} \/ unclean') /\ (unclean => unclean')
      BY <2>1, <3>1
    <3>3. QED
      BY <1>2, <1>3, <2>4, <3>2 DEF SessionInv, SessionIsOwn
  <2>6. CASE leftover' = leftover \cup {registry} /\ unclean' = TRUE
    BY <1>2, <1>3, <2>6 DEF SessionInv, SessionIsOwn
  <2>7. QED
    BY <2>5, <2>6
<1>4. CASE driver = "claude"
  <2>1. registry = <<"account", 0>>
    BY <1>4 DEF InTrial, Registry
  <2>2. leftover \subseteq {<<"account", 0>>}
    BY <1>4 DEF SessionInv
  <2>3. attached => unclean \/ <<"account", 0>> \in leftover
    BY DEF SessionInv, SessionIsOwn
  <2>4. /\ leftover \subseteq leftover' /\ leftover' \subseteq {<<"account", 0>>}
        /\ unclean => unclean'
    BY <1>4, <2>1, <2>2 DEF Close
  <2>5. attached' => unclean' \/ <<"account", 0>> \in leftover'
    BY <1>1, <2>1, <2>3, <2>4
  <2>6. QED
    BY <1>2, <1>4, <2>4, <2>5 DEF SessionInv, SessionIsOwn
<1>5. QED
  BY <1>3, <1>4

\* What a candidate saves is of its trial.
LEMMA ObjectsAreOwn ==
  ASSUME TypeOK, CommandInv, OwnInv, NEW name \in Names, NEW registry,
         InTrial(name, registry), Candidate(name, registry),
         UNCHANGED <<run, uncleared, verdicts>>
  PROVE  OwnInv' /\ folder' \in [Names -> Object]
<1>1. /\ pc = "arm" /\ name = <<Head(todo), attempt_index>>
  BY DEF InTrial, SaveName
<1>2. run \in Nat /\ run > 0 /\ ~ended /\ todo # <<>> /\ todo \in Seq(Arms)
  BY <1>1 DEF CommandInv, TypeOK
<1>3. Head(todo) \in Arms
  BY <1>2
<1>4. folder \in [Names -> Object]
  BY DEF TypeOK
<1>5. \/ folder' = [folder EXCEPT ![name] = [arm |-> Head(todo), run |-> run]]
      \/ folder' = folder
  BY DEF Candidate
<1>6. [arm |-> Head(todo), run |-> run] \in Object
  BY <1>2, <1>3 DEF Object
<1>7. folder' \in [Names -> Object]
  BY <1>4, <1>5, <1>6
<1>8. name[1] = Head(todo)
  BY <1>1
<1>9. ASSUME ~uncleared
      PROVE  /\ \A n \in Names : folder'[n] # NoObject => folder'[n] = [arm |-> n[1], run |-> run]
             /\ DOMAIN verdicts = {}
  <2>1. \A n \in Names : folder[n] # NoObject => folder[n] = [arm |-> n[1], run |-> run]
    BY <1>9 DEF OwnInv
  <2>2. \A row \in DOMAIN verdicts : ended
    BY <1>9 DEF OwnInv
  <2>3. ASSUME NEW n \in Names, folder'[n] # NoObject
        PROVE  folder'[n] = [arm |-> n[1], run |-> run]
    <3>1. CASE n = name
      BY <1>4, <1>5, <1>8, <2>1, <2>3, <3>1
    <3>2. CASE n # name
      BY <1>4, <1>5, <2>1, <2>3, <3>2
    <3>3. QED
      BY <3>1, <3>2
  <2>4. QED
    BY <1>2, <2>2, <2>3
<1>10. run' # 0
  BY <1>2
<1>11. OwnInv'
  BY <1>9, <1>10 DEF OwnInv
<1>12. QED
  BY <1>7, <1>11

LEMMA CoveredStays ==
  ASSUME UNCHANGED <<files, run>>
  PROVE  Covered' = Covered
BY DEF Covered, Rows

\* The row of an attempt is a name of the folder.
LEMMA RowsAreNames ==
  ASSUME NEW a \in Arms, NEW s \in Seq(Attempt)
  PROVE  Rows(a, s) \in SUBSET Names
<1>1. ASSUME NEW j \in 1 .. Len(s) PROVE s[j].attempt_index \in 0 .. MaxIndex
  <2>1. s[j] \in Attempt
    OBVIOUS
  <2>2. QED
    BY <2>1 DEF Attempt
<1>2. QED
  BY <1>1 DEF Rows, Names

-----------------------------------------------------------------------------
(* The steps.                                                              *)

LEMMA InitStep == Init => IInv
<1> SUFFICES ASSUME Init PROVE IInv
  OBVIOUS
<1> USE SpikeAssumption
<1>1. /\ attempts = <<>> /\ valid_runs = <<>> /\ invalid_count = 0
      /\ attempt_index = 0 /\ status = "running"
  BY DEF Init, Trials!Init
<1>2. TypeOK
  <2>1. NoObject \in Object
    BY DEF NoObject, Object
  <2>2. [a \in Arms |-> [run |-> 0, trials |-> <<>>]] \in
          [Arms -> [run : Nat, trials : Seq(Attempt)]]
    OBVIOUS
  <2>3. folder \in [Names -> Object] /\ files \in [Arms -> [run : Nat, trials : Seq(Attempt)]]
    BY <2>1, <2>2 DEF Init
  <2>4. /\ pc = "off" /\ todo = <<>> /\ driver \in {"chat", "claude"} /\ run = 0
        /\ recorded = {} /\ sheet = {}
    BY DEF Init
  <2>5. /\ ended \in BOOLEAN /\ attached \in BOOLEAN
        /\ unclean \in BOOLEAN /\ uncleared \in BOOLEAN
    BY DEF Init
  <2>6. /\ recorded \in SUBSET Names /\ sheet \in SUBSET Names
        /\ attempts \in Seq(Attempt) /\ valid_runs \in Seq(Banked) /\ todo \in Seq(Arms)
    BY <1>1, <2>4
  <2>7. QED
    BY <1>1, <2>3, <2>4, <2>5, <2>6 DEF TypeOK
<1>3. Len(<<>>) = 0
  OBVIOUS
<1>4. LoopInv
  <2>1. ~Trials!RateExceeded(0)
    BY DEF Trials!RateExceeded
  <2>2. Cardinality(Valids(attempts)) = 0
    BY <1>1, NoneYet
  <2>3. QED
    BY <1>1, <1>3, <2>1, <2>2 DEF LoopInv
<1>5. FilesInv
  <2>1. \A a \in Arms : files[a].trials = <<>>
    BY DEF Init
  <2>2. Finished(<<>>)
    BY NoneYet DEF Finished
  <2>3. QED
    BY <2>1, <2>2 DEF FilesInv
<1>6. CommandInv
  BY DEF Init, CommandInv
<1>7. OwnInv
  <2>1. \A n \in Names : folder[n] = NoObject
    BY DEF Init
  <2>2. verdicts = <<>> /\ pc = "off" /\ ~ended
    BY DEF Init
  <2>3. DOMAIN verdicts = {}
    BY <2>2
  <2>4. QED
    BY <2>1, <2>2, <2>3 DEF OwnInv
<1>8. SessionInv
  BY DEF Init, SessionInv, SessionIsOwn
<1>9. QED
  BY <1>2, <1>4, <1>5, <1>6, <1>7, <1>8 DEF IInv

LEMMA StartStep ==
  ASSUME IInv, NEW arms \in Seq(Arms), arms # <<>>,
         \A i, j \in DOMAIN arms : arms[i] = arms[j] => i = j,
         Start(arms)
  PROVE  IInv'
<1>1. TypeOK /\ LoopInv /\ FilesInv /\ CommandInv /\ OwnInv /\ SessionInv
  BY DEF IInv
<1>2. /\ pc' = "arm" /\ run' = run + 1 /\ todo' = arms /\ ended' = FALSE
      /\ recorded' = {} /\ FreshLoop /\ pc = "off"
      /\ UNCHANGED <<driver, files, sheet, leftover, attached, unclean>>
  BY DEF Start, sessionVars
<1>3. \/ folder' = [n \in Names |-> NoObject] /\ verdicts' = <<>> /\ uncleared' = FALSE
      \/ UNCHANGED <<folder, verdicts>> /\ uncleared' = (run > 0)
  BY DEF Start
<1>4. run \in Nat /\ folder \in [Names -> Object] /\ files \in [Arms -> [run : Nat, trials : Seq(Attempt)]]
  BY <1>1 DEF TypeOK
<1>5. /\ LoopInv'
      /\ attempts' \in Seq(Attempt) /\ valid_runs' \in Seq(Banked)
      /\ invalid_count' \in Nat /\ attempt_index' \in Nat
      /\ status' \in {"running", "completed", "void"}
  BY <1>2, FreshStands
<1>6. TypeOK'
  <2>1. NoObject \in Object
    BY DEF NoObject, Object
  <2>2. folder' \in [Names -> Object]
    BY <1>3, <1>4, <2>1
  <2>a. uncleared' \in BOOLEAN
    <3>1. (run > 0) \in BOOLEAN
      BY <1>4
    <3>2. QED
      BY <1>3, <3>1, Zenon
  <2>3. run' \in Nat
    BY <1>2, <1>4
  <2>4. QED
    BY <1>1, <1>2, <1>5, <2>2, <2>a, <2>3 DEF TypeOK
<1>7. FilesInv'
  BY <1>1, <1>2 DEF FilesInv
<1>8. CommandInv'
  <2>1. ASSUME NEW a \in Arms PROVE files[a].run < run'
    <3>1. files[a].run <= run /\ files[a].run \in Nat
      BY <1>1, <1>4 DEF CommandInv
    <3>2. QED
      BY <1>2, <1>4, <3>1
  <2>2. {b \in Arms : files'[b].run = run'} = {}
    <3>1. ASSUME NEW b \in Arms PROVE files[b].run # run'
      <4>1. files[b].run < run' /\ files[b].run \in Nat /\ run' \in Nat
        BY <1>2, <1>4, <2>1
      <4>2. QED
        BY <4>1
    <3>2. QED
      BY <1>2, <3>1
  <2>3. Covered' = {}
    BY <2>2 DEF Covered
  <2>4. \A a \in Arms : files'[a].run <= run'
    <3>1. ASSUME NEW a \in Arms PROVE files'[a].run <= run'
      <4>1. files[a].run < run' /\ files[a].run \in Nat /\ run' \in Nat
        BY <1>2, <1>4, <2>1
      <4>2. QED
        BY <1>2, <4>1
    <3>2. QED
      BY <3>1
  <2>5. \A i \in DOMAIN todo' : todo'[i] \in Arms
    BY <1>2
  <2>6. run' > 0
    BY <1>2, <1>4
  <2>7. QED
    BY <1>2, <2>1, <2>3, <2>4, <2>5, <2>6 DEF CommandInv
<1>9. OwnInv'
  <2>1. run' # 0
    BY <1>2, <1>4
  <2>2. ASSUME ~uncleared'
        PROVE  (\A n \in Names : folder'[n] = NoObject) /\ DOMAIN verdicts' = {}
    <3>1. CASE folder' = [n \in Names |-> NoObject] /\ verdicts' = <<>>
      <4>1. DOMAIN <<>> = {}
        OBVIOUS
      <4>2. QED
        BY <3>1, <4>1
    <3>2. CASE UNCHANGED <<folder, verdicts>> /\ uncleared' = (run > 0)
      <4>a. ~(run > 0)
        BY <2>2, <3>2, Zenon
      <4>1. run = 0
        BY <1>4, <4>a
      <4>2. QED
        BY <1>1, <3>2, <4>1 DEF OwnInv
    <3>3. QED
      BY <1>3, <3>1, <3>2
  <2>3. QED
    BY <2>1, <2>2 DEF OwnInv
<1>10. SessionInv'
  BY <1>1, <1>2 DEF SessionInv, SessionIsOwn
<1>11. QED
  BY <1>5, <1>6, <1>7, <1>8, <1>9, <1>10 DEF IInv

LEMMA TrialStep ==
  ASSUME IInv, NEW name \in Names, NEW registry, NEW kind \in Kinds,
         Trial(kind, name, registry)
  PROVE  IInv'
<1>1. TypeOK /\ LoopInv /\ FilesInv /\ CommandInv /\ OwnInv /\ SessionInv
  BY DEF IInv
<1>2. /\ InTrial(name, registry) /\ Candidate(name, registry) /\ Close(registry)
      /\ Trials!BankTrial(kind) \/ Trials!ReplaceTrial(kind)
      /\ UNCHANGED <<pc, todo, driver, run, ended, recorded, files, sheet, verdicts, uncleared>>
  BY DEF Trial, processVars, diskVars
<1>3. attempt_index <= MaxIndex
  BY <1>2 DEF InTrial
<1>4. /\ LoopInv'
      /\ attempts' \in Seq(Attempt) /\ valid_runs' \in Seq(Banked)
      /\ invalid_count' \in Nat /\ attempt_index' \in Nat
      /\ status' \in {"running", "completed", "void"}
  BY <1>1, <1>2, <1>3, LoopStep
<1>5. OwnInv' /\ folder' \in [Names -> Object]
  BY <1>1, <1>2, ObjectsAreOwn
<1>6. SessionInv' /\ attached' \in BOOLEAN /\ unclean' \in BOOLEAN
  BY <1>1, <1>2, SessionsKept DEF TypeOK
<1>7. TypeOK'
  BY <1>1, <1>2, <1>4, <1>5, <1>6 DEF TypeOK
<1>8. FilesInv'
  BY <1>1, <1>2 DEF FilesInv
<1>9. CommandInv'
  <2>1. Covered' = Covered
    BY <1>2, CoveredStays
  <2>2. QED
    BY <1>1, <1>2, <2>1 DEF CommandInv
<1>10. QED
  BY <1>4, <1>5, <1>6, <1>7, <1>8, <1>9 DEF IInv

LEMMA UnreachableStep ==
  ASSUME IInv, NEW name \in Names, NEW registry, Unreachable(name, registry)
  PROVE  IInv'
<1>1. TypeOK /\ LoopInv /\ FilesInv /\ CommandInv /\ OwnInv /\ SessionInv
  BY DEF IInv
<1>2. /\ InTrial(name, registry) /\ Candidate(name, registry) /\ Close(registry)
      /\ sheet' = recorded /\ pc' = "off" /\ ended' = TRUE
      /\ UNCHANGED <<attempts, valid_runs, invalid_count, attempt_index, status>>
      /\ UNCHANGED <<todo, driver, run, recorded, files, verdicts, uncleared>>
  BY DEF Unreachable, Ends, trialVars
<1>3. pc = "arm"
  BY <1>2 DEF InTrial
<1>4. OwnInv' /\ folder' \in [Names -> Object]
  BY <1>1, <1>2, ObjectsAreOwn
<1>5. SessionInv' /\ attached' \in BOOLEAN /\ unclean' \in BOOLEAN
  BY <1>1, <1>2, SessionsKept DEF TypeOK
<1>6. TypeOK'
  BY <1>1, <1>2, <1>4, <1>5 DEF TypeOK
<1>7. LoopInv' /\ FilesInv'
  BY <1>1, <1>2 DEF LoopInv, FilesInv, Trials!RateExceeded
<1>8. CommandInv'
  <2>1. Covered' = Covered
    BY <1>2, CoveredStays
  <2>2. recorded = Covered
    BY <1>1, <1>3 DEF CommandInv
  <2>3. QED
    BY <1>1, <1>2, <2>1, <2>2 DEF CommandInv
<1>9. QED
  BY <1>4, <1>5, <1>6, <1>7, <1>8 DEF IInv

LEMMA KilledStep ==
  ASSUME IInv, NEW name \in Names, NEW registry, Killed(name, registry)
  PROVE  IInv'
<1>1. TypeOK /\ LoopInv /\ FilesInv /\ CommandInv /\ OwnInv /\ SessionInv
  BY DEF IInv
<1>2. /\ InTrial(name, registry) /\ Candidate(name, registry)
      /\ leftover' = leftover \cup {registry} /\ unclean' = TRUE /\ pc' = "off"
      /\ UNCHANGED <<attempts, valid_runs, invalid_count, attempt_index, status>>
      /\ UNCHANGED <<todo, driver, run, ended, recorded, files, sheet, verdicts, uncleared>>
  BY DEF Killed, trialVars, diskVars
<1>3. ~ended
  BY <1>1, <1>2 DEF InTrial, CommandInv
<1>4. OwnInv' /\ folder' \in [Names -> Object]
  BY <1>1, <1>2, ObjectsAreOwn
<1>5. SessionInv' /\ attached' \in BOOLEAN /\ unclean' \in BOOLEAN
  BY <1>1, <1>2, SessionsKept DEF TypeOK
<1>6. TypeOK'
  BY <1>1, <1>2, <1>4, <1>5 DEF TypeOK
<1>7. LoopInv' /\ FilesInv'
  BY <1>1, <1>2 DEF LoopInv, FilesInv, Trials!RateExceeded
<1>8. CommandInv'
  BY <1>1, <1>2, <1>3 DEF CommandInv
<1>9. QED
  BY <1>4, <1>5, <1>6, <1>7, <1>8 DEF IInv

\* The file of the arm that was run joins those of this invocation.
LEMMA CoveredGrows ==
  ASSUME TypeOK, CommandInv, NEW arm \in Arms, files[arm].run < run, run' = run,
         files' = [files EXCEPT ![arm] = [run |-> run, trials |-> attempts]]
  PROVE  Covered' = Covered \cup Rows(arm, attempts)
<1>1. files \in [Arms -> [run : Nat, trials : Seq(Attempt)]] /\ run \in Nat
  BY DEF TypeOK
<1>2. files[arm].run # run
  BY <1>1
<1>3. files'[arm].run = run /\ files'[arm].trials = attempts
  BY <1>1
<1>4. \A b \in Arms : b # arm => files'[b] = files[b]
  BY <1>1
<1>5. {b \in Arms : files'[b].run = run'} = {b \in Arms : files[b].run = run} \cup {arm}
  BY <1>2, <1>3, <1>4
<1>6. \A row : row \in Covered' <=>
                 \E b \in Arms : files'[b].run = run /\ row \in Rows(b, files'[b].trials)
  BY DEF Covered, Rows
<1>7. \A row : row \in Covered <=>
                 \E b \in Arms : files[b].run = run /\ row \in Rows(b, files[b].trials)
  BY DEF Covered
<1>8. ASSUME NEW row PROVE row \in Covered' <=> row \in Covered \cup Rows(arm, attempts)
  <2>1. ASSUME row \in Covered' PROVE row \in Covered \cup Rows(arm, attempts)
    <3>1. PICK b \in Arms : files'[b].run = run /\ row \in Rows(b, files'[b].trials)
      BY <1>6, <2>1
    <3>2. CASE b = arm
      BY <1>3, <3>1, <3>2
    <3>3. CASE b # arm
      BY <1>4, <1>7, <3>1, <3>3
    <3>4. QED
      BY <3>2, <3>3
  <2>2. ASSUME row \in Covered PROVE row \in Covered'
    <3>1. PICK b \in Arms : files[b].run = run /\ row \in Rows(b, files[b].trials)
      BY <1>7, <2>2
    <3>2. b # arm
      BY <1>2, <3>1
    <3>3. QED
      BY <1>4, <1>6, <3>1, <3>2
  <2>3. ASSUME row \in Rows(arm, attempts) PROVE row \in Covered'
    BY <1>3, <1>6, <2>3
  <2>4. QED
    BY <2>1, <2>2, <2>3
<1>9. QED
  BY <1>8

LEMMA FinishStep ==
  ASSUME IInv, FinishArm
  PROVE  IInv'
<1> USE SpikeAssumption
<1> DEFINE arm  == Head(todo)
           last == Len(todo) = 1 \/ \E j \in 1 .. Len(attempts) : attempts[j].run = "blocked"
<1>1. TypeOK /\ LoopInv /\ FilesInv /\ CommandInv /\ OwnInv /\ SessionInv
  BY DEF IInv
<1>2. /\ pc = "arm" /\ status \in {"completed", "void"}
      /\ files' = [files EXCEPT ![arm] = [run |-> run, trials |-> attempts]]
      /\ recorded' = recorded \cup Rows(arm, attempts)
      /\ UNCHANGED <<driver, run, verdicts, folder, leftover, attached, unclean, uncleared>>
  BY DEF FinishArm, sessionVars
<1>3. \/ /\ sheet' = recorded' /\ pc' = "off" /\ ended' = TRUE
         /\ UNCHANGED <<todo, attempts, valid_runs, invalid_count, attempt_index, status>>
      \/ /\ Len(todo) # 1 /\ todo' = Tail(todo) /\ FreshLoop
         /\ UNCHANGED <<pc, ended, sheet>>
  <2>1. IF last THEN Ends(recorded') /\ UNCHANGED <<todo, trialVars>>
        ELSE todo' = Tail(todo) /\ FreshLoop /\ UNCHANGED <<pc, ended, sheet>>
    BY DEF FinishArm
  <2>2. CASE last
    <3>1. Ends(recorded') /\ UNCHANGED <<todo, trialVars>>
      BY <2>1, <2>2
    <3>2. QED
      BY <3>1 DEF Ends, trialVars
  <2>3. CASE ~last
    <3>1. todo' = Tail(todo) /\ FreshLoop /\ UNCHANGED <<pc, ended, sheet>>
      BY <2>1, <2>3
    <3>2. QED
      BY <2>3, <3>1
  <2>4. QED
    BY <2>2, <2>3
<1> HIDE DEF last
<1>4. /\ run \in Nat /\ run > 0 /\ ~ended /\ todo # <<>> /\ todo \in Seq(Arms)
      /\ \A i, j \in DOMAIN todo : todo[i] = todo[j] => i = j
      /\ \A i \in DOMAIN todo : files[todo[i]].run < run
      /\ recorded = Covered
  BY <1>1, <1>2 DEF CommandInv, TypeOK
<1>5. arm \in Arms /\ arm = todo[1] /\ 1 \in DOMAIN todo
  BY <1>4
<1>6. files[arm].run < run
  BY <1>4, <1>5
<1>7. files \in [Arms -> [run : Nat, trials : Seq(Attempt)]] /\ attempts \in Seq(Attempt)
  BY <1>1 DEF TypeOK
<1>8. recorded' \in SUBSET Names
  <2>1. recorded \in SUBSET Names
    BY <1>1 DEF TypeOK
  <2>2. Rows(arm, attempts) \in SUBSET Names
    BY <1>5, <1>7, RowsAreNames
  <2>3. QED
    BY <1>2, <2>1, <2>2
<1>9. Covered' = recorded'
  <2>1. Covered' = Covered \cup Rows(arm, attempts)
    BY <1>1, <1>2, <1>5, <1>6, CoveredGrows
  <2>2. QED
    BY <1>2, <1>4, <2>1
<1>10. FilesInv'
  <2>1. Finished(attempts)
    BY <1>1, <1>2, LoopFinishes
  <2>2. ASSUME NEW a \in Arms PROVE Finished(files'[a].trials)
    <3>1. CASE a = arm
      <4>1. files'[a].trials = attempts
        BY <1>2, <1>7, <3>1
      <4>2. QED
        BY <2>1, <4>1
    <3>2. CASE a # arm
      <4>1. files'[a] = files[a]
        BY <1>2, <1>7, <3>2
      <4>2. QED
        BY <1>1, <4>1 DEF FilesInv
    <3>3. QED
      BY <3>1, <3>2
  <2>3. QED
    BY <2>2 DEF FilesInv, Finished, Valids, Trials!RateExceeded
<1>11. OwnInv'
  <2>1. ASSUME ~uncleared
        PROVE  /\ \A n \in Names : folder[n] # NoObject => folder[n] = [arm |-> n[1], run |-> run]
               /\ DOMAIN verdicts = {}
    BY <1>1, <1>4, <2>1 DEF OwnInv
  <2>2. run' # 0
    BY <1>2, <1>4
  <2>3. QED
    BY <1>2, <2>1, <2>2 DEF OwnInv
<1>12. SessionInv'
  BY <1>1, <1>2 DEF SessionInv, SessionIsOwn
<1>13. files' \in [Arms -> [run : Nat, trials : Seq(Attempt)]]
  BY <1>2, <1>4, <1>7
<1>14. ASSUME NEW a \in Arms PROVE files'[a].run <= run'
  <2>1. files[a].run <= run
    BY <1>1 DEF CommandInv
  <2>2. CASE a = arm
    BY <1>2, <1>4, <1>7, <2>2
  <2>3. CASE a # arm
    BY <1>2, <1>4, <1>7, <2>1, <2>3
  <2>4. QED
    BY <2>2, <2>3
<1>15. CASE /\ sheet' = recorded' /\ pc' = "off" /\ ended' = TRUE
            /\ UNCHANGED <<todo, attempts, valid_runs, invalid_count, attempt_index, status>>
  <2>1. LoopInv'
    BY <1>1, <1>15 DEF LoopInv, Trials!RateExceeded
  <2>2. TypeOK'
    BY <1>1, <1>2, <1>8, <1>13, <1>15 DEF TypeOK
  <2>3. CommandInv'
    BY <1>9, <1>14, <1>15 DEF CommandInv
  <2>4. QED
    BY <1>10, <1>11, <1>12, <2>1, <2>2, <2>3 DEF IInv
<1>16. CASE /\ Len(todo) # 1 /\ todo' = Tail(todo) /\ FreshLoop
            /\ UNCHANGED <<pc, ended, sheet>>
  <2>1. /\ LoopInv'
        /\ attempts' \in Seq(Attempt) /\ valid_runs' \in Seq(Banked)
        /\ invalid_count' \in Nat /\ attempt_index' \in Nat
        /\ status' \in {"running", "completed", "void"}
    BY <1>16, FreshStands
  <2>2. todo' \in Seq(Arms) /\ todo' # <<>>
    <3>1. todo \in Seq(Arms) /\ todo # <<>> /\ todo' = Tail(todo) /\ Len(todo) # 1
      BY <1>4, <1>16
    <3>2. Tail(todo) \in Seq(Arms) /\ Len(Tail(todo)) = Len(todo) - 1
      BY <3>1, HeadTailProperties
    <3>3. Len(todo) \in Nat /\ Len(todo) - 1 # 0
      BY <3>1
    <3>4. QED
      BY <3>1, <3>2, <3>3
  <2>3. TypeOK'
    BY <1>1, <1>2, <1>8, <1>13, <1>16, <2>1, <2>2 DEF TypeOK
  <2>4. \A i \in DOMAIN todo' : i + 1 \in DOMAIN todo /\ i + 1 # 1 /\ todo'[i] = todo[i + 1]
    BY <1>4, <1>16
  <2>5. \A i, j \in DOMAIN todo' : todo'[i] = todo'[j] => i = j
    <3>1. ASSUME NEW i \in DOMAIN todo', NEW j \in DOMAIN todo', todo'[i] = todo'[j]
          PROVE  i = j
      <4>1. i \in Int /\ j \in Int
        BY <2>2
      <4>2. i + 1 = j + 1
        BY <1>4, <2>4, <3>1
      <4>3. QED
        BY <4>1, <4>2
    <3>2. QED
      BY <3>1
  <2>6. ASSUME NEW i \in DOMAIN todo' PROVE files'[todo'[i]].run < run'
    <3>1. i + 1 \in DOMAIN todo /\ i + 1 # 1 /\ todo'[i] = todo[i + 1]
      BY <2>4
    <3>2. todo'[i] # arm /\ todo'[i] \in Arms
      BY <1>4, <1>5, <2>2, <3>1
    <3>3. files'[todo'[i]] = files[todo'[i]]
      BY <1>2, <1>7, <3>2
    <3>4. files[todo'[i]].run < run
      BY <1>4, <3>1
    <3>5. QED
      BY <1>2, <3>3, <3>4
  <2>7. CommandInv'
    BY <1>2, <1>4, <1>9, <1>14, <1>16, <2>2, <2>5, <2>6 DEF CommandInv
  <2>8. QED
    BY <1>10, <1>11, <1>12, <2>1, <2>3, <2>7 DEF IInv
<1>17. QED
  BY <1>3, <1>15, <1>16

LEMMA OwnerStep ==
  ASSUME IInv, OwnerJudges
  PROVE  IInv'
<1>1. TypeOK /\ LoopInv /\ FilesInv /\ CommandInv /\ OwnInv /\ SessionInv
  BY DEF IInv
<1>2. /\ pc = "off" /\ ended
      /\ verdicts' = [row \in sheet |->
                        IF folder[SaveName(row[1], row[2])] = NoObject THEN "FAIL" ELSE "PASS"]
      /\ UNCHANGED <<attempts, valid_runs, invalid_count, attempt_index, status>>
      /\ UNCHANGED <<pc, todo, driver, run, ended, recorded>>
      /\ UNCHANGED <<files, sheet, folder, leftover, attached, unclean, uncleared>>
  BY DEF OwnerJudges, trialVars, processVars, sessionVars
<1>3. TypeOK'
  BY <1>1, <1>2 DEF TypeOK
<1>4. LoopInv' /\ FilesInv' /\ SessionInv'
  BY <1>1, <1>2 DEF LoopInv, FilesInv, SessionInv, SessionIsOwn, Trials!RateExceeded
<1>5. CommandInv'
  <2>1. Covered' = Covered
    BY <1>2, CoveredStays
  <2>2. QED
    BY <1>1, <1>2, <2>1 DEF CommandInv
<1>6. OwnInv'
  <2>1. run' # 0 /\ sheet \in SUBSET Names
    BY <1>1, <1>2 DEF OwnInv, TypeOK
  <2>2. ASSUME NEW row \in DOMAIN verdicts'
        PROVE  /\ ended' /\ row \in sheet'
               /\ verdicts'[row] = "PASS" => folder'[row] # NoObject
    <3>1. row \in sheet /\ DOMAIN verdicts' = sheet
      BY <1>2
    <3>2. <<row[1], row[2]>> = row
      BY <2>1, <3>1 DEF Names
    <3>3. verdicts'[row] = IF folder[row] = NoObject THEN "FAIL" ELSE "PASS"
      BY <1>2, <3>1, <3>2 DEF SaveName
    <3>4. QED
      BY <1>2, <3>1, <3>3
  <2>3. ~uncleared => \A n \in Names : folder[n] # NoObject => folder[n] = [arm |-> n[1], run |-> run]
    BY <1>1 DEF OwnInv
  <2>4. QED
    BY <1>2, <2>1, <2>2, <2>3 DEF OwnInv
<1>7. QED
  BY <1>3, <1>4, <1>5, <1>6 DEF IInv

-----------------------------------------------------------------------------
(* The theorems.                                                           *)

\* The inductive invariant: the counters of the loop, what the files of the
\* arms went through, what the sheet covers, whose the objects and the
\* sessions are.
THEOREM SpikeIsSound == Spec => []IInv
<1>1. IInv /\ [Next]_vars => IInv'
  <2> SUFFICES ASSUME IInv, [Next]_vars PROVE IInv'
    OBVIOUS
  <2>1. CASE Start(ArmOrder)
    <3>1. /\ ArmOrder \in Seq(Arms) /\ ArmOrder # <<>>
          /\ \A i, j \in DOMAIN ArmOrder : ArmOrder[i] = ArmOrder[j] => i = j
      BY SpikeAssumption
    <3>2. QED
      BY <2>1, <3>1, StartStep
  <2>2. ASSUME NEW a \in Arms, Start(<<a>>) PROVE IInv'
    <3>1. /\ <<a>> \in Seq(Arms) /\ <<a>> # <<>>
          /\ \A i, j \in DOMAIN <<a>> : <<a>>[i] = <<a>>[j] => i = j
      OBVIOUS
    <3>2. QED
      BY <2>2, <3>1, StartStep
  <2>3. ASSUME NEW name \in Names, NEW registry \in Names \cup {<<"account", 0>>},
               \/ \E kind \in KindsOf(driver) : Trial(kind, name, registry)
               \/ Unreachable(name, registry)
               \/ Killed(name, registry)
        PROVE  IInv'
    <3>1. ASSUME NEW kind \in KindsOf(driver), Trial(kind, name, registry) PROVE IInv'
      <4>1. kind \in Kinds
        BY <3>1 DEF KindsOf
      <4>2. QED
        BY <3>1, <4>1, TrialStep
    <3>2. CASE Unreachable(name, registry)
      BY <3>2, UnreachableStep
    <3>3. CASE Killed(name, registry)
      BY <3>3, KilledStep
    <3>4. QED
      BY <2>3, <3>1, <3>2, <3>3
  <2>4. CASE FinishArm
    BY <2>4, FinishStep
  <2>5. CASE OwnerJudges
    BY <2>5, OwnerStep
  <2>6. CASE UNCHANGED vars
    <3>1. /\ UNCHANGED <<attempts, valid_runs, invalid_count, attempt_index, status>>
          /\ UNCHANGED <<pc, todo, driver, run, ended, recorded, files, sheet, verdicts>>
          /\ UNCHANGED <<folder, leftover, attached, unclean, uncleared>>
      BY <2>6 DEF vars, trialVars, processVars, diskVars, sessionVars
    <3>2. Covered' = Covered
      BY <3>1, CoveredStays
    <3>3. TypeOK /\ LoopInv /\ FilesInv /\ CommandInv /\ OwnInv /\ SessionInv
      BY DEF IInv
    <3>4. TypeOK'
      BY <3>1, <3>3 DEF TypeOK
    <3>5. LoopInv' /\ FilesInv'
      BY <3>1, <3>3 DEF LoopInv, FilesInv, Trials!RateExceeded
    <3>6. CommandInv' /\ OwnInv' /\ SessionInv'
      BY <3>1, <3>2, <3>3 DEF CommandInv, OwnInv, SessionInv, SessionIsOwn
    <3>7. QED
      BY <3>4, <3>5, <3>6 DEF IInv
  <2>7. QED
    BY <2>1, <2>2, <2>3, <2>4, <2>5, <2>6 DEF Next
<1>2. QED
  BY <1>1, InitStep, PTL DEF Spec

\* The sheet of a command that returned lists the trials it left on disk, and
\* no other.
THEOREM SheetsCoverRuns == Spec => []SheetCoversRun
<1>1. IInv => SheetCoversRun
  BY DEF IInv, CommandInv, Covered, SheetCoversRun
<1>2. QED
  BY <1>1, SpikeIsSound, PTL

\* A pass the report counts is that of a valid trial, and the owner looked at
\* the object this very trial saved, unless the run began over the remains of
\* another.
THEOREM PassesAreOwn == Spec => []PassIsOwn
<1>1. IInv => PassIsOwn
  <2> SUFFICES ASSUME IInv, ~uncleared, NEW a \in Arms, NEW j \in With(a, {"PASS"})
               PROVE  LET t == files[a].trials[j]
                      IN /\ t.valid
                         /\ folder[SaveName(a, t.attempt_index)] = [arm |-> a, run |-> files[a].run]
    BY DEF PassIsOwn
  <2> DEFINE t   == files[a].trials[j]
             row == <<a, t.attempt_index>>
  <2>1. VerdictFor(a, t) = "PASS"
    BY DEF With
  <2>2. t.valid /\ row \in DOMAIN verdicts /\ verdicts[row] = "PASS"
    <3>1. CASE t.valid /\ row \in DOMAIN verdicts
      BY <2>1, <3>1 DEF VerdictFor
    <3>2. CASE ~(t.valid /\ row \in DOMAIN verdicts)
      <4>1. VerdictFor(a, t) = "INVALID"
        BY <3>2 DEF VerdictFor
      <4>2. QED
        BY <2>1, <4>1
    <3>3. QED
      BY <3>1, <3>2
  <2> HIDE DEF t
  <2>3. ended /\ row \in sheet /\ folder[row] # NoObject
    BY <2>2 DEF IInv, OwnInv
  <2>4. row \in Names
    BY <2>3 DEF IInv, TypeOK
  <2>5. folder[row] = [arm |-> row[1], run |-> run]
    BY <2>3, <2>4 DEF IInv, OwnInv
  <2>6. row \in Covered
    BY <2>3 DEF IInv, CommandInv
  <2>7. PICK b \in Arms : files[b].run = run /\ row \in Rows(b, files[b].trials)
    BY <2>6 DEF Covered
  <2>8. b = a
    BY <2>7 DEF Rows
  <2>9. folder[<<a, t.attempt_index>>] = [arm |-> a, run |-> files[a].run]
    BY <2>5, <2>7, <2>8
  <2>10. QED
    BY <2>2, <2>9 DEF t, SaveName
<1>2. QED
  BY <1>1, SpikeIsSound, PTL

\* Where pass_pow_3 asks for no fewer trials than the loop banks, an arm that
\* passes at that power was not void: it has its K valid trials, at an accepted
\* share.
THEOREM PowsArePowered == Pow >= K => (Spec => []PowIsPowered)
<1> SUFFICES ASSUME Pow >= K PROVE Spec => []PowIsPowered
  OBVIOUS
<1> USE SpikeAssumption
<1>1. IInv => PowIsPowered
  <2> SUFFICES ASSUME IInv, NEW a \in Arms, PassPow(a)
               PROVE  /\ Cardinality(Valids(files[a].trials)) = K
                      /\ ~Trials!RateExceeded(Len(files[a].trials)
                                                - Cardinality(Valids(files[a].trials)))
    BY DEF PowIsPowered, Valids
  <2> DEFINE s == files[a].trials
  <2>1. s \in Seq(Attempt)
    BY DEF IInv, TypeOK
  <2>2. Finished(s)
    BY DEF IInv, FilesInv
  <2>3. ASSUME NEW j \in With(a, {"PASS", "FAIL"}) PROVE j \in Valids(s)
    <3>1. j \in 1 .. Len(s) /\ VerdictFor(a, s[j]) # "INVALID"
      BY DEF With
    <3>2. s[j].valid
      BY <3>1 DEF VerdictFor
    <3>3. QED
      BY <3>1, <3>2 DEF Valids
  <2> HIDE DEF s
  <2>4. With(a, {"PASS", "FAIL"}) \subseteq Valids(s)
    BY <2>3
  <2>5. IsFiniteSet(Valids(s)) /\ Cardinality(Valids(s)) \in Nat
    <3>1. Len(s) \in Nat /\ Valids(s) \subseteq 1 .. Len(s)
      BY <2>1 DEF Valids
    <3>2. IsFiniteSet(1 .. Len(s))
      BY <3>1, FS_Interval
    <3>3. IsFiniteSet(Valids(s))
      BY <3>1, <3>2, FS_Subset
    <3>4. QED
      BY <3>3, FS_CardinalityType
  <2>6. /\ IsFiniteSet(With(a, {"PASS", "FAIL"}))
        /\ Cardinality(With(a, {"PASS", "FAIL"})) <= Cardinality(Valids(s))
    BY <2>4, <2>5, FS_Subset
  <2>7. Cardinality(With(a, {"PASS", "FAIL"})) \in Nat
    BY <2>6, FS_CardinalityType
  <2>8. Cardinality(With(a, {"PASS", "FAIL"})) >= Pow
    BY DEF PassPow
  <2>9. ~(Cardinality(Valids(s)) < K)
    BY <2>5, <2>6, <2>7, <2>8
  <2>10. QED
    BY <2>2, <2>9 DEF Finished, s
<1>2. QED
  BY <1>1, SpikeIsSound, PTL

\* A candidate meets another trial's browser session only under the claude
\* driver, or after a trial that was killed, or could neither stop its browsers
\* nor remove its registry.
THEOREM SessionsAreOwn == Spec => []SessionIsOwn
<1>1. IInv => SessionIsOwn
  BY DEF IInv, SessionInv
<1>2. QED
  BY <1>1, SpikeIsSound, PTL
=============================================================================
