---------------------- MODULE HierarchicalSearchProofs ----------------------
(***************************************************************************)
(* Proofs, for every list of programs, stages and attempts, of what the    *)
(* reports of HierarchicalSearch claim.                                    *)
(*                                                                         *)
(* The loops only ever look at the next item, so the invariant says what   *)
(* is known of everything behind: programs that were passed over are no    *)
(* candidates or could not be realized, attempts that were made failed and *)
(* left a trace in saw_unknown when nothing was decided.                   *)
(***************************************************************************)
EXTENDS HierarchicalSearch, TLAPS

Searching == phase \in {"stage", "attempt"}

SkeletonIsCandidate ==
    Searching => skeleton = considered /\ skeleton # 0 /\ IsCandidate(search.programs[skeleton])

\* What a status of a stage says of the skeleton.
Justified(i, status) ==
    /\ status = "realizable" <=> Realizable(skeleton, i)
    /\ status = "unrealizable" =>
        /\ search.stages[i].kind # "gap"
        /\ \A t \in Owed(skeleton, i) : Refuted(search.stages[i], Outcome(skeleton, i, t))

ResultsAreJustified == Searching => \A i \in 1 .. Len(results) : Justified(i, results[i])

Failed(stage, a) == ~ Raises(stage, a) /\ ~ Realizes(stage, a) /\ (Undecided(stage, a) => saw_unknown)

Attempted(s, c) == s < schedule \/ (s = schedule /\ c < configuration)

\* Every attempt before the one to make next failed.
AttemptsFailed ==
    phase = "attempt" =>
        /\ Current <= Len(search.stages) /\ CurrentStage.kind # "gap"
        /\ \A s \in DOMAIN search.programs[skeleton].attempts[Current] :
            \A c \in DOMAIN search.programs[skeleton].attempts[Current][s] :
                Attempted(s, c) =>
                    Failed(CurrentStage, search.programs[skeleton].attempts[Current][s][c])

Lost(p) == IsCandidate(search.programs[p]) => Blind /\ ~ EndToEnd(p)

\* Every program taken before is no candidate or was tried in vain.
EarlierAreLost ==
    /\ phase = "enumerate" => \A p \in 1 .. considered : Lost(p)
    /\ Searching => \A p \in 1 .. considered - 1 : Lost(p)

ReportIsLast == phase # "reported" => report = NoReport

ReportIsRight == WitnessIsReal /\ ExhaustedIsComplete /\ UnrealizableIsRefuted /\ SkeletonIsFirst

IInv ==
    /\ search \in Search
    /\ TypeOK
    /\ SkeletonIsCandidate
    /\ ResultsAreJustified
    /\ AttemptsFailed
    /\ EarlierAreLost
    /\ ReportIsLast
    /\ ReportIsRight

-----------------------------------------------------------------------------
(* The arguments of the search, and the attempts it owes a stage. *)

LEMMA SearchTypes ==
    ASSUME search \in Search
    PROVE  /\ search.generation \in {"explicit", "bounded"}
           /\ search.target \in {"allowed", "forbidden"}
           /\ search.max_assignments \in Nat
           /\ search.programs \in Seq(Program) /\ search.stages \in Seq(Stage)
           /\ \A i \in 1 .. Len(search.programs) :
                Len(search.programs[i].attempts) = Len(search.stages)
BY SearchAssumption

\* The places of a list of lists.
LEMMA Places ==
    ASSUME NEW S, NEW lists \in Seq(Seq(S)), NEW s \in DOMAIN lists, NEW c \in DOMAIN lists[s]
    PROVE  /\ s \in Nat \ {0} /\ c \in Nat \ {0}
           /\ Len(lists[s]) \in Nat /\ c <= Len(lists[s])
<1>1. lists[s] \in Seq(S)
  OBVIOUS
<1>2. s \in Nat \ {0}
  OBVIOUS
<1> DEFINE list == lists[s]
<1> HIDE DEF list
<1>3. c \in 1 .. Len(list) /\ Len(list) \in Nat
  BY <1>1 DEF list
<1>4. c \in Nat \ {0} /\ c <= Len(list)
  BY <1>3
<1> QED
  BY <1>2, <1>3, <1>4 DEF list

LEMMA AttemptsOf ==
    ASSUME search \in Search,
           NEW p \in 1 .. Len(search.programs), NEW i \in 1 .. Len(search.stages)
    PROVE  /\ search.programs[p].attempts[i] \in Seq(Seq(Attempt))
           /\ search.stages[i] \in Stage
<1>1. search.programs \in Seq(Program) /\ search.stages \in Seq(Stage)
  BY SearchTypes
<1>2. search.programs[p] \in Program /\ search.stages[i] \in Stage
  BY <1>1
<1>3. search.programs[p].attempts \in Seq(Seq(Seq(Attempt)))
  BY <1>2 DEF Program
<1>4. Len(search.programs[p].attempts) = Len(search.stages)
  BY SearchTypes
<1> QED
  BY <1>2, <1>3, <1>4

LEMMA OwedAttempt ==
    ASSUME search \in Search,
           NEW p \in 1 .. Len(search.programs), NEW i \in 1 .. Len(search.stages),
           NEW t \in Owed(p, i)
    PROVE  \E s \in DOMAIN search.programs[p].attempts[i] :
             \E c \in DOMAIN search.programs[p].attempts[i][s] :
                /\ s <= Schedules(p, i)
                /\ Outcome(p, i, t) = search.programs[p].attempts[i][s][c]
                /\ Outcome(p, i, t) \in Attempt
<1>1. PICK s \in DOMAIN search.programs[p].attempts[i] :
        /\ s <= search.stages[i].max_schedules
        /\ t \in {<<s, c>> : c \in DOMAIN search.programs[p].attempts[i][s]}
  BY DEF Owed, Permitted
<1>2. PICK c \in DOMAIN search.programs[p].attempts[i][s] : t = <<s, c>>
  BY <1>1
<1>3. search.programs[p].attempts[i] \in Seq(Seq(Attempt)) /\ search.stages[i] \in Stage
  BY AttemptsOf
<1>4. search.stages[i].max_schedules \in Nat
  BY <1>3 DEF Stage
<1>5. s <= Schedules(p, i)
  BY <1>1, <1>3, <1>4 DEF Schedules, Least
<1>6. Outcome(p, i, t) = search.programs[p].attempts[i][s][c]
  BY <1>2 DEF Outcome
<1>7. search.programs[p].attempts[i][s] \in Seq(Attempt)
  BY <1>3
<1>8. search.programs[p].attempts[i][s][c] \in Attempt
  BY <1>7
<1> QED
  BY <1>5, <1>6, <1>8

LEMMA ScheduleExists ==
    ASSUME search \in Search,
           NEW p \in 1 .. Len(search.programs), NEW i \in 1 .. Len(search.stages),
           NEW s \in Nat \ {0}, s <= Schedules(p, i)
    PROVE  s \in DOMAIN search.programs[p].attempts[i] /\ s <= search.stages[i].max_schedules
<1>1. search.programs[p].attempts[i] \in Seq(Seq(Attempt)) /\ search.stages[i] \in Stage
  BY AttemptsOf
<1>2. search.stages[i].max_schedules \in Nat
  BY <1>1 DEF Stage
<1> DEFINE n == Len(search.programs[p].attempts[i])
           m == search.stages[i].max_schedules
<1>3. n \in Nat
  BY <1>1
<1>4. s <= n /\ s <= m
  <2> HIDE DEF n, m
  <2>1. Schedules(p, i) = IF n <= m THEN n ELSE m
    BY DEF Schedules, Least, n, m
  <2> QED
    BY <2>1, <1>3, <1>2 DEF m
<1> QED
  BY <1>1, <1>3, <1>4

LEMMA TriedIsOwed ==
    ASSUME search \in Search,
           NEW p \in 1 .. Len(search.programs), NEW i \in 1 .. Len(search.stages),
           NEW s \in Nat \ {0}, s <= Schedules(p, i),
           NEW c \in DOMAIN search.programs[p].attempts[i][s]
    PROVE  /\ <<s, c>> \in Owed(p, i)
           /\ Outcome(p, i, <<s, c>>) = search.programs[p].attempts[i][s][c]
BY ScheduleExists DEF Owed, Permitted, Outcome

LEMMA SchedulesAreNat ==
    ASSUME search \in Search,
           NEW p \in 1 .. Len(search.programs), NEW i \in 1 .. Len(search.stages)
    PROVE  Schedules(p, i) \in Nat
<1>1. search.programs[p].attempts[i] \in Seq(Seq(Attempt)) /\ search.stages[i] \in Stage
  BY AttemptsOf
<1>2. search.stages[i].max_schedules \in Nat /\ Len(search.programs[p].attempts[i]) \in Nat
  BY <1>1 DEF Stage
<1> QED
  BY <1>2 DEF Schedules, Least

\* An attempt that failed and left nothing undecided is refuted.
LEMMA FailedIsRefuted ==
    ASSUME search \in Search, NEW stage \in Stage, stage.kind # "gap", NEW a \in Attempt,
           ~ Raises(stage, a), ~ Realizes(stage, a), ~ Undecided(stage, a)
    PROVE  Refuted(stage, a)
BY DEF Stage, Attempt, Raises, Realizes, Undecided, ReachesCore, Refuted

\* Nothing of what is said of programs and attempts changes during a search.
LEMMA SameSearch ==
    ASSUME search' = search
    PROVE  /\ \A p : Lost(p)' <=> Lost(p)
           /\ \A p : IsCandidate(p)' <=> IsCandidate(p)
           /\ \A p : EndToEnd(p)' <=> EndToEnd(p)
           /\ \A stage, a : Refuted(stage, a)' <=> Refuted(stage, a)
           /\ \A p, i : Realizable(p, i)' <=> Realizable(p, i)
           /\ \A p, i : Owed(p, i)' = Owed(p, i)
           /\ \A p, i, t : Outcome(p, i, t)' = Outcome(p, i, t)
           /\ Blind' <=> Blind
<1>1. /\ \A p, i : Owed(p, i)' = Owed(p, i)
      /\ \A p, i, t : Outcome(p, i, t)' = Outcome(p, i, t)
      /\ \A stage, a : Realizes(stage, a)' <=> Realizes(stage, a)
      /\ \A stage, a : Refuted(stage, a)' <=> Refuted(stage, a)
  BY Zenon DEF Owed, Outcome, Realizes, Refuted
<1>2. \A p : IsCandidate(p)' <=> IsCandidate(p)
  BY Zenon DEF IsCandidate
<1>3. Blind' <=> Blind
  BY Zenon DEF Blind
<1>4. \A p, i : Realizable(p, i)' <=> Realizable(p, i)
  BY <1>1, Zenon DEF Realizable
<1>5. \A p : EndToEnd(p)' <=> EndToEnd(p)
  BY <1>2, <1>4, Zenon DEF EndToEnd
<1>6. \A p : Lost(p)' <=> Lost(p)
  BY <1>2, <1>3, <1>5, Zenon DEF Lost
<1> QED
  BY <1>1, <1>2, <1>3, <1>4, <1>5, <1>6

\* Every attempt owed to a required stage of the skeleton is refuted.
RefutedThroughout ==
    \A i \in 1 .. Len(search.stages) : search.stages[i].required =>
        /\ search.stages[i].kind # "gap"
        /\ \A t \in Owed(skeleton, i) : Refuted(search.stages[i], Outcome(skeleton, i, t))

LEMMA SameSkeleton ==
    ASSUME search' = search, skeleton' = skeleton
    PROVE  /\ EndToEnd(skeleton)' <=> EndToEnd(skeleton)
           /\ RefutedThroughout' <=> RefutedThroughout
<1>1. \A i : Owed(skeleton, i)' = Owed(skeleton, i)
  BY Zenon DEF Owed
<1>2. IsCandidate(search.programs[skeleton])' <=> IsCandidate(search.programs[skeleton])
  BY Zenon DEF IsCandidate
<1>3. ASSUME NEW i
      PROVE  Realizable(skeleton, i)' <=> Realizable(skeleton, i)
  BY <1>1, Zenon DEF Realizable, Realizes, Outcome
<1>4. EndToEnd(skeleton)' <=> EndToEnd(skeleton)
  BY <1>2, <1>3, Zenon DEF EndToEnd
<1>5. ASSUME NEW i, NEW t
      PROVE  Refuted(search.stages[i], Outcome(skeleton, i, t))' <=>
             Refuted(search.stages[i], Outcome(skeleton, i, t))
  BY Zenon DEF Refuted, Outcome
<1>6. RefutedThroughout' <=> RefutedThroughout
  BY <1>1, <1>5, Zenon DEF RefutedThroughout
<1> QED
  BY <1>4, <1>6

\* Before the report nothing is claimed.
LEMMA QuietIsRight == report = NoReport => ReportIsRight
BY DEF NoReport, ReportIsRight, WitnessIsReal, ExhaustedIsComplete, UnrealizableIsRefuted,
       SkeletonIsFirst

-----------------------------------------------------------------------------
(* The initial states, and the types of every step. *)

LEMMA InitIInv == Init => IInv
<1> SUFFICES ASSUME Init
             PROVE  IInv
  OBVIOUS
<1>1. search \in Search /\ report = NoReport /\ phase = "enumerate" /\ considered = 0
  BY DEF Init
<1>2. search.max_assignments \in Nat /\ search.programs \in Seq(Program) /\ search.stages \in Seq(Stage)
  BY <1>1, SearchTypes
<1>3. Len(search.programs) \in Nat /\ Len(search.stages) \in Nat
  BY <1>2
<1>4. TypeOK
  <2>1. report.exhausted \in BOOLEAN /\ report.status = "none"
    BY <1>1 DEF NoReport
  <2>2. results \in Seq(StageStatus) /\ Len(results) = 0
    BY DEF Init
  <2>3. saw_unknown \in BOOLEAN
    BY DEF Init
  <2> QED
    BY <1>2, <1>3, <2>1, <2>2, <2>3 DEF Init, TypeOK
<1>5. SkeletonIsCandidate /\ ResultsAreJustified /\ AttemptsFailed
  BY <1>1 DEF SkeletonIsCandidate, ResultsAreJustified, AttemptsFailed, Searching
<1>6. EarlierAreLost /\ ReportIsLast
  BY <1>1 DEF EarlierAreLost, ReportIsLast, Searching
<1> QED
  BY <1>1, <1>4, <1>5, <1>6, QuietIsRight DEF IInv

\* A stage ends with one of the four statuses and one result more.
LEMMA EndsType ==
    ASSUME TypeOK, search \in Search, Current <= Len(search.stages),
           NEW status \in StageStatus, Ends(status),
           UNCHANGED <<search, counters, skeleton, loop, report>>
    PROVE  TypeOK'
<1>1. results \in Seq(StageStatus) /\ results' = Append(results, status)
  BY DEF TypeOK, Ends
<1>2. results' \in Seq(StageStatus) /\ Len(results') = Len(results) + 1
  BY <1>1
<1>3. Len(results') <= Len(search.stages)
  BY <1>2 DEF Current
<1> QED
  BY <1>2, <1>3 DEF TypeOK, Ends, counters, loop

\* The verdict of a whole search is one of four.
LEMMA OverallIsStatus ==
    OverallStatus \in {"witness", "partial", "blocked", "unrealizable"}
BY DEF OverallStatus

LEMMA NextType ==
    ASSUME search \in Search, TypeOK, AttemptsFailed, [Next]_vars
    PROVE  TypeOK'
<1>1. /\ search.max_assignments \in Nat
      /\ Len(search.programs) \in Nat /\ Len(search.stages) \in Nat
  BY SearchTypes
<1>2. CASE Skip
  BY <1>1, <1>2 DEF TypeOK, Skip, Taking, loop
<1>3. CASE PassOver
  BY <1>1, <1>3 DEF TypeOK, PassOver, Taking, CutOff, loop
<1>4. CASE Choose
  BY <1>1, <1>4 DEF TypeOK, Choose, Taking, CutOff, loop, StageStatus
<1>5. CASE NotFound
  <2>1. Exhausted \in BOOLEAN
    <3> DEFINE all == Len(search.programs) <= search.max_assignments /\ ~ CutOff
               left == examined < search.max_assignments
    <3>1. all \in BOOLEAN /\ left \in BOOLEAN
      OBVIOUS
    <3>2. Exhausted = IF search.generation = "explicit" THEN all ELSE left
      BY DEF Exhausted
    <3> QED
      BY <3>1, <3>2
  <2> QED
    BY <1>5, <2>1 DEF TypeOK, NotFound, counters, loop
<1>6. CASE Gap
  BY <1>6, EndsType DEF Gap, StageStatus
<1>7. CASE Undeclared
  BY <1>7 DEF TypeOK, Undeclared, counters, loop
<1>8. CASE BeginStage
  <2>1. saw_unknown' \in BOOLEAN /\ schedule' \in Nat \ {0} /\ configuration' \in Nat \ {0}
    <3>1. saw_unknown' = FALSE /\ schedule' = 1 /\ configuration' = 1
      BY <1>8, Zenon DEF BeginStage
    <3>2. saw_unknown' \in BOOLEAN
      BY <3>1, Zenon
    <3> QED
      BY <3>1, <3>2
  <2> QED
    BY <1>8, <2>1 DEF TypeOK, BeginStage, counters
<1>9. CASE NextSchedule
  <2>1. schedule' \in Nat \ {0} /\ configuration' \in Nat \ {0}
    BY <1>9 DEF TypeOK, NextSchedule
  <2> QED
    BY <1>9, <2>1 DEF TypeOK, NextSchedule, counters
<1>10. CASE Raise
  BY <1>10 DEF TypeOK, Raise, counters, loop
<1>11. CASE Fail
  <2>1. saw_unknown' \in BOOLEAN
    BY <1>11, Zenon DEF TypeOK, Fail
  <2>2. configuration' \in Nat \ {0}
    BY <1>11 DEF TypeOK, Fail
  <2> QED
    BY <1>11, <2>1, <2>2 DEF TypeOK, Fail, counters
<1>12. CASE Conclude
  BY <1>12, OverallIsStatus DEF TypeOK, Conclude, counters, loop
<1>13. CASE Retry
  BY <1>13 DEF TypeOK, Retry, counters, loop
<1>14. CASE UNCHANGED vars
  BY <1>14 DEF TypeOK, vars
<1>15. CASE Realize
  BY <1>15, EndsType DEF Realize, Trying, AttemptsFailed, StageStatus
<1>16. CASE GiveUp
  <2>1. (IF saw_unknown THEN "unknown" ELSE "unrealizable") \in StageStatus
    BY DEF StageStatus
  <2>2. Current <= Len(search.stages)
    BY <1>16 DEF GiveUp, AttemptsFailed
  <2> QED
    BY <1>16, <2>1, <2>2, EndsType DEF GiveUp
<1> QED
  BY <1>2, <1>3, <1>4, <1>5, <1>6, <1>7, <1>8, <1>9, <1>10, <1>11, <1>12, <1>13, <1>14,
     <1>15, <1>16 DEF Next, Terminated

-----------------------------------------------------------------------------
(* The enumeration. *)

\* What is left to show of a step that reports nothing.
Known == SkeletonIsCandidate /\ ResultsAreJustified /\ AttemptsFailed /\ EarlierAreLost

LEMMA Unreported ==
    ASSUME IInv, phase # "reported", report' = report
    PROVE  ReportIsLast' /\ ReportIsRight'
<1>1. report' = NoReport
  BY DEF IInv, ReportIsLast
<1>2. (report = NoReport)' => ReportIsRight'
  BY QuietIsRight, PTL
<1> QED
  BY <1>1, <1>2 DEF ReportIsLast, NoReport

\* A program that is no candidate joins those that are behind.
LEMMA PassedOver ==
    ASSUME IInv, phase = "enumerate", considered < Len(search.programs), ~ IsCandidate(Taken),
           considered' = considered + 1, UNCHANGED <<search, phase>>
    PROVE  Known'
<1>1. considered \in Nat
  BY SearchTypes DEF IInv, TypeOK
<1>2. \A p : Lost(p)' <=> Lost(p)
  BY SameSearch
<1>3. ASSUME NEW p \in 1 .. considered'
      PROVE  Lost(p)'
  <2>1. CASE p \in 1 .. considered
    BY <2>1, <1>2 DEF IInv, EarlierAreLost
  <2>2. CASE p = considered + 1
    BY <2>2, <1>2 DEF Lost, Taken
  <2> QED
    BY <2>1, <2>2, <1>1
<1>4. EarlierAreLost'
  BY <1>3 DEF EarlierAreLost, Searching
<1> QED
  BY <1>4 DEF Known, SkeletonIsCandidate, ResultsAreJustified, AttemptsFailed, Searching

LEMMA ChooseKeeps ==
    ASSUME IInv, Choose
    PROVE  Known'
<1>1. considered \in Nat /\ search' = search /\ phase' = "stage" /\ phase = "enumerate"
  BY SearchTypes DEF IInv, TypeOK, Choose, Taking
<1>2. considered' = considered + 1 /\ skeleton' = considered + 1 /\ results' = << >>
  BY DEF Choose, Taking
<1>3. /\ \A p : Lost(p)' <=> Lost(p)
      /\ \A p : IsCandidate(p)' <=> IsCandidate(p)
  BY <1>1, SameSearch
<1>4. IsCandidate(search.programs[skeleton])'
  <2>1. IsCandidate(search.programs[considered + 1])
    BY DEF Choose, Taken
  <2> QED
    BY <1>1, <1>2, <2>1, Zenon DEF IsCandidate
<1>5. SkeletonIsCandidate'
  BY <1>1, <1>2, <1>4 DEF SkeletonIsCandidate, Choose, Taking
<1>6. ResultsAreJustified'
  BY <1>2 DEF ResultsAreJustified
<1>7. EarlierAreLost'
  <2>1. ASSUME NEW p \in 1 .. considered' - 1
        PROVE  Lost(p)'
    BY <1>1, <1>2, <1>3 DEF IInv, EarlierAreLost
  <2> QED
    BY <1>1, <2>1 DEF EarlierAreLost
<1> QED
  BY <1>1, <1>5, <1>6, <1>7 DEF Known, AttemptsFailed

LEMMA NotFoundIsRight ==
    ASSUME IInv, NotFound
    PROVE  ReportIsRight'
<1>1. /\ search' = search /\ phase = "enumerate" /\ report'.status = "not_found"
      /\ report'.exhausted = Exhausted
  BY DEF NotFound
<1>2. \A p : Lost(p)' <=> Lost(p)
  BY <1>1, SameSearch
<1>3. ASSUME Exhausted
      PROVE  considered = Len(search.programs)
  <2>1. search.max_assignments \in Nat /\ examined \in Nat
    BY SearchTypes DEF IInv, TypeOK
  <2>2. ~ CutOff
    BY <1>3, <2>1 DEF Exhausted, CutOff
  <2> QED
    BY <2>2 DEF NotFound
<1>4. ASSUME report'.exhausted, NEW p \in 1 .. Len(search'.programs)
      PROVE  Lost(p)'
  BY <1>1, <1>2, <1>3, <1>4 DEF IInv, EarlierAreLost
<1>5. ExhaustedIsComplete'
  BY <1>4 DEF ExhaustedIsComplete, Lost
<1> QED
  BY <1>1, <1>5 DEF ReportIsRight, WitnessIsReal, UnrealizableIsRefuted, SkeletonIsFirst

-----------------------------------------------------------------------------
(* The stages. *)

\* What holds in a stage that is being attempted.
LEMMA Attempting ==
    ASSUME IInv, phase = "attempt"
    PROVE  /\ skeleton \in 1 .. Len(search.programs)
           /\ Current \in 1 .. Len(search.stages)
           /\ CurrentStage \in Stage /\ CurrentStage.kind # "gap"
           /\ search.programs[skeleton].attempts[Current] \in Seq(Seq(Attempt))
<1>1. search \in Search /\ TypeOK /\ skeleton = considered /\ skeleton # 0
  BY DEF IInv, SkeletonIsCandidate, Searching
<1>2. skeleton \in 1 .. Len(search.programs)
  BY <1>1, SearchTypes DEF TypeOK
<1>3. Current <= Len(search.stages) /\ CurrentStage.kind # "gap"
  BY DEF IInv, AttemptsFailed
<1>4. Len(results) \in Nat
  BY <1>1 DEF TypeOK
<1>5. Current \in 1 .. Len(search.stages)
  BY <1>3, <1>4, <1>1, SearchTypes DEF Current
<1> QED
  BY <1>1, <1>2, <1>3, <1>5, AttemptsOf DEF CurrentStage

\* A stage ends with a status that is justified.
LEMMA EndsJustified ==
    ASSUME IInv, Searching, Current <= Len(search.stages),
           NEW status \in StageStatus, Justified(Current, status), Ends(status),
           UNCHANGED <<search, counters, skeleton, loop, report>>
    PROVE  Known'
<1>1. search' = search /\ skeleton' = skeleton /\ considered' = considered /\ phase' = "stage"
  BY DEF Ends, counters
<1>2. /\ \A p : Lost(p)' <=> Lost(p)
      /\ \A p : IsCandidate(p)' <=> IsCandidate(p)
      /\ \A i, s : Justified(i, s)' <=> Justified(i, s)
  <2>1. /\ \A p, i : Realizable(p, i)' <=> Realizable(p, i)
        /\ \A p, i : Owed(p, i)' = Owed(p, i)
        /\ \A p, i, t : Outcome(p, i, t)' = Outcome(p, i, t)
        /\ \A stage, a : Refuted(stage, a)' <=> Refuted(stage, a)
        /\ \A p : Lost(p)' <=> Lost(p)
        /\ \A p : IsCandidate(p)' <=> IsCandidate(p)
    BY <1>1, SameSearch
  <2>2. \A i, s : Justified(i, s)' <=> Justified(i, s)
    BY <1>1, <2>1, Zenon DEF Justified
  <2> QED
    BY <2>1, <2>2
<1>3. results \in Seq(StageStatus) /\ results' = Append(results, status)
  BY DEF IInv, TypeOK, Ends
<1>4. SkeletonIsCandidate'
  <2>1. skeleton = considered /\ skeleton # 0 /\ IsCandidate(search.programs[skeleton])
    BY DEF IInv, SkeletonIsCandidate
  <2>2. IsCandidate(search.programs[skeleton])'
    BY <1>1, <2>1, Zenon DEF IsCandidate
  <2> QED
    BY <1>1, <2>1, <2>2 DEF SkeletonIsCandidate
<1>5. ResultsAreJustified'
  <2>1. ASSUME NEW i \in 1 .. Len(results')
        PROVE  Justified(i, results'[i])
    <3>1. CASE i \in 1 .. Len(results)
      <4>1. Justified(i, results[i])
        BY <3>1 DEF IInv, ResultsAreJustified
      <4>2. results'[i] = results[i]
        BY <1>3, <3>1
      <4> QED
        BY <4>1, <4>2
    <3>2. CASE i = Current
      BY <1>3, <3>2 DEF Current
    <3>3. i \in 1 .. Len(results) \/ i = Current
      BY <1>3 DEF Current
    <3> QED
      BY <3>1, <3>2, <3>3
  <2>2. \A i \in 1 .. Len(results') : Justified(i, results[i])'
    BY <1>2, <2>1
  <2> QED
    BY <2>2 DEF ResultsAreJustified
<1>6. EarlierAreLost'
  BY <1>1, <1>2 DEF IInv, EarlierAreLost, Searching
<1> QED
  BY <1>1, <1>4, <1>5, <1>6 DEF Known, AttemptsFailed

LEMMA GapKeeps ==
    ASSUME IInv, Gap
    PROVE  Known'
<1>1. Justified(Current, "blocked")
  BY DEF Justified, Realizable, Gap, CurrentStage
<1> QED
  BY <1>1, EndsJustified DEF Gap, Searching, StageStatus

LEMMA RealizeKeeps ==
    ASSUME IInv, Realize
    PROVE  Known'
<1>1. phase = "attempt" /\ search \in Search /\ schedule \in Nat \ {0} /\ configuration \in Nat \ {0}
  BY DEF Realize, Trying, IInv, TypeOK
<1> DEFINE schedules == search.programs[skeleton].attempts[Current]
<1>2. schedule \in DOMAIN schedules /\ schedule <= Schedules(skeleton, Current)
  <2>1. schedule <= Schedules(skeleton, Current)
    BY DEF Realize, Trying
  <2> QED
    BY <1>1, <2>1, Attempting, ScheduleExists
<1>3. configuration \in DOMAIN schedules[schedule]
  <2>1. schedules[schedule] \in Seq(Attempt)
    BY <1>1, <1>2, Attempting
  <2>2. configuration <= Len(schedules[schedule])
    BY DEF Realize, Trying, Configurations
  <2> QED
    BY <1>1, <2>1, <2>2
<1>4. /\ <<schedule, configuration>> \in Owed(skeleton, Current)
      /\ Outcome(skeleton, Current, <<schedule, configuration>>) = Tried
  BY <1>1, <1>2, <1>3, Attempting, TriedIsOwed DEF Tried, Configurations
<1>5. Realizable(skeleton, Current)
  <2>1. Realizes(CurrentStage, Tried) /\ CurrentStage.kind # "gap"
    BY <1>1, Attempting DEF Realize
  <2> QED
    BY <1>4, <2>1 DEF Realizable, CurrentStage
<1>6. Justified(Current, "realizable")
  BY <1>5 DEF Justified
<1> QED
  BY <1>1, <1>6, Attempting, EndsJustified DEF Realize, Searching, StageStatus

-----------------------------------------------------------------------------
(* The attempts of a stage. *)

\* A step between attempts leaves what is known of programs and stages alone.
LEMMA StayKeeps ==
    ASSUME IInv, Searching, Searching', UNCHANGED <<search, considered, skeleton, results>>
    PROVE  SkeletonIsCandidate' /\ ResultsAreJustified' /\ EarlierAreLost'
<1>1. /\ \A p, i : Realizable(p, i)' <=> Realizable(p, i)
      /\ \A p, i : Owed(p, i)' = Owed(p, i)
      /\ \A p, i, t : Outcome(p, i, t)' = Outcome(p, i, t)
      /\ \A stage, a : Refuted(stage, a)' <=> Refuted(stage, a)
      /\ \A p : Lost(p)' <=> Lost(p)
  BY SameSearch
<1>2. \A i, s : Justified(i, s)' <=> Justified(i, s)
  BY <1>1, Zenon DEF Justified
<1>3. SkeletonIsCandidate'
  <2>1. skeleton = considered /\ skeleton # 0 /\ IsCandidate(search.programs[skeleton])
    BY DEF IInv, SkeletonIsCandidate
  <2>2. IsCandidate(search.programs[skeleton])'
    BY <2>1, Zenon DEF IsCandidate
  <2> QED
    BY <2>1, <2>2 DEF SkeletonIsCandidate
<1>4. ResultsAreJustified'
  <2>1. \A i \in 1 .. Len(results) : Justified(i, results[i])
    BY DEF IInv, ResultsAreJustified
  <2>2. \A i \in 1 .. Len(results') : Justified(i, results[i])'
    BY <1>2, <2>1
  <2> QED
    BY <2>2 DEF ResultsAreJustified
<1>5. EarlierAreLost'
  BY <1>1 DEF IInv, EarlierAreLost, Searching
<1> QED
  BY <1>3, <1>4, <1>5

LEMMA BeginStageKeeps ==
    ASSUME IInv, BeginStage
    PROVE  Known'
<1>1. Searching /\ Searching' /\ UNCHANGED <<search, considered, skeleton, results>>
  BY DEF BeginStage, Searching, counters
<1>2. AttemptsFailed'
  <2>1. Current' = Current /\ CurrentStage' = CurrentStage
    BY <1>1 DEF Current, CurrentStage
  <2>2. Current' <= Len(search'.stages) /\ CurrentStage'.kind # "gap"
    BY <1>1, <2>1 DEF BeginStage
  <2>3. schedule' = 1 /\ configuration' = 1
    BY DEF BeginStage
  <2>4. /\ skeleton \in 1 .. Len(search.programs)
        /\ Current \in 1 .. Len(search.stages)
    <3>1. search \in Search /\ TypeOK /\ skeleton = considered /\ skeleton # 0
      BY <1>1 DEF IInv, SkeletonIsCandidate
    <3>2. Len(results) \in Nat
      BY <3>1 DEF TypeOK
    <3> QED
      BY <3>1, <3>2, SearchTypes DEF TypeOK, BeginStage, Current
  <2>5. search.programs[skeleton].attempts[Current] \in Seq(Seq(Attempt))
    BY <2>4, AttemptsOf DEF IInv
  <2>6. ASSUME NEW s \in DOMAIN search.programs[skeleton].attempts[Current],
               NEW c \in DOMAIN search.programs[skeleton].attempts[Current][s]
        PROVE  ~ Attempted(s, c)'
    <3>1. s \in Nat \ {0} /\ c \in Nat \ {0}
      BY <2>5, <2>6, Places
    <3> QED
      BY <2>3, <3>1 DEF Attempted
  <2>7. \A s \in DOMAIN search'.programs[skeleton'].attempts[Current'] :
            \A c \in DOMAIN search'.programs[skeleton'].attempts[Current'][s] : ~ Attempted(s, c)'
    BY <1>1, <2>1, <2>6
  <2> QED
    BY <2>2, <2>7 DEF AttemptsFailed
<1> QED
  BY <1>1, <1>2, StayKeeps DEF Known

\* What the loops know of the attempts after a step within them.
LEMMA LoopKeeps ==
    ASSUME IInv, phase = "attempt", phase' = "attempt",
           UNCHANGED <<search, considered, skeleton, results>>,
           saw_unknown => saw_unknown',
           \A s \in DOMAIN search.programs[skeleton].attempts[Current] :
             \A c \in DOMAIN search.programs[skeleton].attempts[Current][s] :
                Attempted(s, c)' =>
                    \/ Attempted(s, c)
                    \/ Failed(CurrentStage, search.programs[skeleton].attempts[Current][s][c])'
    PROVE  Known'
<1>1. Searching /\ Searching'
  BY DEF Searching
<1>2. Current' = Current /\ CurrentStage' = CurrentStage
  BY DEF Current, CurrentStage
<1>4. ASSUME NEW s \in DOMAIN search.programs[skeleton].attempts[Current],
             NEW c \in DOMAIN search.programs[skeleton].attempts[Current][s], Attempted(s, c)'
      PROVE  Failed(CurrentStage, search.programs[skeleton].attempts[Current][s][c])'
  <2>1. CASE Attempted(s, c)
    <3>1. Failed(CurrentStage, search.programs[skeleton].attempts[Current][s][c])
      BY <2>1 DEF IInv, AttemptsFailed
    <3> QED
      BY <3>1, <1>2, Zenon DEF Failed, Raises, Realizes, Undecided, ReachesCore
  <2> QED
    BY <1>4, <2>1
<1>5. AttemptsFailed'
  BY <1>2, <1>4 DEF IInv, AttemptsFailed
<1> QED
  BY <1>1, <1>5, StayKeeps DEF Known

LEMMA NextScheduleKeeps ==
    ASSUME IInv, NextSchedule
    PROVE  Known'
<1> DEFINE schedules == search.programs[skeleton].attempts[Current]
<1>1. /\ phase = "attempt" /\ phase' = "attempt" /\ saw_unknown' = saw_unknown
      /\ UNCHANGED <<search, considered, skeleton, results>>
      /\ schedule' = schedule + 1 /\ configuration' = 1
      /\ configuration > Len(schedules[schedule])
  BY DEF NextSchedule, Configurations, counters
<1>2. schedule \in Nat \ {0} /\ configuration \in Nat \ {0}
  BY DEF IInv, TypeOK
<1>3. ASSUME NEW s \in DOMAIN schedules, NEW c \in DOMAIN schedules[s], Attempted(s, c)'
      PROVE  Attempted(s, c)
  <2>1. schedules \in Seq(Seq(Attempt))
    BY <1>1, Attempting
  <2> HIDE DEF schedules
  <2>2. s \in Nat /\ c \in Nat /\ Len(schedules[s]) \in Nat /\ c <= Len(schedules[s])
    BY <2>1, <1>3, Places
  <2>3. s < schedule + 1 \/ (s = schedule + 1 /\ c < 1)
    BY <1>1, <1>3, Zenon DEF Attempted
  <2>4. c # 0
    BY <2>1, <1>3, Places
  <2>5. s < schedule + 1
    BY <2>2, <2>3, <2>4
  <2>6. s = schedule => c < configuration
    BY <1>1, <1>2, <2>2
  <2>7. s < schedule \/ (s = schedule /\ c < configuration)
    BY <2>2, <2>5, <2>6, <1>2
  <2> QED
    BY <2>7, Zenon DEF Attempted
<1> QED
  BY <1>1, <1>3, LoopKeeps

LEMMA FailKeeps ==
    ASSUME IInv, Fail
    PROVE  Known'
<1> DEFINE schedules == search.programs[skeleton].attempts[Current]
<1>1. /\ phase = "attempt" /\ phase' = "attempt"
      /\ UNCHANGED <<search, considered, skeleton, results>>
      /\ schedule' = schedule /\ configuration' = configuration + 1
      /\ Tried = schedules[schedule][configuration]
  BY DEF Fail, Trying, Tried, Configurations, counters
<1>2. saw_unknown' = (saw_unknown \/ Undecided(CurrentStage, Tried))
  BY DEF Fail
<1>3. schedule \in Nat \ {0} /\ configuration \in Nat \ {0}
  BY DEF IInv, TypeOK
<1>4. CurrentStage' = CurrentStage
  BY <1>1 DEF CurrentStage, Current
<1>5. ASSUME NEW s \in DOMAIN schedules, NEW c \in DOMAIN schedules[s], Attempted(s, c)',
             ~ Attempted(s, c)
      PROVE  Failed(CurrentStage, search.programs[skeleton].attempts[Current][s][c])'
  <2>1. schedules \in Seq(Seq(Attempt))
    BY <1>1, Attempting
  <2>3. s \in Nat /\ c \in Nat
    BY <2>1, <1>5, Places
  <2>4. s = schedule /\ c = configuration
    <3>1. s < schedule \/ (s = schedule /\ c < configuration + 1)
      BY <1>1, <1>5 DEF Attempted
    <3>2. ~ (s < schedule) /\ ~ (s = schedule /\ c < configuration)
      BY <1>5, Zenon DEF Attempted
    <3> HIDE DEF schedules
    <3> QED
      BY <1>3, <2>3, <3>1, <3>2
  <2>5. ~ Raises(CurrentStage, schedules[s][c]) /\ ~ Realizes(CurrentStage, schedules[s][c])
    BY <1>1, <2>4 DEF Fail
  <2>6. Undecided(CurrentStage, schedules[s][c]) => saw_unknown'
    BY <1>1, <1>2, <2>4
  <2>7. Current' = Current
    BY <1>1 DEF Current
  <2> QED
    BY <1>1, <1>4, <2>5, <2>6, <2>7, Zenon
       DEF Failed, Raises, Realizes, Undecided, ReachesCore
<1> QED
  BY <1>1, <1>2, <1>5, LoopKeeps

LEMMA GiveUpKeeps ==
    ASSUME IInv, GiveUp
    PROVE  Known'
<1>1. phase = "attempt" /\ search \in Search /\ schedule > Schedules(skeleton, Current)
  BY DEF GiveUp, IInv
<1>2. ASSUME NEW t \in Owed(skeleton, Current)
      PROVE  /\ Failed(CurrentStage, Outcome(skeleton, Current, t))
             /\ Outcome(skeleton, Current, t) \in Attempt
  <2>1. PICK s \in DOMAIN search.programs[skeleton].attempts[Current] :
          \E c \in DOMAIN search.programs[skeleton].attempts[Current][s] :
            /\ s <= Schedules(skeleton, Current)
            /\ Outcome(skeleton, Current, t) = search.programs[skeleton].attempts[Current][s][c]
            /\ Outcome(skeleton, Current, t) \in Attempt
    BY <1>1, Attempting, OwedAttempt
  <2>2. s < schedule
    <3>1. search.programs[skeleton].attempts[Current] \in Seq(Seq(Attempt))
      BY <1>1, Attempting
    <3>2. s \in Nat
      BY <3>1
    <3>3. schedule \in Nat
      BY DEF IInv, TypeOK
    <3>4. Schedules(skeleton, Current) \in Nat
      BY <1>1, Attempting, SchedulesAreNat
    <3> QED
      BY <1>1, <2>1, <3>2, <3>3, <3>4
  <2>3. PICK c \in DOMAIN search.programs[skeleton].attempts[Current][s] :
            /\ Outcome(skeleton, Current, t) = search.programs[skeleton].attempts[Current][s][c]
            /\ Outcome(skeleton, Current, t) \in Attempt
    BY <2>1
  <2>4. Attempted(s, c)
    BY <2>2, Zenon DEF Attempted
  <2>5. Failed(CurrentStage, search.programs[skeleton].attempts[Current][s][c])
    BY <1>1, <2>4 DEF IInv, AttemptsFailed
  <2> QED
    BY <2>3, <2>5
<1>3. ~ Realizable(skeleton, Current)
  BY <1>2 DEF Realizable, Failed, CurrentStage
<1>4. ASSUME ~ saw_unknown, NEW t \in Owed(skeleton, Current)
      PROVE  Refuted(CurrentStage, Outcome(skeleton, Current, t))
  BY <1>1, <1>2, <1>4, Attempting, FailedIsRefuted DEF Failed
<1> DEFINE status == IF saw_unknown THEN "unknown" ELSE "unrealizable"
<1>5. status \in StageStatus
  BY DEF StageStatus
<1>6. Justified(Current, status)
  BY <1>1, <1>3, <1>4, Attempting DEF Justified, CurrentStage
<1>7. Searching /\ Current <= Len(search.stages)
  BY <1>1 DEF Searching, IInv, AttemptsFailed
<1>8. Ends(status) /\ UNCHANGED <<search, counters, skeleton, loop, report>>
  BY DEF GiveUp
<1> QED
  BY <1>5, <1>6, <1>7, <1>8, EndsJustified

-----------------------------------------------------------------------------
(* The verdict of a skeleton. *)

\* What the results of all the stages say of the skeleton.
LEMMA ConcludingKnows ==
    ASSUME IInv, Concluding
    PROVE  /\ search \in Search /\ skeleton = considered /\ skeleton # 0
           /\ IsCandidate(search.programs[skeleton])
           /\ \A i \in 1 .. Len(search.stages) : Justified(i, results[i])
           /\ \A i \in 1 .. Len(search.stages) : results[i] \in StageStatus
           /\ \A p \in 1 .. skeleton - 1 : Lost(p)
<1>1. phase = "stage" /\ Len(results) = Len(search.stages) /\ Searching
  BY DEF Concluding, Searching
<1>2. results \in Seq(StageStatus)
  BY DEF IInv, TypeOK
<1>3. \A i \in 1 .. Len(search.stages) : results[i] \in StageStatus
  BY <1>1, <1>2
<1> QED
  BY <1>1, <1>3 DEF IInv, SkeletonIsCandidate, ResultsAreJustified, EarlierAreLost

\* The overall status is a witness exactly when the skeleton is realized end to end.
LEMMA WitnessIffEndToEnd ==
    ASSUME IInv, Concluding
    PROVE  OverallStatus = "witness" <=> EndToEnd(skeleton)
<1>1. Len(results) = Len(search.stages)
  BY DEF Concluding
<1>2. \A i \in 1 .. Len(search.stages) : results[i] = "realizable" <=> Realizable(skeleton, i)
  BY ConcludingKnows DEF Justified
<1> DEFINE required == \A i \in 1 .. Len(results) :
                          search.stages[i].required => results[i] = "realizable"
<1>3. required <=> EndToEnd(skeleton)
  BY <1>1, <1>2, ConcludingKnows DEF EndToEnd
<1>4. OverallStatus = "witness" <=> required
  BY DEF OverallStatus
<1> QED
  BY <1>3, <1>4

\* UNREALIZABLE leaves no other status for a required stage.
LEMMA UnrealizableThroughout ==
    ASSUME IInv, Concluding, OverallStatus = "unrealizable",
           NEW i \in 1 .. Len(search.stages), search.stages[i].required
    PROVE  results[i] = "unrealizable"
<1>1. Len(results) = Len(search.stages) /\ results[i] \in StageStatus
  BY ConcludingKnows DEF Concluding
<1>2. results[i] # "realizable"
  BY <1>1 DEF OverallStatus
<1>3. ~ Required("blocked") /\ ~ Required("unknown")
  BY DEF OverallStatus
<1>4. results[i] # "blocked" /\ results[i] # "unknown"
  BY <1>1, <1>3 DEF Required
<1> QED
  BY <1>1, <1>2, <1>4 DEF StageStatus

LEMMA ConcludeIsRight ==
    ASSUME IInv, Conclude
    PROVE  ReportIsRight'
<1>1. /\ Concluding /\ search' = search /\ skeleton' = skeleton
      /\ report'.status = OverallStatus /\ report'.exhausted = FALSE
  BY DEF Conclude
<1>2. /\ \A p : Lost(p)' <=> Lost(p)
      /\ \A p : EndToEnd(p)' <=> EndToEnd(p)
      /\ \A p, i : Owed(p, i)' = Owed(p, i)
      /\ \A p, i, t : Outcome(p, i, t)' = Outcome(p, i, t)
      /\ \A stage, a : Refuted(stage, a)' <=> Refuted(stage, a)
  BY <1>1, SameSearch
<1>3. WitnessIsReal'
  <2>1. OverallStatus = "witness" => EndToEnd(skeleton)
    BY <1>1, WitnessIffEndToEnd
  <2>2. EndToEnd(skeleton)' <=> EndToEnd(skeleton)
    BY <1>1, SameSkeleton
  <2>3. skeleton # 0
    BY <1>1, ConcludingKnows
  <2> QED
    BY <1>1, <2>1, <2>2, <2>3 DEF WitnessIsReal
<1>4. ExhaustedIsComplete'
  BY <1>1 DEF ExhaustedIsComplete
<1>5. UnrealizableIsRefuted'
  <2>1. ASSUME OverallStatus = "unrealizable",
               NEW i \in 1 .. Len(search.stages), search.stages[i].required
        PROVE  /\ search.stages[i].kind # "gap"
               /\ \A t \in Owed(skeleton, i) : Refuted(search.stages[i], Outcome(skeleton, i, t))
    <3>1. results[i] = "unrealizable"
      BY <1>1, <2>1, UnrealizableThroughout
    <3>2. Justified(i, results[i])
      BY <1>1, ConcludingKnows
    <3> QED
      BY <3>1, <3>2 DEF Justified
  <2>2. OverallStatus = "unrealizable" => RefutedThroughout'
    BY <1>1, <2>1, SameSkeleton DEF RefutedThroughout
  <2> QED
    BY <1>1, <2>2 DEF UnrealizableIsRefuted, RefutedThroughout
<1>6. SkeletonIsFirst'
  <2>1. \A p \in 1 .. skeleton - 1 : Lost(p)'
    BY <1>1, <1>2, ConcludingKnows
  <2> QED
    BY <1>1, <2>1 DEF SkeletonIsFirst, Lost
<1> QED
  BY <1>3, <1>4, <1>5, <1>6 DEF ReportIsRight

LEMMA RetryKeeps ==
    ASSUME IInv, Retry
    PROVE  Known'
<1>1. /\ Concluding /\ search' = search /\ considered' = considered
      /\ phase' = "enumerate" /\ Blind /\ OverallStatus # "witness"
  BY DEF Retry, counters
<1>2. Lost(skeleton) /\ skeleton = considered
  BY <1>1, WitnessIffEndToEnd, ConcludingKnows DEF Lost
<1>3. considered \in Nat
  BY SearchTypes DEF IInv, TypeOK
<1>4. \A p \in 1 .. considered : Lost(p)
  BY <1>1, <1>2, <1>3, ConcludingKnows
<1>5. \A p : Lost(p)' <=> Lost(p)
  BY <1>1, SameSearch
<1>6. EarlierAreLost'
  BY <1>1, <1>4, <1>5 DEF EarlierAreLost, Searching
<1> QED
  BY <1>1, <1>6 DEF Known, SkeletonIsCandidate, ResultsAreJustified, AttemptsFailed, Searching

-----------------------------------------------------------------------------
(* The invariant, and what it says of every report. *)

\* A step that ends the search claims nothing of a stage that is under way.
LEMMA Ended ==
    ASSUME phase' \in {"reported", "raised"}
    PROVE  Known'
BY DEF Known, SkeletonIsCandidate, ResultsAreJustified, AttemptsFailed, EarlierAreLost, Searching

LEMMA StutterKeeps ==
    ASSUME IInv, UNCHANGED vars
    PROVE  Known' /\ ReportIsLast' /\ ReportIsRight'
<1>1. /\ search' = search /\ considered' = considered /\ skeleton' = skeleton
      /\ results' = results /\ phase' = phase /\ report' = report
      /\ schedule' = schedule /\ configuration' = configuration /\ saw_unknown' = saw_unknown
  BY DEF vars
<1>2. Known'
  <2>1. CASE phase = "enumerate"
    <3>1. \A p : Lost(p)' <=> Lost(p)
      BY <1>1, SameSearch
    <3>2. EarlierAreLost'
      BY <1>1, <2>1, <3>1 DEF IInv, EarlierAreLost, Searching
    <3> QED
      BY <1>1, <2>1, <3>2
         DEF Known, SkeletonIsCandidate, ResultsAreJustified, AttemptsFailed, Searching
  <2>2. CASE phase = "stage"
    <3>1. Searching /\ Searching'
      BY <1>1, <2>2 DEF Searching
    <3>2. AttemptsFailed'
      BY <1>1, <2>2 DEF AttemptsFailed
    <3> QED
      BY <1>1, <3>1, <3>2, StayKeeps DEF Known
  <2>3. CASE phase = "attempt"
    <3>1. \A s, c : Attempted(s, c)' <=> Attempted(s, c)
      BY <1>1, Zenon DEF Attempted
    <3> QED
      BY <1>1, <2>3, <3>1, LoopKeeps
  <2>4. CASE phase \in {"reported", "raised"}
    BY <1>1, <2>4, Ended
  <2> QED
    BY <2>1, <2>2, <2>3, <2>4 DEF IInv, TypeOK
<1>3. ReportIsLast'
  BY <1>1 DEF IInv, ReportIsLast, NoReport
<1>4. ReportIsRight'
  <2>1. \A p : Lost(p)' <=> Lost(p)
    BY <1>1, SameSearch
  <2>2. /\ EndToEnd(skeleton)' <=> EndToEnd(skeleton)
        /\ RefutedThroughout' <=> RefutedThroughout
    BY <1>1, SameSkeleton
  <2>3. WitnessIsReal'
    BY <1>1, <2>2 DEF IInv, ReportIsRight, WitnessIsReal
  <2>4. ExhaustedIsComplete'
    <3>1. report.exhausted => \A p \in 1 .. Len(search.programs) : Lost(p)
      BY DEF IInv, ReportIsRight, ExhaustedIsComplete, Lost
    <3>2. report'.exhausted => \A p \in 1 .. Len(search'.programs) : Lost(p)'
      BY <1>1, <2>1, <3>1
    <3> QED
      BY <3>2 DEF ExhaustedIsComplete, Lost
  <2>5. UnrealizableIsRefuted'
    BY <1>1, <2>2 DEF IInv, ReportIsRight, UnrealizableIsRefuted, RefutedThroughout
  <2>6. SkeletonIsFirst'
    <3>1. report.status \notin {"none", "not_found"} => \A p \in 1 .. skeleton - 1 : Lost(p)
      BY DEF IInv, ReportIsRight, SkeletonIsFirst, Lost
    <3>2. report'.status \notin {"none", "not_found"} => \A p \in 1 .. skeleton' - 1 : Lost(p)'
      BY <1>1, <2>1, <3>1
    <3> QED
      BY <3>2 DEF SkeletonIsFirst, Lost
  <2> QED
    BY <2>3, <2>4, <2>5, <2>6 DEF ReportIsRight
<1> QED
  BY <1>2, <1>3, <1>4

LEMMA Inductive == IInv /\ [Next]_vars => IInv'
<1> SUFFICES ASSUME IInv, [Next]_vars
             PROVE  IInv'
  OBVIOUS
<1>1. search' = search
  BY DEF Next, vars, Skip, PassOver, Choose, NotFound, Gap, Undeclared, BeginStage, NextSchedule,
         Raise, Realize, Fail, GiveUp, Conclude, Retry, Terminated
<1>2. search' \in Search
  BY <1>1 DEF IInv
<1>3. TypeOK'
  BY NextType DEF IInv
<1>4. Known' /\ ReportIsLast' /\ ReportIsRight'
  <2>1. CASE Skip
    <3>1. ~ IsCandidate(Taken)
      BY <2>1 DEF Skip, IsCandidate
    <3> QED
      BY <2>1, <3>1, PassedOver, Unreported DEF Skip, Taking
  <2>2. CASE PassOver
    BY <2>2, PassedOver, Unreported DEF PassOver, Taking
  <2>3. CASE Choose
    BY <2>3, ChooseKeeps, Unreported DEF Choose, Taking
  <2>4. CASE NotFound
    BY <2>4, NotFoundIsRight, Ended DEF NotFound, ReportIsLast
  <2>5. CASE Gap
    BY <2>5, GapKeeps, Unreported DEF Gap
  <2>6. CASE Undeclared
    BY <2>6, Ended, Unreported DEF Undeclared
  <2>7. CASE BeginStage
    BY <2>7, BeginStageKeeps, Unreported DEF BeginStage
  <2>8. CASE NextSchedule
    BY <2>8, NextScheduleKeeps, Unreported DEF NextSchedule
  <2>9. CASE Raise
    BY <2>9, Ended, Unreported DEF Raise, Trying
  <2>10. CASE Realize
    BY <2>10, RealizeKeeps, Unreported DEF Realize, Trying
  <2>11. CASE Fail
    BY <2>11, FailKeeps, Unreported DEF Fail, Trying
  <2>12. CASE GiveUp
    BY <2>12, GiveUpKeeps, Unreported DEF GiveUp
  <2>13. CASE Conclude
    BY <2>13, ConcludeIsRight, Ended DEF Conclude, ReportIsLast
  <2>14. CASE Retry
    BY <2>14, RetryKeeps, Unreported DEF Retry, Concluding
  <2>15. CASE UNCHANGED vars
    BY <2>15, StutterKeeps
  <2> QED
    BY <2>1, <2>2, <2>3, <2>4, <2>5, <2>6, <2>7, <2>8, <2>9, <2>10, <2>11, <2>12, <2>13, <2>14,
       <2>15 DEF Next, Terminated
<1> QED
  BY <1>2, <1>3, <1>4 DEF IInv, Known

LEMMA Invariant == Spec => []IInv
BY InitIInv, Inductive, PTL DEF Spec

\* Whatever programs, stages and outcomes it meets, the search keeps its counters within
\* the enumeration and its budget and one status per stage at most.
THEOREM TypeCorrect == Spec => []TypeOK
<1>1. IInv => TypeOK
  BY DEF IInv
<1> QED
  BY <1>1, Invariant, PTL

\* WITNESS: the reported skeleton has the target verdict and every required stage of it
\* has an attempt, among those the schedules permit, that realizes it.
THEOREM WitnessIsEndToEnd == Spec => []WitnessIsReal
<1>1. IInv => WitnessIsReal
  BY DEF IInv, ReportIsRight
<1> QED
  BY <1>1, Invariant, PTL

\* NOT_FOUND in an exhausted space: no program of the enumeration could have been a
\* witness, however many there are and wherever the budget ends.
THEOREM ExhaustionIsProof == Spec => []ExhaustedIsComplete
<1>1. IInv => ExhaustedIsComplete
  BY DEF IInv, ReportIsRight
<1> QED
  BY <1>1, Invariant, PTL

\* UNREALIZABLE: every attempt owed to every required stage was refuted.
THEOREM RefutationIsComplete == Spec => []UnrealizableIsRefuted
<1>1. IInv => UnrealizableIsRefuted
  BY DEF IInv, ReportIsRight
<1> QED
  BY <1>1, Invariant, PTL

\* Determinism: the skeleton of a verdict is the first candidate, in a blind search the
\* first that could be realized.
THEOREM FirstCandidateWins == Spec => []SkeletonIsFirst
<1>1. IInv => SkeletonIsFirst
  BY DEF IInv, ReportIsRight
<1> QED
  BY <1>1, Invariant, PTL
=============================================================================
