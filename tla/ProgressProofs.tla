---------------------------- MODULE ProgressProofs ----------------------------
(***************************************************************************)
(* Proofs about Progress, for any number of transfers, workers and         *)
(* threads, and files of any size: the registry stays bounded, the bar of  *)
(* a running transfer is never pruned, a bar goes forward and one that     *)
(* says "done" is full.                                                    *)
(***************************************************************************)
EXTENDS Progress, FiniteSetTheorems, TLAPS

\* A transfer has a running bar exactly while a thread works on it.
BarsAreReal ==
  \A t \in Transfers : (ops[t] # None /\ ops[t].status = "running") <=> t \in Running

\* Workers report only while their transfer runs; a new one has no bar yet.
WorkersAreReal ==
  \A t \in Transfers :
    /\ transfer[t].phase # "runs" => Quiet(t)
    /\ transfer[t].phase = "new" => ops[t] = None /\ transfer[t].sent = 0
    /\ transfer[t].phase = "sent" => transfer[t].sent = Size

\* A sequential transfer has one count on its way at most, the latest.
OneCount ==
  \A t \in Transfers \ Parallel : \A w \in Workers :
    transfer[t].held[w] # None =>
      /\ transfer[t].held[w] = transfer[t].sent
      /\ \A other \in Workers \ {w} : transfer[t].held[other] = None

\* Its bar shows what was reported, which is all that was sent when none is on its way.
BarsFollow ==
  \A t \in Running \ Parallel :
    /\ ops[t].done <= transfer[t].sent
    /\ Quiet(t) => ops[t].done = transfer[t].sent

\* The first report of a transfer tells its length.
LengthTold ==
  \A t \in Running \ Lengthless : transfer[t].sent > 0 /\ Quiet(t) => ops[t].total = Size

ProgressIInv ==
  /\ ProgressTypeOK /\ BarsAreReal /\ WorkersAreReal
  /\ OneCount /\ BarsFollow /\ LengthTold
  /\ DoneIsFull
  /\ IsFiniteSet(Known) /\ RegistryBounded

-----------------------------------------------------------------------------
(* The registry *)

\* None is no bar.
LEMMA BarIsNotNone == ASSUME NEW bar \in Bars PROVE bar # None
BY ProgressConstants DEF ProgressConstants

\* Pruning, forced or not, takes bars away, never one that runs.
LEMMA PrunedSparesRunning ==
  ASSUME ProgressTypeOK, NEW force \in BOOLEAN
  PROVE  /\ Pruned(force) \in [Transfers -> Bars \cup {None}]
         /\ \A t \in Transfers :
              /\ Pruned(force)[t] \in {ops[t], None}
              /\ ops[t] # None /\ ops[t].status = "running" => Pruned(force)[t] = ops[t]
              /\ force /\ ops[t] # None /\ ops[t].status # "running" => Pruned(force)[t] = None
<1>1. ops \in [Transfers -> Bars \cup {None}]
  BY DEF ProgressTypeOK
<1>2. \A t \in Transfers : ops[t] # None => (ops[t].status = "running" <=> ops[t].age = "none")
  BY DEF ProgressTypeOK
<1>3. QED
  BY <1>1, <1>2 DEF Pruned, Known

\* A bar of the registry after an update: the count and the length, while it runs.
LEMMA UpdatedBar ==
  ASSUME ProgressTypeOK, NEW t \in Transfers, NEW done \in 0 .. Size
  PROVE  /\ Updated(t, done) \in [Transfers -> Bars \cup {None}]
         /\ \A x \in Transfers \ {t} : Updated(t, done)[x] = ops[x]
         /\ ~ (ops[t] # None /\ ops[t].status = "running") => Updated(t, done)[t] = ops[t]
         /\ ops[t] # None /\ ops[t].status = "running" =>
              /\ Updated(t, done)[t] # None
              /\ Updated(t, done)[t].done = done
              /\ Updated(t, done)[t].total = IF t \in Lengthless THEN 0 ELSE Size
              /\ Updated(t, done)[t].status = "running"
              /\ Updated(t, done)[t].age = ops[t].age
<1>1. ops \in [Transfers -> Bars \cup {None}]
  BY DEF ProgressTypeOK
<1>2. CASE ops[t] # None /\ ops[t].status = "running"
  <2> DEFINE bar == [ops[t] EXCEPT !.done = done, !.total = IF t \in Lengthless THEN 0 ELSE Size]
  <2>1. ops[t] \in Bars
    BY <1>1, <1>2
  <2>2. /\ bar \in Bars /\ bar.done = done /\ bar.total = IF t \in Lengthless THEN 0 ELSE Size
        /\ bar.status = "running" /\ bar.age = ops[t].age
    BY <2>1, <1>2 DEF Bars
  <2>3. Updated(t, done) = [ops EXCEPT ![t] = bar]
    BY <1>2 DEF Updated, Known
  <2> HIDE DEF bar
  <2>4. QED
    BY <1>1, <1>2, <2>2, <2>3, BarIsNotNone
<1>3. CASE ~ (ops[t] # None /\ ops[t].status = "running")
  BY <1>1, <1>3 DEF Updated, Known
<1>4. QED
  BY <1>2, <1>3

\* A bar of the registry after its transfer ended.
LEMMA FinishedBar ==
  ASSUME ProgressTypeOK, NEW t \in Transfers, ops[t] # None, NEW status \in {"done", "error"}
  PROVE  /\ Finished(t, status) \in [Transfers -> Bars \cup {None}]
         /\ \A x \in Transfers \ {t} : Finished(t, status)[x] = ops[x]
         /\ Finished(t, status)[t] # None
         /\ Finished(t, status)[t].status = status
         /\ Finished(t, status)[t].age = "fresh"
         /\ Finished(t, status)[t].done =
              IF status = "done" /\ ops[t].total # 0 THEN ops[t].total ELSE ops[t].done
<1> DEFINE bar == [ops[t] EXCEPT !.status = status, !.age = "fresh",
                     !.done = IF status = "done" /\ ops[t].total # 0 THEN ops[t].total ELSE ops[t].done]
<1>1. ops \in [Transfers -> Bars \cup {None}] /\ ops[t] \in Bars
  BY DEF ProgressTypeOK
<1>2. Size \in Nat
  BY ProgressConstants DEF ProgressConstants
<1>3. /\ bar \in Bars /\ bar.status = status /\ bar.age = "fresh"
      /\ bar.done = IF status = "done" /\ ops[t].total # 0 THEN ops[t].total ELSE ops[t].done
  <2> DEFINE full == IF status = "done" /\ ops[t].total # 0 THEN ops[t].total ELSE ops[t].done
  <2>1. full \in 0 .. Size
    BY <1>1, <1>2 DEF Bars
  <2>2. bar = [ops[t] EXCEPT !.status = status, !.age = "fresh", !.done = full]
    OBVIOUS
  <2> HIDE DEF full, bar
  <2>3. bar \in Bars /\ bar.status = status /\ bar.age = "fresh" /\ bar.done = full
    BY <1>1, <2>1, <2>2 DEF Bars
  <2>4. QED
    BY <2>3 DEF full
<1>4. Finished(t, status) = [ops EXCEPT ![t] = bar]
  BY DEF Finished, Known
<1> HIDE DEF bar
<1>5. QED
  BY <1>1, <1>3, <1>4, BarIsNotNone

-----------------------------------------------------------------------------
(* Each step preserves the invariant *)

\* A new bar takes a free place: before it only running ones may be left, and there
\* are fewer of those than threads.
LEMMA BeginKeeps == ASSUME ProgressIInv, NEW t \in Transfers, Begin(t) PROVE ProgressIInv'
<1> USE ProgressConstants DEF ProgressConstants
<1> DEFINE bar == [done |-> 0, total |-> 0, status |-> "running", age |-> "none"]
           kept == IF Cardinality(Known) >= MaxOps THEN Pruned(TRUE) ELSE ops
<1>1. /\ ops \in [Transfers -> Bars \cup {None}] /\ transfer[t].phase = "new" /\ ops[t] = None
      /\ \A x \in Transfers : ops[x] # None => (ops[x].status = "running" <=> ops[x].age = "none")
  BY DEF ProgressIInv, ProgressTypeOK, WorkersAreReal, Begin
<1>2. /\ transfer[t].sent = 0
      /\ transfer \in [Transfers -> [phase : Phases, sent : 0 .. Size, held : [Workers -> 0 .. Size \cup {None}]]]
      /\ transfer' = [transfer EXCEPT ![t].phase = "runs"]
  BY <1>1 DEF ProgressIInv, ProgressTypeOK, WorkersAreReal, Begin
<1>3. bar \in Bars /\ bar # None /\ bar.done = 0
  <2>1. bar \in Bars /\ bar.done = 0
    BY DEF Bars
  <2>2. QED
    BY <2>1, BarIsNotNone
<1>4. /\ kept \in [Transfers -> Bars \cup {None}]
      /\ \A x \in Transfers : /\ kept[x] \in {ops[x], None}
                              /\ x \in Running => kept[x] = ops[x]
  <2>1. \A x \in Running : x \in Transfers /\ ops[x] # None /\ ops[x].status = "running"
    BY DEF ProgressIInv, BarsAreReal, Running
  <2>2. QED
    BY <1>1, <2>1, PrunedSparesRunning DEF ProgressIInv
<1>5. /\ ops' = [kept EXCEPT ![t] = bar] /\ ops'[t] = bar
      /\ \A x \in Transfers \ {t} : ops'[x] = kept[x]
  BY <1>4 DEF Begin, Started
<1>6. /\ transfer'[t].phase = "runs" /\ transfer'[t].sent = transfer[t].sent
      /\ transfer'[t].held = transfer[t].held
      /\ \A x \in Transfers \ {t} : transfer'[x] = transfer[x]
  BY <1>2
<1>7. Running' = Running \cup {t}
  BY <1>2, <1>6 DEF Running
<1> HIDE DEF bar
<1>8. ProgressTypeOK'
  <2>1. ops' \in [Transfers -> Bars \cup {None}]
    BY <1>3, <1>4, <1>5
  <2>2. transfer' \in [Transfers -> [phase : Phases, sent : 0 .. Size, held : [Workers -> 0 .. Size \cup {None}]]]
    BY <1>2 DEF Phases
  <2>3. \A x \in Transfers : ops'[x] # None => (ops'[x].status = "running" <=> ops'[x].age = "none")
    BY <1>1, <1>4, <1>5 DEF bar
  <2>4. QED
    BY <2>1, <2>2, <2>3 DEF ProgressTypeOK
<1>9. BarsAreReal'
  BY <1>3, <1>4, <1>5, <1>7 DEF ProgressIInv, BarsAreReal, bar
<1>10. WorkersAreReal'
  <2>1. ASSUME NEW x \in Transfers \ {t}, transfer[x].phase = "new" PROVE ops'[x] = None
    BY <1>4, <1>5, <2>1 DEF ProgressIInv, WorkersAreReal
  <2>2. QED
    BY <1>6, <2>1 DEF ProgressIInv, WorkersAreReal, Quiet
<1>11. OneCount'
  BY <1>6 DEF ProgressIInv, OneCount
<1>12. BarsFollow'
  <2>1. ASSUME NEW x \in (Running \ Parallel)', x # t PROVE ops'[x] = ops[x] /\ x \in Running \ Parallel
    BY <1>4, <1>5, <1>7, <2>1 DEF Running
  <2>2. transfer'[t].sent = 0 /\ ops'[t].done = 0
    BY <1>2, <1>3, <1>5, <1>6
  <2>3. QED
    BY <1>6, <1>7, <2>1, <2>2 DEF ProgressIInv, BarsFollow, Quiet, Running
<1>13. LengthTold'
  <2>1. ASSUME NEW x \in (Running \ Lengthless)', x # t PROVE ops'[x] = ops[x] /\ x \in Running \ Lengthless
    BY <1>4, <1>5, <1>7, <2>1 DEF Running
  <2>2. transfer'[t].sent = 0
    BY <1>2, <1>6
  <2>3. QED
    BY <1>6, <1>7, <2>1, <2>2 DEF ProgressIInv, LengthTold, Quiet, Running
<1>14. DoneIsFull'
  BY <1>4, <1>5 DEF ProgressIInv, DoneIsFull, Known, bar
<1>15. Known' = {x \in Transfers : kept[x] # None} \cup {t} /\ {x \in Transfers : kept[x] # None} \subseteq Known
  BY <1>1, <1>3, <1>4, <1>5 DEF Known
<1>16. /\ IsFiniteSet({x \in Transfers : kept[x] # None})
       /\ Cardinality({x \in Transfers : kept[x] # None}) < MaxOps
  <2>1. IsFiniteSet(Known) /\ Cardinality(Known) \in Nat
    BY FS_CardinalityType DEF ProgressIInv
  <2>2. CASE Cardinality(Known) >= MaxOps
    <3>1. {x \in Transfers : kept[x] # None} \subseteq Running
      BY <1>1, <2>2, PrunedSparesRunning DEF ProgressIInv, BarsAreReal
    <3>2. Running \subseteq Known
      BY DEF ProgressIInv, BarsAreReal, Known, Running
    <3>3. IsFiniteSet(Running) /\ Cardinality(Running) \in Nat /\ Cardinality(Running) < Threads
      BY <2>1, <3>2, FS_Subset, FS_CardinalityType DEF Begin
    <3>4. /\ IsFiniteSet({x \in Transfers : kept[x] # None})
          /\ Cardinality({x \in Transfers : kept[x] # None}) \in Nat
          /\ Cardinality({x \in Transfers : kept[x] # None}) <= Cardinality(Running)
      BY <3>1, <3>3, FS_Subset, FS_CardinalityType
    <3> HIDE DEF kept
    <3>5. QED
      BY <3>3, <3>4
  <2>3. CASE ~ (Cardinality(Known) >= MaxOps)
    <3>1. {x \in Transfers : kept[x] # None} = Known
      BY <2>3 DEF Known
    <3>2. QED
      BY <2>1, <2>3, <3>1
  <2>4. QED
    BY <2>2, <2>3
<1>17. (IsFiniteSet(Known) /\ RegistryBounded)'
  <2> DEFINE Kept == {x \in Transfers : kept[x] # None}
  <2>1. IsFiniteSet(Kept) /\ Cardinality(Kept) \in Nat /\ Cardinality(Kept) < MaxOps /\ Known' = Kept \cup {t}
    BY <1>15, <1>16, FS_CardinalityType
  <2> HIDE DEF Kept
  <2>2. /\ IsFiniteSet(Kept \cup {t})
        /\ Cardinality(Kept \cup {t}) = Cardinality(Kept) \/ Cardinality(Kept \cup {t}) = Cardinality(Kept) + 1
    BY <2>1, FS_AddElement
  <2>3. Cardinality(Kept \cup {t}) <= MaxOps
    BY <2>1, <2>2
  <2>4. QED
    BY <2>1, <2>2, <2>3 DEF RegistryBounded
<1>18. QED
  BY <1>8, <1>9, <1>10, <1>11, <1>12, <1>13, <1>14, <1>17 DEF ProgressIInv

\* What leaves the registry alone keeps what only speaks of it.
LEMMA SameRegistry ==
  ASSUME ProgressIInv, UNCHANGED ops
  PROVE  (DoneIsFull /\ IsFiniteSet(Known) /\ RegistryBounded)'
<1>1. Known' = Known
  BY DEF Known
<1>2. QED
  BY <1>1 DEF ProgressIInv, DoneIsFull, RegistryBounded

\* A chunk is counted: it is on its way before the bar shows it.
LEMMA SendKeeps ==
  ASSUME ProgressIInv, NEW t \in Transfers, NEW w \in Workers, Send(t, w)
  PROVE  ProgressIInv'
<1> USE ProgressConstants DEF ProgressConstants
<1>1. /\ transfer \in [Transfers -> [phase : Phases, sent : 0 .. Size, held : [Workers -> 0 .. Size \cup {None}]]]
      /\ transfer[t].phase = "runs" /\ transfer[t].sent < Size /\ ops' = ops
  BY DEF ProgressIInv, ProgressTypeOK, Send
<1> DEFINE count == transfer[t].sent + 1
           record == [transfer[t] EXCEPT !.sent = count, !.held[w] = count]
<1>2. transfer[t].sent \in 0 .. Size /\ count \in 0 .. Size /\ count > 0 /\ count # None
  BY <1>1
<1>3. /\ record \in [phase : Phases, sent : 0 .. Size, held : [Workers -> 0 .. Size \cup {None}]]
      /\ record.phase = "runs" /\ record.sent = count
      /\ record.held[w] = count
      /\ \A other \in Workers \ {w} : record.held[other] = transfer[t].held[other]
  <2> HIDE DEF count
  <2>1. QED
    BY <1>1, <1>2
<1>4. transfer' = [transfer EXCEPT ![t] = record]
  BY DEF Send
<1> HIDE DEF count, record
<1>5. transfer'[t] = record /\ \A x \in Transfers \ {t} : transfer'[x] = transfer[x]
  BY <1>1, <1>4
<1>6. Running' = Running
  BY <1>1, <1>3, <1>5 DEF Running
<1>7. ~ Quiet(t)'
  BY <1>2, <1>3, <1>5 DEF Quiet
<1>8. ProgressTypeOK'
  BY <1>1, <1>3, <1>4 DEF ProgressIInv, ProgressTypeOK
<1>9. BarsAreReal' /\ WorkersAreReal'
  BY <1>1, <1>3, <1>5, <1>6 DEF ProgressIInv, BarsAreReal, WorkersAreReal, Quiet
<1>10. OneCount'
  <2>1. t \notin Parallel => Quiet(t)
    BY DEF Send
  <2>2. QED
    BY <1>3, <1>5, <2>1 DEF ProgressIInv, OneCount, Quiet
<1>11. BarsFollow'
  <2>1. t \in Running \ Parallel => ops[t].done <= transfer[t].sent
    BY DEF ProgressIInv, BarsFollow
  <2>2. t \in Running => ops[t] \in Bars
    BY DEF ProgressIInv, ProgressTypeOK, BarsAreReal, Running
  <2>3. t \in Running \ Parallel => ops[t].done <= count
    BY <1>2, <2>1, <2>2 DEF Bars, count
  <2>4. QED
    BY <1>1, <1>3, <1>5, <1>6, <1>7, <2>3 DEF ProgressIInv, BarsFollow, Quiet, Running
<1>12. LengthTold'
  BY <1>1, <1>5, <1>6, <1>7 DEF ProgressIInv, LengthTold, Quiet, Running
<1>13. QED
  BY <1>1, <1>8, <1>9, <1>10, <1>11, <1>12, SameRegistry DEF ProgressIInv

\* A count arrives; those of a sequential transfer in order, those of a parallel one in any.
LEMMA ReportKeeps ==
  ASSUME ProgressIInv, NEW t \in Transfers, NEW w \in Workers, Report(t, w)
  PROVE  ProgressIInv'
<1> USE ProgressConstants DEF ProgressConstants
<1>1. /\ transfer \in [Transfers -> [phase : Phases, sent : 0 .. Size, held : [Workers -> 0 .. Size \cup {None}]]]
      /\ transfer[t].held[w] # None
      /\ transfer' = [transfer EXCEPT ![t].held[w] = None]
  BY DEF ProgressIInv, ProgressTypeOK, Report
<1>2. transfer[t].phase = "runs" /\ t \in Running
  BY <1>1 DEF ProgressIInv, WorkersAreReal, Quiet, Running
<1>3. ops[t] # None /\ ops[t].status = "running" /\ ops[t].age = "none"
  BY <1>2 DEF ProgressIInv, BarsAreReal, ProgressTypeOK
<1> DEFINE count == transfer[t].held[w]
<1>4. count \in 0 .. Size
  BY <1>1
<1>5. /\ transfer'[t].phase = "runs" /\ transfer'[t].sent = transfer[t].sent
      /\ transfer'[t].held[w] = None
      /\ \A other \in Workers \ {w} : transfer'[t].held[other] = transfer[t].held[other]
      /\ \A x \in Transfers \ {t} : transfer'[x] = transfer[x]
  BY <1>1, <1>2
<1>6. /\ ops' \in [Transfers -> Bars \cup {None}]
      /\ \A x \in Transfers \ {t} : ops'[x] = ops[x]
      /\ ops'[t] # None /\ ops'[t].done = count /\ ops'[t].status = "running" /\ ops'[t].age = "none"
      /\ ops'[t].total = IF t \in Lengthless THEN 0 ELSE Size
  BY <1>3, <1>4, UpdatedBar DEF ProgressIInv, Report
<1> HIDE DEF count
<1>7. Running' = Running
  BY <1>2, <1>5 DEF Running
<1>8. Known' = Known
  BY <1>3, <1>6 DEF Known
<1>9. ProgressTypeOK'
  <2>1. transfer' \in [Transfers -> [phase : Phases, sent : 0 .. Size, held : [Workers -> 0 .. Size \cup {None}]]]
    BY <1>1
  <2>2. QED
    BY <1>6, <2>1 DEF ProgressIInv, ProgressTypeOK
<1>10. BarsAreReal'
  BY <1>2, <1>6, <1>7 DEF ProgressIInv, BarsAreReal
<1>11. WorkersAreReal'
  BY <1>5, <1>6 DEF ProgressIInv, WorkersAreReal, Quiet
<1>12. OneCount'
  BY <1>5 DEF ProgressIInv, OneCount
<1>13. BarsFollow'
  <2>1. t \notin Parallel => count = transfer[t].sent
    BY <1>1 DEF ProgressIInv, OneCount, count
  <2>2. QED
    BY <1>4, <1>5, <1>6, <1>7, <2>1 DEF ProgressIInv, BarsFollow, Quiet, Running
<1>14. LengthTold'
  BY <1>5, <1>6, <1>7 DEF ProgressIInv, LengthTold, Quiet, Running
<1>15. (DoneIsFull /\ IsFiniteSet(Known) /\ RegistryBounded)'
  <2>1. DoneIsFull'
    BY <1>6, <1>8 DEF ProgressIInv, DoneIsFull, Known
  <2>2. QED
    BY <1>8, <2>1 DEF ProgressIInv, RegistryBounded
<1>16. QED
  BY <1>9, <1>10, <1>11, <1>12, <1>13, <1>14, <1>15 DEF ProgressIInv

\* The library returns once its workers are quiet.
LEMMA ReturnsKeeps == ASSUME ProgressIInv, NEW t \in Transfers, Returns(t) PROVE ProgressIInv'
<1>1. PICK outcome \in {"failed"} \cup IF transfer[t].sent = Size THEN {"sent"} ELSE {} :
        transfer' = [transfer EXCEPT ![t].phase = outcome]
  BY DEF Returns
<1>2. /\ transfer \in [Transfers -> [phase : Phases, sent : 0 .. Size, held : [Workers -> 0 .. Size \cup {None}]]]
      /\ transfer[t].phase = "runs" /\ Quiet(t) /\ ops' = ops
  BY DEF ProgressIInv, ProgressTypeOK, Returns
<1>3. /\ outcome = "failed" \/ (outcome = "sent" /\ transfer[t].sent = Size)
      /\ transfer'[t].phase = outcome /\ transfer'[t].sent = transfer[t].sent
      /\ transfer'[t].held = transfer[t].held
      /\ \A x \in Transfers \ {t} : transfer'[x] = transfer[x]
  BY <1>1, <1>2
<1>4. Running' = Running
  BY <1>2, <1>3 DEF Running
<1>5. ProgressTypeOK'
  <2>1. transfer' \in [Transfers -> [phase : Phases, sent : 0 .. Size, held : [Workers -> 0 .. Size \cup {None}]]]
    BY <1>1, <1>2, <1>3 DEF Phases
  <2>2. QED
    BY <1>2, <2>1 DEF ProgressIInv, ProgressTypeOK
<1>6. BarsAreReal' /\ WorkersAreReal'
  BY <1>2, <1>3, <1>4 DEF ProgressIInv, BarsAreReal, WorkersAreReal, Quiet
<1>7. OneCount'
  BY <1>3 DEF ProgressIInv, OneCount
<1>8. BarsFollow' /\ LengthTold'
  <2>1. \A x \in Transfers : transfer'[x].sent = transfer[x].sent /\ (Quiet(x)' <=> Quiet(x))
    BY <1>3 DEF Quiet
  <2>2. \A x \in Running : x \in Transfers
    BY DEF Running
  <2>3. BarsFollow'
    BY <1>2, <1>4, <2>1, <2>2 DEF ProgressIInv, BarsFollow
  <2>4. LengthTold'
    BY <1>2, <1>4, <2>1, <2>2 DEF ProgressIInv, LengthTold
  <2>5. QED
    BY <2>3, <2>4
<1>9. QED
  BY <1>2, <1>5, <1>6, <1>7, <1>8, SameRegistry DEF ProgressIInv

\* A transfer that sent everything has its length and its last count in its bar.
LEMMA SentIsFull ==
  ASSUME ProgressIInv, NEW t \in Transfers, transfer[t].phase = "sent"
  PROVE  IF ops[t].total # 0 THEN ops[t].total = Size ELSE ops[t].done = Size
<1> USE ProgressConstants DEF ProgressConstants
<1>1. t \in Running /\ transfer[t].sent = Size /\ Quiet(t)
  BY DEF ProgressIInv, WorkersAreReal, Running
<1>2. ops[t] \in Bars
  BY <1>1 DEF ProgressIInv, ProgressTypeOK, BarsAreReal
<1>3. CASE t \in Lengthless
  <2>1. t \notin Parallel
    BY <1>3
  <2>2. ops[t].done = Size
    BY <1>1, <2>1 DEF ProgressIInv, BarsFollow
  <2>3. QED
    BY <1>2, <2>2 DEF Bars
<1>4. CASE t \notin Lengthless
  BY <1>1, <1>4 DEF ProgressIInv, LengthTold
<1>5. QED
  BY <1>3, <1>4

\* Every way out of a transfer ends its bar.
LEMMA FinalizeKeeps == ASSUME ProgressIInv, NEW t \in Transfers, Finalize(t) PROVE ProgressIInv'
<1> USE ProgressConstants DEF ProgressConstants
<1> DEFINE status == IF transfer[t].phase = "sent" THEN "done" ELSE "error"
<1>1. /\ transfer \in [Transfers -> [phase : Phases, sent : 0 .. Size, held : [Workers -> 0 .. Size \cup {None}]]]
      /\ transfer[t].phase \in {"sent", "failed"} /\ t \in Running
      /\ transfer' = [transfer EXCEPT ![t].phase = "over"]
  BY DEF ProgressIInv, ProgressTypeOK, Finalize, Running
<1>2. ops[t] # None
  BY <1>1 DEF ProgressIInv, BarsAreReal
<1>3. status \in {"done", "error"}
  OBVIOUS
<1>4. /\ ops' \in [Transfers -> Bars \cup {None}]
      /\ \A x \in Transfers \ {t} : ops'[x] = ops[x]
      /\ ops'[t] # None /\ ops'[t].status = status /\ ops'[t].age = "fresh"
      /\ ops'[t].done = IF status = "done" /\ ops[t].total # 0 THEN ops[t].total ELSE ops[t].done
  BY <1>2, <1>3, FinishedBar DEF ProgressIInv, Finalize
<1>5. status = "done" => ops'[t].done = Size
  BY <1>1, <1>4, SentIsFull
<1> HIDE DEF status
<1>6. /\ transfer'[t].phase = "over" /\ transfer'[t].sent = transfer[t].sent
      /\ transfer'[t].held = transfer[t].held
      /\ \A x \in Transfers \ {t} : transfer'[x] = transfer[x]
  BY <1>1
<1>7. Running' = Running \ {t}
  BY <1>6 DEF Running
<1>8. Known' = Known
  BY <1>2, <1>4 DEF Known
<1>9. ProgressTypeOK'
  <2>1. transfer' \in [Transfers -> [phase : Phases, sent : 0 .. Size, held : [Workers -> 0 .. Size \cup {None}]]]
    BY <1>1 DEF Phases
  <2>2. QED
    BY <1>3, <1>4, <2>1 DEF ProgressIInv, ProgressTypeOK
<1>10. BarsAreReal'
  BY <1>3, <1>4, <1>7 DEF ProgressIInv, BarsAreReal
<1>11. WorkersAreReal'
  BY <1>1, <1>4, <1>6 DEF ProgressIInv, WorkersAreReal, Quiet
<1>12. OneCount'
  BY <1>6 DEF ProgressIInv, OneCount
<1>13. BarsFollow' /\ LengthTold'
  BY <1>4, <1>6, <1>7 DEF ProgressIInv, BarsFollow, LengthTold, Quiet, Running
<1>14. (DoneIsFull /\ IsFiniteSet(Known) /\ RegistryBounded)'
  <2>1. DoneIsFull'
    BY <1>4, <1>5, <1>8 DEF ProgressIInv, DoneIsFull, Known
  <2>2. QED
    BY <1>8, <2>1 DEF ProgressIInv, RegistryBounded
<1>15. QED
  BY <1>9, <1>10, <1>11, <1>12, <1>13, <1>14 DEF ProgressIInv

\* A transfer starts over only when its bar is gone.
LEMMA AgainKeeps == ASSUME ProgressIInv, NEW t \in Transfers, Again(t) PROVE ProgressIInv'
<1> USE ProgressConstants DEF ProgressConstants
<1>1. /\ transfer \in [Transfers -> [phase : Phases, sent : 0 .. Size, held : [Workers -> 0 .. Size \cup {None}]]]
      /\ transfer[t].phase = "over" /\ ops[t] = None /\ ops' = ops
      /\ transfer' = [transfer EXCEPT ![t] = Idle]
  BY DEF ProgressIInv, ProgressTypeOK, Again
<1>2. /\ transfer'[t].phase = "new" /\ transfer'[t].sent = 0
      /\ \A w \in Workers : transfer'[t].held[w] = None
      /\ \A x \in Transfers \ {t} : transfer'[x] = transfer[x]
  BY <1>1 DEF Idle
<1>3. Running' = Running /\ t \notin Running
  BY <1>1, <1>2 DEF Running
<1>4. ProgressTypeOK'
  <2>1. Idle \in [phase : Phases, sent : 0 .. Size, held : [Workers -> 0 .. Size \cup {None}]]
    BY DEF Idle, Phases
  <2>2. QED
    BY <1>1, <2>1 DEF ProgressIInv, ProgressTypeOK
<1>5. BarsAreReal' /\ WorkersAreReal'
  BY <1>1, <1>2, <1>3 DEF ProgressIInv, BarsAreReal, WorkersAreReal, Quiet
<1>6. OneCount'
  BY <1>2 DEF ProgressIInv, OneCount
<1>7. BarsFollow' /\ LengthTold'
  BY <1>1, <1>2, <1>3 DEF ProgressIInv, BarsFollow, LengthTold, Quiet, Running
<1>8. QED
  BY <1>1, <1>4, <1>5, <1>6, <1>7, SameRegistry DEF ProgressIInv

\* Time and pages that poll touch no running bar and add none.
LEMMA RegistryAgesKeeps ==
  ASSUME ProgressIInv, (\E t \in Transfers : Retained(t)) \/ Snapshot
  PROVE  ProgressIInv'
<1>1. /\ transfer' = transfer /\ ops' \in [Transfers -> Bars \cup {None}]
      /\ \A x \in Transfers :
           ops'[x] # None => /\ ops[x] # None /\ ops'[x].status = ops[x].status /\ ops'[x].done = ops[x].done
                             /\ ops'[x].status = "running" <=> ops'[x].age = "none"
      /\ \A x \in Transfers : ops[x] # None /\ ops[x].status = "running" => ops'[x] = ops[x]
  <2>1. /\ ops \in [Transfers -> Bars \cup {None}]
        /\ \A x \in Transfers : ops[x] # None => (ops[x].status = "running" <=> ops[x].age = "none")
    BY DEF ProgressIInv, ProgressTypeOK
  <2>2. CASE \E t \in Transfers : Retained(t)
    <3>1. PICK t \in Transfers : Retained(t)
      BY <2>2
    <3> DEFINE bar == [ops[t] EXCEPT !.age = "stale"]
    <3>2. ops[t] # None /\ ops[t] \in Bars /\ ops[t].status # "running" /\ ops' = [ops EXCEPT ![t] = bar]
      BY <2>1, <3>1 DEF Retained, Known
    <3>3. bar \in Bars /\ bar.status = ops[t].status /\ bar.done = ops[t].done /\ bar.age = "stale"
      BY <3>2 DEF Bars
    <3> HIDE DEF bar
    <3>4. QED
      BY <2>1, <3>1, <3>2, <3>3, BarIsNotNone DEF Retained
  <2>3. CASE Snapshot
    BY <2>1, <2>3, PrunedSparesRunning DEF ProgressIInv, Snapshot
  <2>4. QED
    BY <2>2, <2>3
<1>2. Running' = Running /\ Known' \subseteq Known
  BY <1>1 DEF Running, Known
<1>3. \A x \in Running : x \in Transfers /\ ops'[x] = ops[x] /\ ops[x] # None
  BY <1>1 DEF ProgressIInv, BarsAreReal, Running
<1>4. ProgressTypeOK' /\ BarsAreReal'
  BY <1>1, <1>2, <1>3 DEF ProgressIInv, ProgressTypeOK, BarsAreReal
<1>5. WorkersAreReal' /\ OneCount'
  BY <1>1 DEF ProgressIInv, WorkersAreReal, OneCount, Quiet
<1>6. BarsFollow' /\ LengthTold'
  BY <1>1, <1>2, <1>3 DEF ProgressIInv, BarsFollow, LengthTold, Quiet
<1>7. DoneIsFull'
  BY <1>1, <1>2 DEF ProgressIInv, DoneIsFull, Known
<1>8. (IsFiniteSet(Known) /\ RegistryBounded)'
  <2>1. /\ IsFiniteSet(Known) /\ Cardinality(Known) \in Nat /\ Cardinality(Known) <= MaxOps
    BY FS_CardinalityType DEF ProgressIInv, RegistryBounded
  <2>2. IsFiniteSet(Known') /\ Cardinality(Known') \in Nat /\ Cardinality(Known') <= Cardinality(Known)
    BY <1>2, <2>1, FS_Subset, FS_CardinalityType
  <2>3. MaxOps \in Nat
    BY ProgressConstants DEF ProgressConstants
  <2>4. QED
    BY <2>1, <2>2, <2>3 DEF RegistryBounded
<1>9. QED
  BY <1>4, <1>5, <1>6, <1>7, <1>8 DEF ProgressIInv

-----------------------------------------------------------------------------
(* Theorems *)

LEMMA ProgressInitially == ProgressInit => ProgressIInv
<1> SUFFICES ASSUME ProgressInit PROVE ProgressIInv
  OBVIOUS
<1> USE ProgressConstants DEF ProgressConstants
<1>1. /\ \A t \in Transfers : ops[t] = None /\ transfer[t].phase = "new" /\ transfer[t].sent = 0
      /\ \A t \in Transfers : \A w \in Workers : transfer[t].held[w] = None
  BY DEF ProgressInit, Idle
<1>2. Known = {} /\ Running = {}
  BY <1>1 DEF Known, Running
<1>3. ProgressTypeOK
  <2>1. Idle \in [phase : Phases, sent : 0 .. Size, held : [Workers -> 0 .. Size \cup {None}]]
    BY DEF Idle, Phases
  <2>2. QED
    BY <1>1, <2>1 DEF ProgressInit, ProgressTypeOK
<1>4. BarsAreReal /\ WorkersAreReal /\ OneCount /\ BarsFollow /\ LengthTold
  BY <1>1, <1>2 DEF BarsAreReal, WorkersAreReal, OneCount, BarsFollow, LengthTold, Quiet
<1>5. DoneIsFull /\ IsFiniteSet(Known) /\ RegistryBounded
  BY <1>2, FS_EmptySet DEF DoneIsFull, RegistryBounded
<1>6. QED
  BY <1>3, <1>4, <1>5 DEF ProgressIInv

LEMMA ProgressInductive == ProgressIInv /\ [ProgressNext]_progressVars => ProgressIInv'
<1> SUFFICES ASSUME ProgressIInv, [ProgressNext]_progressVars PROVE ProgressIInv'
  OBVIOUS
<1>1. ASSUME NEW t \in Transfers, Begin(t) PROVE ProgressIInv'
  BY <1>1, BeginKeeps
<1>2. ASSUME NEW t \in Transfers, NEW w \in Workers, Send(t, w) PROVE ProgressIInv'
  BY <1>2, SendKeeps
<1>3. ASSUME NEW t \in Transfers, NEW w \in Workers, Report(t, w) PROVE ProgressIInv'
  BY <1>3, ReportKeeps
<1>4. ASSUME NEW t \in Transfers, Returns(t) PROVE ProgressIInv'
  BY <1>4, ReturnsKeeps
<1>5. ASSUME NEW t \in Transfers, Finalize(t) PROVE ProgressIInv'
  BY <1>5, FinalizeKeeps
<1>6. ASSUME NEW t \in Transfers, Again(t) PROVE ProgressIInv'
  BY <1>6, AgainKeeps
<1>7. ASSUME (\E t \in Transfers : Retained(t)) \/ Snapshot PROVE ProgressIInv'
  BY <1>7, RegistryAgesKeeps
<1>8. CASE UNCHANGED progressVars
  BY <1>8 DEF progressVars, ProgressIInv, ProgressTypeOK, BarsAreReal, WorkersAreReal, OneCount,
              BarsFollow, LengthTold, DoneIsFull, RegistryBounded, Known, Running, Quiet
<1>9. QED
  BY <1>1, <1>2, <1>3, <1>4, <1>5, <1>6, <1>7, <1>8 DEF ProgressNext, TransferRuns

\* The registry, what its threads are doing and what their workers have counted agree
\* in every state.
THEOREM ProgressInvariant == ProgressSpec => []ProgressIInv
BY ProgressInitially, ProgressInductive, PTL DEF ProgressSpec

\* The registry and the transfers keep their types.
THEOREM ProgressTypes == ProgressSpec => []ProgressTypeOK
<1>1. ProgressIInv => ProgressTypeOK
  BY DEF ProgressIInv
<1>2. QED
  BY <1>1, ProgressInvariant, PTL

\* _prune_locked(): making room never takes the bar of a transfer that runs, and
\* nothing ends the bar before its transfer.
THEOREM RunningBarsShown == ProgressSpec => []RunningShown
<1>1. ProgressIInv => RunningShown
  BY DEF ProgressIInv, BarsAreReal, RunningShown, Known, Running
<1>2. QED
  BY <1>1, ProgressInvariant, PTL

\* The registry never holds more than _MAX_OPS bars, though only finished ones may go.
THEOREM RegistryStaysBounded == ProgressSpec => []RegistryBounded
<1>1. ProgressIInv => RegistryBounded
  BY DEF ProgressIInv
<1>2. QED
  BY <1>1, ProgressInvariant, PTL

\* A bar that says "done" is full, in whichever order the workers of an S3 transfer report.
THEOREM DoneBarsAreFull == ProgressSpec => []DoneIsFull
<1>1. ProgressIInv => DoneIsFull
  BY DEF ProgressIInv
<1>2. QED
  BY <1>1, ProgressInvariant, PTL

LEMMA BarGoesForward ==
  ASSUME ProgressIInv, [ProgressNext]_progressVars, NEW t \in Known \ Parallel,
         ops'[t] # None, ops'[t].status = "running"
  PROVE  ops'[t].done >= ops[t].done
<1> USE ProgressConstants DEF ProgressConstants
<1>1. /\ ops \in [Transfers -> Bars \cup {None}] /\ t \in Transfers /\ ops[t] \in Bars /\ ops[t] # None
      /\ \A x \in Transfers : transfer[x].held \in [Workers -> 0 .. Size \cup {None}]
  BY DEF ProgressIInv, ProgressTypeOK, Known
<1>2. ops[t].done \in 0 .. Size /\ ops[t].done >= ops[t].done
  BY <1>1 DEF Bars
<1>3. ASSUME ops'[t] = ops[t] PROVE ops'[t].done >= ops[t].done
  BY <1>2, <1>3
<1>4. ASSUME NEW x \in Transfers, Begin(x) PROVE ops'[t] = ops[t]
  <2>1. x # t
    BY <1>1, <1>4 DEF ProgressIInv, WorkersAreReal, Begin
  <2>2. ops'[t] = (IF Cardinality(Known) >= MaxOps THEN Pruned(TRUE) ELSE ops)[t]
    BY <1>1, <1>4, <2>1, PrunedSparesRunning DEF ProgressIInv, Begin, Started
  <2>3. QED
    BY <1>1, <2>2, PrunedSparesRunning DEF ProgressIInv
<1>5. ASSUME NEW x \in Transfers, NEW w \in Workers, Report(x, w) PROVE ops'[t].done >= ops[t].done
  <2>1. transfer[x].held[w] \in 0 .. Size /\ transfer[x].held[w] # None /\ ops' = Updated(x, transfer[x].held[w])
    BY <1>1, <1>5 DEF Report
  <2>2. CASE x = t /\ ops[t].status = "running"
    <3>1. t \in Running \ Parallel /\ transfer[t].held[w] = transfer[t].sent
      BY <1>1, <2>1, <2>2 DEF ProgressIInv, BarsAreReal, OneCount
    <3>2. ops[t].done <= transfer[t].sent
      BY <3>1 DEF ProgressIInv, BarsFollow
    <3>3. ops'[t].done = transfer[t].held[w]
      BY <1>1, <2>1, <2>2, UpdatedBar DEF ProgressIInv
    <3>4. QED
      BY <1>2, <2>1, <2>2, <3>1, <3>2, <3>3
  <2>3. CASE ~ (x = t /\ ops[t].status = "running")
    <3>1. ops'[t] = ops[t]
      BY <1>1, <2>1, <2>3, UpdatedBar DEF ProgressIInv
    <3>2. QED
      BY <1>3, <3>1
  <2>4. QED
    BY <2>2, <2>3
<1>6. ASSUME NEW x \in Transfers, Finalize(x) PROVE ops'[t] = ops[t]
  <2>1. ops[x] # None
    BY <1>6 DEF ProgressIInv, BarsAreReal, Finalize, Running
  <2>2. QED
    BY <1>1, <1>6, <2>1, FinishedBar DEF ProgressIInv, Finalize
<1>7. ASSUME NEW x \in Transfers, Retained(x) PROVE ops'[t].done >= ops[t].done
  <2>1. ops' = [ops EXCEPT ![x].age = "stale"]
    BY <1>7 DEF Retained
  <2>2. ops'[t].done = ops[t].done
    BY <1>1, <2>1 DEF Bars
  <2>3. QED
    BY <1>2, <2>2
<1>8. ASSUME Snapshot PROVE ops'[t] = ops[t]
  BY <1>1, <1>8, PrunedSparesRunning DEF ProgressIInv, Snapshot
<1>9. ASSUME UNCHANGED ops PROVE ops'[t] = ops[t]
  BY <1>9
<1>10. QED
  BY <1>3, <1>4, <1>5, <1>6, <1>7, <1>8, <1>9
  DEF ProgressNext, TransferRuns, Send, Returns, Again, progressVars

\* The bar of a transfer that is not cut in parts never goes back.
THEOREM BarsNeverGoBack == ProgressSpec => BarsGoForward
<1>1. ProgressIInv /\ [ProgressNext]_progressVars =>
        [\A t \in Known \ Parallel :
           ops'[t] # None /\ ops'[t].status = "running" => ops'[t].done >= ops[t].done]_progressVars
  BY BarGoesForward
<1>2. QED
  BY <1>1, ProgressInvariant, PTL DEF ProgressSpec, BarsGoForward
===============================================================================
