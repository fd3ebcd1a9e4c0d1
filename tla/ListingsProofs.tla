---------------------------- MODULE ListingsProofs ----------------------------
(***************************************************************************)
(* Theorems about Listings, for any assessments, any rows in them, any     *)
(* page size and any number of changes while a list is read.               *)
(***************************************************************************)
EXTENDS Listings, FiniteSetTheorems, TLAPS

Steps == {"idle", "check", "count", "rows", "shown", "missing", "severities"} \cup Kinds

\* Only the detail has a step for each kind, and only a list has pages.
StepsFit ==
    /\ reader.at \in Kinds \cup {"severities"} => reader.what = "detail"
    /\ reader.at \in {"count", "rows"} => reader.what # "detail"

TypeInv == TypeOK /\ live = filled /\ StepsFit

-----------------------------------------------------------------------------
(* The tables *)

LEMMA FiniteRows == IsFiniteSet(Row)
BY FS_Union, ListingsAssumption DEF Row

LEMMA SelectedDetail ==
  ASSUME NEW r, r.what = "detail", NEW A, NEW F
  PROVE  Selected(r, A, F) = IF r.session \in F THEN Children ELSE {}
<1>1. Selected(r, A, F) = UNION {ChildRows(k, r.session, F, "any") : k \in Kinds}
  BY DEF Selected, Kinds
<1>2. CASE r.session \in F
  <2>1. \A k \in Kinds : ChildRows(k, r.session, F, "any") = ChildrenOf(k)
    BY <1>2 DEF ChildRows, ChildrenOf
  <2>2. \A c \in Children : KindOf[c] \in Kinds /\ c \in ChildrenOf(KindOf[c])
    BY ListingsAssumption DEF ChildrenOf
  <2> QED
    BY <1>1, <1>2, <2>1, <2>2 DEF ChildrenOf
<1>3. CASE r.session \notin F
  BY <1>1, <1>3 DEF ChildRows
<1> QED
  BY <1>2, <1>3

LEMMA SelectedKind ==
  ASSUME NEW r, r.what \in Kinds, NEW A, NEW F
  PROVE  /\ Selected(r, A, F) = ChildRows(r.what, r.session, F, r.label)
         /\ Selected(r, A, F) \subseteq Children
BY DEF Selected, Kinds, ChildRows, ChildrenOf

LEMMA SelectedRows ==
  ASSUME NEW r, r.what \in Lists \cup {"detail"}, NEW A \in SUBSET Assessments, NEW F
  PROVE  /\ Selected(r, A, F) \in SUBSET Row
         /\ IsFiniteSet(Selected(r, A, F))
<1>1. r.what = "assessments" => Selected(r, A, F) \in SUBSET Row
  BY DEF Selected, AssessmentRows, Row, Kinds
<1>2. r.what \in Kinds => Selected(r, A, F) \in SUBSET Row
  BY SelectedKind DEF Row
<1>3. r.what = "detail" => Selected(r, A, F) \in SUBSET Row
  BY SelectedDetail DEF Row
<1>4. Selected(r, A, F) \in SUBSET Row
  BY <1>1, <1>2, <1>3 DEF Lists
<1> QED
  BY <1>4, FiniteRows, FS_Subset

LEMMA SelectedSame ==
  ASSUME NEW r, NEW s, r.what = s.what, r.session = s.session, r.label = s.label,
         NEW A, NEW F
  PROVE  Selected(r, A, F) = Selected(s, A, F)
BY DEF Selected

LEMMA PageSize ==
  ASSUME NEW rows \in SUBSET Row, NEW page \in Nat, NEW items \in Pages(rows, page),
         Offset(page) \in Nat
  PROVE  /\ items \in SUBSET rows
         /\ Cardinality(items) \in Nat
         /\ Cardinality(rows) \in Nat
         /\ Offset(page) <= Cardinality(rows) =>
               Cardinality(items) = IF Limit < Cardinality(rows) - Offset(page) THEN Limit
                                    ELSE Cardinality(rows) - Offset(page)
<1>1. IsFiniteSet(rows)
  BY FiniteRows, FS_Subset
<1>2. PICK skipped \in Beginnings(rows, Offset(page)) :
         items \in Beginnings(rows \ skipped, Limit)
  BY DEF Pages
<1>3. /\ skipped \in SUBSET rows
      /\ Cardinality(skipped) = IF Offset(page) < Cardinality(rows) THEN Offset(page)
                                ELSE Cardinality(rows)
  BY <1>2 DEF Beginnings
<1>4. /\ items \in SUBSET (rows \ skipped)
      /\ Cardinality(items) = IF Limit < Cardinality(rows \ skipped) THEN Limit
                              ELSE Cardinality(rows \ skipped)
  BY <1>2 DEF Beginnings
<1>5. /\ IsFiniteSet(items) /\ IsFiniteSet(rows \ skipped)
      /\ Cardinality(rows \ skipped) = Cardinality(rows) - Cardinality(rows \cap skipped)
  BY <1>1, <1>4, FS_Difference, FS_Subset
<1>6. rows \cap skipped = skipped
  BY <1>3
<1>7. Cardinality(rows) \in Nat /\ Cardinality(items) \in Nat
  BY <1>1, <1>5, FS_CardinalityType
<1>8. ASSUME Offset(page) <= Cardinality(rows)
      PROVE  Cardinality(rows \ skipped) = Cardinality(rows) - Offset(page)
  <2>1. Cardinality(skipped) = Offset(page)
    BY <1>3, <1>7, <1>8
  <2> QED
    BY <2>1, <1>5, <1>6
<1> QED
  BY <1>4, <1>7, <1>8

-----------------------------------------------------------------------------
(* Type correctness *)

\* A change of the tables as the reader notices it.
LEMMA ChangeType ==
  ASSUME TypeInv, NEW A \in SUBSET Assessments, NEW F, Change(A, F)
  PROVE  /\ live' = A /\ filled' = F /\ reader' \in Readers
         /\ reader'.at = reader.at /\ reader'.what = reader.what
         /\ reader'.session = reader.session /\ reader'.label = reader.label
         /\ reader'.page = reader.page /\ reader'.counted = reader.counted
         /\ reader'.items = reader.items /\ reader'.seen = reader.seen
         /\ reader'.repeats = reader.repeats
         /\ reader'.left = 0 /\ reader'.entered = 0 =>
               reader.left = 0 /\ reader.entered = 0
         /\ reader'.left = 0 => reader.left = 0
         /\ Reading /\ Selected(reader, live, filled) # Selected(reader, A, F) =>
               /\ reader'.left = 0 =>
                     Selected(reader, live, filled) \subseteq Selected(reader, A, F)
               /\ ~(reader'.left = 0 /\ reader'.entered = 0)
         /\ ~Reading \/ Selected(reader, live, filled) = Selected(reader, A, F) =>
               UNCHANGED reader
<1> DEFINE before == Selected(reader, live, filled)
           after == Selected(reader, A, F)
           came == Cardinality(after \ before)
           went == Cardinality(before \ after)
<1>1. reader \in Readers /\ live \in SUBSET Assessments /\ reader.what \in Lists \cup {"detail"}
  BY DEF TypeInv, TypeOK, Readers
<1>2. /\ before \in SUBSET Row /\ IsFiniteSet(before)
      /\ after \in SUBSET Row /\ IsFiniteSet(after)
  BY <1>1, SelectedRows
<1>3. /\ came \in Nat /\ went \in Nat
      /\ came = 0 <=> after \ before = {}
      /\ went = 0 <=> before \ after = {}
  BY <1>2, FS_Difference, FS_CardinalityType, FS_EmptySet
<1>4. live' = A /\ filled' = F
  BY DEF Change
<1>5. CASE ~(Reading /\ before # after)
  BY <1>1, <1>4, <1>5 DEF Change
<1>6. CASE Reading /\ before # after
  <2> DEFINE p == reader.present \cap after
             q == IF reader.at = "rows" THEN reader.squeezed + came ELSE reader.squeezed
  <2>1. reader' = [reader EXCEPT !.present = p, !.left = reader.left + went,
                      !.entered = reader.entered + came, !.squeezed = q]
    BY <1>6 DEF Change
  <2>2. /\ reader.left \in Nat /\ reader.entered \in Nat /\ reader.squeezed \in Nat
        /\ reader.present \in SUBSET Row
    BY <1>1 DEF Readers
  <2>3. /\ p \in SUBSET Row /\ q \in Nat /\ reader.left + went \in Nat
        /\ reader.entered + came \in Nat
    BY <1>3, <2>2
  <2> HIDE DEF p, q, came, went, before, after
  <2>4. /\ reader' \in Readers
        /\ reader'.left = reader.left + went /\ reader'.entered = reader.entered + came
        /\ reader'.at = reader.at /\ reader'.what = reader.what
        /\ reader'.session = reader.session /\ reader'.label = reader.label
        /\ reader'.page = reader.page /\ reader'.counted = reader.counted
        /\ reader'.items = reader.items /\ reader'.seen = reader.seen
        /\ reader'.repeats = reader.repeats
    BY <1>1, <2>1, <2>3 DEF Readers
  <2>5. /\ reader'.left = 0 => reader.left = 0 /\ went = 0
        /\ reader'.entered = 0 => reader.entered = 0 /\ came = 0
    BY <1>3, <2>2, <2>4
  <2>6. /\ went = 0 => before \subseteq after
        /\ ~(went = 0 /\ came = 0)
    BY <1>3, <1>6
  <2> QED
    BY <1>4, <1>6, <2>4, <2>5, <2>6 DEF before, after
<1> QED
  BY <1>5, <1>6

LEMMA TypeInit == Init => TypeInv
<1> SUFFICES ASSUME Init
             PROVE  TypeInv
  OBVIOUS
<1>1. [k \in Lists \cup {"severities"} |-> {}] \in [Lists \cup {"severities"} -> SUBSET Row]
  OBVIOUS
<1>2. Idle \in Readers
  BY <1>1 DEF Idle, Readers, Lists, Labels
<1> QED
  BY <1>2 DEF Init, TypeInv, TypeOK, StepsFit, Idle, Kinds

LEMMA BegunIsFinite == Cardinality(Begun) \in Nat
BY ListingsAssumption, FS_Subset, FS_CardinalityType DEF Begun

\* The steps of a reader leave the tables alone.
ReaderStep ==
    \/ \E what \in Lists \cup {"detail"}, s \in Assessments \cup {"none"}, l \in Labels :
          Open(what, s, l)
    \/ CheckAssessment \/ CountRows \/ FetchRows \/ NextPage
    \/ CountChildren("findings", "assets") \/ CountChildren("assets", "evidence")
    \/ CountChildren("evidence", "severities") \/ SumSeverities
    \/ Close

\* The steps of those who import and delete.
TableStep ==
    \E a \in Assessments :
        \/ BeginImport(a) \/ CommitImport(a) \/ AbortImport(a)
        \/ FindForDelete(a) \/ Delete(a)

LEMMA NextSplits == Next <=> TableStep \/ ReaderStep
BY DEF Next, TableStep, ReaderStep

\* What a step of the tables does, as the reader sees it.
LEMMA TableChanges ==
  ASSUME TypeInv, TableStep
  PROVE  /\ live' \in SUBSET Assessments /\ filled' = live'
         /\ deleting' \in SUBSET Assessments
         /\ rank' \in [Assessments -> Nat]
         /\ \/ UNCHANGED <<live, filled, reader>>
            \/ Change(live', filled')
<1>1. /\ live \in SUBSET Assessments /\ live = filled /\ deleting \in SUBSET Assessments
      /\ rank \in [Assessments -> Nat]
  BY DEF TypeInv, TypeOK
<1>2. PICK a \in Assessments : \/ BeginImport(a) \/ CommitImport(a) \/ AbortImport(a)
                               \/ FindForDelete(a) \/ Delete(a)
  BY DEF TableStep
<1>3. Forget(a) => rank' \in [Assessments -> Nat]
  <2>1. \A b \in Assessments :
           (IF b = a THEN 0 ELSE IF rank[b] > rank[a] THEN rank[b] - 1 ELSE rank[b]) \in Nat
    BY <1>1
  <2> QED
    BY <2>1 DEF Forget
<1>4. CASE BeginImport(a)
  <2>1. rank' = [rank EXCEPT ![a] = Cardinality(Begun) + 1]
    BY <1>4 DEF BeginImport
  <2>2. Cardinality(Begun) + 1 \in Nat
    BY BegunIsFinite
  <2>3. rank' \in [Assessments -> Nat]
    BY <1>1, <2>1, <2>2
  <2> QED
    BY <1>1, <1>4, <2>3 DEF BeginImport
<1>5. CASE CommitImport(a)
  <2>1. Change(live \cup {a}, filled \cup {a}) /\ UNCHANGED <<rank, deleting>>
    BY <1>5 DEF CommitImport
  <2>2. live' = live \cup {a} /\ filled' = filled \cup {a}
    BY <2>1 DEF Change
  <2> QED
    BY <1>1, <2>1, <2>2
<1>6. CASE AbortImport(a)
  BY <1>1, <1>3, <1>6 DEF AbortImport
<1>7. CASE FindForDelete(a)
  BY <1>1, <1>7 DEF FindForDelete
<1>8. CASE Delete(a)
  <2>1. /\ Change(live \ {a}, live \ {a}) /\ deleting' = deleting \ {a}
        /\ Forget(a) \/ UNCHANGED rank
    BY <1>1, <1>8 DEF Delete
  <2>2. live' = live \ {a} /\ filled' = live \ {a}
    BY <2>1 DEF Change
  <2> QED
    BY <1>1, <1>3, <2>1, <2>2
<1> QED
  BY <1>2, <1>4, <1>5, <1>6, <1>7, <1>8

\* A reader of the right type reads on as one.
LEMMA ReaderType ==
  ASSUME TypeInv, ReaderStep
  PROVE  reader' \in Readers /\ StepsFit' /\ UNCHANGED <<rank, live, filled, deleting>>
<1>. SUFFICES reader' \in Readers /\ StepsFit'
  BY DEF ReaderStep, Open, CheckAssessment, CountRows, FetchRows, NextPage, CountChildren,
         SumSeverities, Close
<1>1. reader \in Readers /\ live \in SUBSET Assessments /\ StepsFit
  BY DEF TypeInv, TypeOK
<1>2. /\ reader.what \in Lists \cup {"detail"} /\ reader.session \in Assessments \cup {"none"}
      /\ reader.label \in Labels /\ reader.page \in Nat /\ reader.repeats \in Nat
      /\ reader.counted \in [Lists \cup {"severities"} -> SUBSET Row]
      /\ reader.items \in SUBSET Row /\ reader.seen \in SUBSET Row
  BY <1>1 DEF Readers
<1>3. Idle \in Readers /\ Idle.at = "idle"
  <2>1. [k \in Lists \cup {"severities"} |-> {}] \in [Lists \cup {"severities"} -> SUBSET Row]
    OBVIOUS
  <2> QED
    BY <2>1 DEF Idle, Readers, Lists, Labels
<1>4. ASSUME NEW what \in Lists \cup {"detail"}, NEW s \in Assessments \cup {"none"},
             NEW l \in Labels, Open(what, s, l)
      PROVE  reader' \in Readers /\ StepsFit'
  <2> DEFINE first == IF what = "assessments" THEN "count" ELSE "check"
             opened == [Idle EXCEPT !.what = what, !.session = s, !.label = l, !.at = first]
             rows == Selected(opened, live, filled)
  <2>1. first \in Steps
    BY DEF Steps
  <2>2. opened \in Readers /\ opened.what = what /\ opened.at = first
    BY <1>3, <2>1 DEF Readers, Steps
  <2>3. rows \in SUBSET Row
    BY <1>1, <2>2, SelectedRows
  <2>4. reader' = [opened EXCEPT !.present = rows]
    BY <1>4 DEF Open
  <2> HIDE DEF opened, rows
  <2>5. reader' \in Readers /\ reader'.what = what /\ reader'.at = first
    BY <2>2, <2>3, <2>4 DEF Readers
  <2> QED
    BY <2>5 DEF StepsFit, Kinds
<1>5. CASE CheckAssessment
  <2> DEFINE next == IF reader.session \notin live THEN "missing"
                     ELSE IF reader.what = "detail" THEN "findings" ELSE "count"
  <2>1. next \in Steps /\ reader' = [reader EXCEPT !.at = next]
    BY <1>5 DEF CheckAssessment, Steps, Kinds
  <2>2. reader' \in Readers /\ reader'.what = reader.what /\ reader'.at = next
    BY <1>1, <2>1 DEF Readers, Steps
  <2> QED
    BY <2>2 DEF StepsFit, Kinds
<1>6. CASE CountRows
  <2> DEFINE rows == Selected(reader, live, filled)
             counted == [reader.counted EXCEPT ![reader.what] = rows]
  <2>1. reader' = [reader EXCEPT !.at = "rows", !.squeezed = 0, !.counted = counted]
    BY <1>6 DEF CountRows
  <2>2. rows \in SUBSET Row /\ reader.what # "detail"
    BY <1>1, <1>2, <1>6, SelectedRows DEF CountRows, StepsFit
  <2>3. counted \in [Lists \cup {"severities"} -> SUBSET Row]
    BY <1>2, <2>2
  <2> HIDE DEF rows, counted
  <2>4. reader' \in Readers /\ reader'.what = reader.what /\ reader'.at = "rows"
    BY <1>1, <2>1, <2>3 DEF Readers
  <2> QED
    BY <2>2, <2>4 DEF StepsFit, Kinds
<1>7. CASE FetchRows
  <2>1. PICK items \in Pages(Selected(reader, live, filled), reader.page) :
           reader' = [reader EXCEPT !.at = "shown", !.items = items,
                         !.seen = reader.seen \cup items,
                         !.repeats = reader.repeats + Cardinality(items \cap reader.seen)]
    BY <1>7 DEF FetchRows
  <2>2. Selected(reader, live, filled) \in SUBSET Row
    BY <1>1, <1>2, SelectedRows
  <2>3. items \in SUBSET Row
    BY <2>1, <2>2 DEF Pages, Beginnings
  <2>4. Cardinality(items \cap reader.seen) \in Nat
    BY <2>3, FiniteRows, FS_Subset, FS_CardinalityType
  <2>5. reader.repeats + Cardinality(items \cap reader.seen) \in Nat
    BY <1>2, <2>4
  <2>6. reader' \in Readers /\ reader'.what = reader.what /\ reader'.at = "shown"
    BY <1>1, <1>2, <2>1, <2>3, <2>5 DEF Readers
  <2> QED
    BY <2>6 DEF StepsFit, Kinds
<1>8. CASE NextPage
  <2> DEFINE next == IF reader.what = "assessments" THEN "count" ELSE "check"
  <2>1. /\ next \in Steps /\ reader.what # "detail"
        /\ reader' = [reader EXCEPT !.page = reader.page + 1, !.items = {}, !.at = next]
    BY <1>8 DEF NextPage, Steps
  <2>2. reader.page + 1 \in Nat /\ {} \in SUBSET Row
    BY <1>2
  <2> HIDE DEF next
  <2>3. reader' \in Readers /\ reader'.what = reader.what /\ reader'.at = next
    BY <1>1, <2>1, <2>2 DEF Readers, Steps
  <2> QED
    BY <2>1, <2>3 DEF StepsFit, Kinds, next
<1>9. ASSUME NEW kind \in Kinds, NEW next \in Kinds \cup {"severities"},
             CountChildren(kind, next)
      PROVE  reader' \in Readers /\ StepsFit'
  <2> DEFINE rows == ChildRows(kind, reader.session, filled, "any")
             counted == [reader.counted EXCEPT ![kind] = rows]
  <2>1. reader' = [reader EXCEPT !.at = next, !.counted = counted]
    BY <1>9 DEF CountChildren
  <2>2. rows \in SUBSET Row
    BY DEF ChildRows, ChildrenOf, Row
  <2>3. counted \in [Lists \cup {"severities"} -> SUBSET Row]
    BY <1>2, <2>2
  <2> HIDE DEF rows, counted
  <2>4. reader' \in Readers /\ reader'.what = reader.what /\ reader'.at = next
    BY <1>1, <2>1, <2>3 DEF Readers
  <2>5. reader.what = "detail"
    BY <1>9 DEF CountChildren
  <2> QED
    BY <2>4, <2>5 DEF StepsFit, Kinds
<1>10. CASE SumSeverities
  <2> DEFINE rows == ChildRows("findings", reader.session, filled, "any")
             counted == [reader.counted EXCEPT !["severities"] = rows]
  <2>1. reader' = [reader EXCEPT !.at = "shown", !.counted = counted]
    BY <1>10 DEF SumSeverities
  <2>2. rows \in SUBSET Row
    BY DEF ChildRows, ChildrenOf, Row
  <2>3. counted \in [Lists \cup {"severities"} -> SUBSET Row]
    BY <1>2, <2>2
  <2> HIDE DEF rows, counted
  <2>4. reader' \in Readers /\ reader'.what = reader.what /\ reader'.at = "shown"
    BY <1>1, <2>1, <2>3 DEF Readers
  <2> QED
    BY <2>4 DEF StepsFit, Kinds
<1>11. CASE Close
  BY <1>3, <1>11 DEF Close, StepsFit, Kinds
<1>12. reader' \in Readers /\ StepsFit'
  BY <1>4, <1>5, <1>6, <1>7, <1>8, <1>9, <1>10, <1>11 DEF ReaderStep, Kinds
<1> QED
  BY <1>12

LEMMA TypeStep == TypeInv /\ [Next]_vars => TypeInv'
<1> SUFFICES ASSUME TypeInv, [Next]_vars
             PROVE  TypeInv'
  OBVIOUS
<1>1. CASE TableStep
  <2>1. /\ live' \in SUBSET Assessments /\ filled' = live'
        /\ deleting' \in SUBSET Assessments /\ rank' \in [Assessments -> Nat]
    BY <1>1, TableChanges
  <2>2. reader' \in Readers /\ reader'.at = reader.at /\ reader'.what = reader.what
    BY <1>1, TableChanges, ChangeType, <2>1 DEF TypeInv, TypeOK
  <2> QED
    BY <2>1, <2>2 DEF TypeInv, TypeOK, StepsFit
<1>2. CASE ReaderStep
  BY <1>2, ReaderType DEF TypeInv, TypeOK
<1>3. CASE UNCHANGED vars
  BY <1>3 DEF vars, TypeInv, TypeOK, StepsFit
<1> QED
  BY <1>1, <1>2, <1>3, NextSplits

\* Every variable keeps its type, the reader the fields of its step.
THEOREM TypeCorrect == Spec => []TypeOK
<1>1. Spec => []TypeInv
  BY TypeInit, TypeStep, PTL DEF Spec
<1>2. TypeInv => TypeOK
  BY DEF TypeInv
<1> QED
  BY <1>1, <1>2, PTL

-----------------------------------------------------------------------------
(* The detail of an assessment *)

\* As long as nothing has left, the assessment is there with all its children, and
\* each count taken so far is complete.
DetailInv ==
    reader.what = "detail" /\ reader.left = 0
        /\ reader.at \in Kinds \cup {"severities", "shown"} =>
    /\ Selected(reader, live, filled) = Children
    /\ reader.at \in {"assets", "evidence", "severities", "shown"} =>
          reader.counted["findings"] = ChildrenOf("findings")
    /\ reader.at \in {"evidence", "severities", "shown"} =>
          reader.counted["assets"] = ChildrenOf("assets")
    /\ reader.at \in {"severities", "shown"} =>
          reader.counted["evidence"] = ChildrenOf("evidence")
    /\ reader.at = "shown" => reader.counted["severities"] = ChildrenOf("findings")

LEMMA DetailTable == TypeInv /\ DetailInv /\ TableStep => DetailInv'
<1> SUFFICES ASSUME TypeInv, DetailInv, TableStep,
                    reader'.what = "detail", reader'.left = 0,
                    reader'.at \in Kinds \cup {"severities", "shown"}
             PROVE  /\ Selected(reader', live', filled') = Children
                    /\ reader'.at = reader.at /\ reader'.counted = reader.counted
                    /\ reader.what = "detail" /\ reader.left = 0
  BY DEF DetailInv
<1>1. live' \in SUBSET Assessments /\ filled' = live'
  BY TableChanges
<1>2. CASE UNCHANGED <<live, filled, reader>>
  BY <1>2 DEF DetailInv
<1>3. CASE Change(live', filled')
  <2>1. /\ reader'.at = reader.at /\ reader'.counted = reader.counted
        /\ reader.what = "detail" /\ reader.left = 0
        /\ reader'.session = reader.session /\ reader'.label = reader.label
    BY <1>1, <1>3, ChangeType
  <2>2. Selected(reader, live, filled) = Children
    BY <2>1 DEF DetailInv
  <2>3. Selected(reader', live', filled') = Selected(reader, live', filled')
    BY <2>1, SelectedSame
  <2>4. Selected(reader, live', filled') \subseteq Children
    BY <2>1, SelectedDetail
  <2>5. Reading
    BY <2>1 DEF Reading
  <2>6. Selected(reader, live, filled) \subseteq Selected(reader, live', filled')
    BY <1>1, <1>3, <2>5, ChangeType
  <2> QED
    BY <2>1, <2>2, <2>3, <2>4, <2>6
<1> QED
  BY <1>2, <1>3, TableChanges

LEMMA ChildrenCounted ==
  ASSUME NEW r, r.what = "detail", NEW A, NEW F, Selected(r, A, F) = Children,
         NEW kind \in Kinds
  PROVE  ChildRows(kind, r.session, F, "any") = ChildrenOf(kind)
<1>1. CASE r.session \in F
  BY <1>1 DEF ChildRows, ChildrenOf
<1>2. CASE r.session \notin F
  <2>1. Children = {}
    BY <1>2, SelectedDetail
  <2> QED
    BY <1>2, <2>1 DEF ChildRows, ChildrenOf
<1> QED
  BY <1>1, <1>2

LEMMA DetailReader == TypeInv /\ DetailInv /\ ReaderStep => DetailInv'
<1> SUFFICES ASSUME TypeInv, DetailInv, ReaderStep,
                    reader'.what = "detail", reader'.left = 0,
                    reader'.at \in Kinds \cup {"severities", "shown"}
             PROVE  DetailInv'
  BY DEF DetailInv
<1>1. /\ reader \in Readers /\ live = filled /\ StepsFit
      /\ reader.counted \in [Lists \cup {"severities"} -> SUBSET Row]
      /\ UNCHANGED <<live, filled>>
  BY ReaderType DEF TypeInv, TypeOK, Readers
<1>2. ASSUME NEW what \in Lists \cup {"detail"}, NEW s \in Assessments \cup {"none"},
             NEW l \in Labels, Open(what, s, l)
      PROVE  FALSE
  <2> DEFINE first == IF what = "assessments" THEN "count" ELSE "check"
             opened == [Idle EXCEPT !.what = what, !.session = s, !.label = l, !.at = first]
             rows == Selected(opened, live, filled)
  <2>1. reader' = [opened EXCEPT !.present = rows]
    BY <1>2 DEF Open
  <2>2. reader'.at = first
    <3> HIDE DEF rows
    <3> QED
      BY <2>1 DEF Idle
  <2> QED
    BY <2>2 DEF Kinds
<1>3. CASE CheckAssessment
  <2> DEFINE next == IF reader.session \notin live THEN "missing"
                     ELSE IF reader.what = "detail" THEN "findings" ELSE "count"
  <2>1. reader' = [reader EXCEPT !.at = next]
    BY <1>3 DEF CheckAssessment
  <2>2. /\ reader'.at = next /\ reader'.what = reader.what
        /\ reader'.session = reader.session
    BY <1>1, <2>1 DEF Readers
  <2>3. next = "findings" /\ reader.session \in filled
    BY <1>1, <2>2 DEF Kinds
  <2>4. Selected(reader', live', filled') = Children
    BY <1>1, <2>2, <2>3, SelectedDetail
  <2> QED
    BY <2>2, <2>3, <2>4 DEF DetailInv
<1>4. CASE CountRows
  BY <1>1, <1>4, ReaderType DEF CountRows, Readers, StepsFit, TypeInv, TypeOK
<1>5. CASE FetchRows
  BY <1>1, <1>5 DEF FetchRows, Readers, StepsFit
<1>6. CASE NextPage
  BY <1>1, <1>6 DEF NextPage, Readers
<1>7. ASSUME NEW kind \in Kinds, NEW next \in Kinds \cup {"severities"},
             CountChildren(kind, next)
      PROVE  /\ Selected(reader, live, filled) = Children
             /\ Selected(reader', live', filled') = Children
             /\ reader.what = "detail" /\ reader.left = 0
             /\ reader.at = kind /\ reader'.at = next
             /\ reader'.counted = [reader.counted EXCEPT ![kind] = ChildrenOf(kind)]
  <2> DEFINE rows == ChildRows(kind, reader.session, filled, "any")
             counted == [reader.counted EXCEPT ![kind] = rows]
  <2>1. /\ reader' = [reader EXCEPT !.at = next, !.counted = counted]
        /\ reader.at = kind
    BY <1>7 DEF CountChildren
  <2>2. /\ reader'.at = next /\ reader'.counted = counted
        /\ reader'.what = reader.what /\ reader'.session = reader.session
        /\ reader'.label = reader.label /\ reader'.left = reader.left
    <3> HIDE DEF counted
    <3> QED
      BY <1>1, <2>1 DEF Readers
  <2>3. Selected(reader, live, filled) = Children
    BY <2>1, <2>2 DEF DetailInv
  <2>4. rows = ChildrenOf(kind)
    BY <2>2, <2>3, ChildrenCounted
  <2>5. Selected(reader', live', filled') = Children
    BY <1>1, <2>2, <2>3, SelectedSame
  <2> QED
    BY <2>1, <2>2, <2>3, <2>4, <2>5
<1>8. CASE CountChildren("findings", "assets")
  <2>1. /\ Selected(reader', live', filled') = Children /\ reader'.at = "assets"
        /\ reader'.counted =
              [reader.counted EXCEPT !["findings"] = ChildrenOf("findings")]
    BY <1>7, <1>8 DEF Kinds
  <2> QED
    BY <1>1, <2>1 DEF DetailInv, Lists, Kinds
<1>9. CASE CountChildren("assets", "evidence")
  <2>1. /\ Selected(reader', live', filled') = Children /\ reader'.at = "evidence"
        /\ reader.at = "assets" /\ reader.what = "detail" /\ reader.left = 0
        /\ reader'.counted = [reader.counted EXCEPT !["assets"] = ChildrenOf("assets")]
    BY <1>7, <1>9 DEF Kinds
  <2> QED
    BY <1>1, <2>1 DEF DetailInv, Lists, Kinds
<1>10. CASE CountChildren("evidence", "severities")
  <2>1. /\ Selected(reader', live', filled') = Children /\ reader'.at = "severities"
        /\ reader.at = "evidence" /\ reader.what = "detail" /\ reader.left = 0
        /\ reader'.counted =
              [reader.counted EXCEPT !["evidence"] = ChildrenOf("evidence")]
    BY <1>7, <1>10 DEF Kinds
  <2> QED
    BY <1>1, <2>1 DEF DetailInv, Lists, Kinds
<1>11. CASE SumSeverities
  <2> DEFINE rows == ChildRows("findings", reader.session, filled, "any")
             counted == [reader.counted EXCEPT !["severities"] = rows]
  <2>1. /\ reader' = [reader EXCEPT !.at = "shown", !.counted = counted]
        /\ reader.at = "severities"
    BY <1>11 DEF SumSeverities
  <2>2. /\ reader'.at = "shown" /\ reader'.counted = counted
        /\ reader'.what = reader.what /\ reader'.session = reader.session
        /\ reader'.label = reader.label /\ reader'.left = reader.left
    <3> HIDE DEF counted
    <3> QED
      BY <1>1, <2>1 DEF Readers
  <2>3. Selected(reader, live, filled) = Children
    BY <2>1, <2>2 DEF DetailInv
  <2>4. rows = ChildrenOf("findings")
    BY <2>2, <2>3, ChildrenCounted DEF Kinds
  <2>5. Selected(reader', live', filled') = Children
    BY <1>1, <2>2, <2>3, SelectedSame
  <2>6. reader'.counted = [reader.counted EXCEPT !["severities"] = ChildrenOf("findings")]
    BY <2>2, <2>4
  <2> QED
    BY <1>1, <2>1, <2>2, <2>5, <2>6 DEF DetailInv, Lists, Kinds
<1>12. CASE Close
  BY <1>12 DEF Close, Idle
<1> QED
  BY <1>2, <1>3, <1>4, <1>5, <1>6, <1>8, <1>9, <1>10, <1>11, <1>12 DEF ReaderStep

\* A detail never mixes an assessment with its absence unless it was deleted while
\* the counts were taken (DetailAgrees).
THEOREM DetailsAreWhole == Spec => []DetailAgrees
<1>1. Init => DetailInv
  BY DEF Init, Idle, DetailInv
<1>2. TypeInv /\ DetailInv /\ [Next]_vars => DetailInv'
  <2> SUFFICES ASSUME TypeInv, DetailInv, [Next]_vars
               PROVE  DetailInv'
    OBVIOUS
  <2>1. CASE UNCHANGED vars
    BY <2>1 DEF vars, DetailInv, Selected
  <2> QED
    BY <2>1, DetailTable, DetailReader, NextSplits
<1>3. DetailInv => DetailAgrees
  BY DEF DetailInv, DetailAgrees, Kinds
<1> QED
  BY <1>1, <1>2, <1>3, TypeInit, TypeStep, PTL DEF Spec

-----------------------------------------------------------------------------
(* The pages of an unchanged assessment *)

\* As long as the list stays the same, the pages so far have brought as many rows,
\* repeats included, as they have room for.
WalkInv ==
    reader.what \in Kinds /\ reader.left = 0 /\ reader.entered = 0
        /\ reader.at \in {"check", "count", "rows", "shown"} =>
    /\ reader.present = Selected(reader, live, filled)
    /\ reader.seen \subseteq reader.present
    /\ Offset(reader.page) <= Cardinality(reader.present)
    /\ reader.at # "shown" =>
          Cardinality(reader.seen) + reader.repeats = Offset(reader.page)
    /\ reader.at \in {"rows", "shown"} => reader.counted[reader.what] = reader.present
    /\ reader.at = "shown" =>
          /\ Cardinality(reader.seen) + reader.repeats
                = Offset(reader.page) + Cardinality(reader.items)
          /\ Cardinality(reader.items) =
                IF Limit < Cardinality(reader.present) - Offset(reader.page) THEN Limit
                ELSE Cardinality(reader.present) - Offset(reader.page)

LEMMA Offsets ==
  ASSUME NEW page \in Nat
  PROVE  Offset(page) \in Nat /\ Offset(page + 1) = Offset(page) + Limit
<1>1. PICK n \in Nat : n = Limit
  BY ListingsAssumption
<1>2. page * n \in Nat /\ (page + 1) * n = page * n + n
  OBVIOUS
<1> QED
  BY <1>1, <1>2 DEF Offset

LEMMA WalkTable == TypeInv /\ WalkInv /\ TableStep => WalkInv'
<1> SUFFICES ASSUME TypeInv, WalkInv, TableStep,
                    reader'.what \in Kinds, reader'.left = 0, reader'.entered = 0,
                    reader'.at \in {"check", "count", "rows", "shown"}
             PROVE  /\ Selected(reader', live', filled') = Selected(reader, live, filled)
                    /\ UNCHANGED reader
  BY DEF WalkInv, Offset
<1>1. live' \in SUBSET Assessments /\ filled' = live'
  BY TableChanges
<1>2. CASE UNCHANGED <<live, filled, reader>>
  BY <1>2
<1>3. CASE Change(live', filled')
  <2>1. reader'.at = reader.at /\ Reading
    BY <1>1, <1>3, ChangeType DEF Reading
  <2>2. Selected(reader, live, filled) = Selected(reader, live', filled')
    BY <1>1, <1>3, <2>1, ChangeType
  <2>3. UNCHANGED reader
    BY <1>1, <1>3, <2>2, ChangeType
  <2> QED
    BY <2>2, <2>3
<1> QED
  BY <1>2, <1>3, TableChanges

LEMMA WalkReader == TypeInv /\ WalkInv /\ ReaderStep => WalkInv'
<1> SUFFICES ASSUME TypeInv, WalkInv, ReaderStep,
                    reader'.what \in Kinds, reader'.left = 0, reader'.entered = 0,
                    reader'.at \in {"check", "count", "rows", "shown"}
             PROVE  WalkInv'
  BY DEF WalkInv
<1> DEFINE rows == Selected(reader, live, filled)
<1>1. /\ reader \in Readers /\ live \in SUBSET Assessments /\ StepsFit
      /\ reader.counted \in [Lists \cup {"severities"} -> SUBSET Row]
      /\ reader.what \in Lists \cup {"detail"} /\ reader.page \in Nat
      /\ reader.repeats \in Nat
      /\ reader.seen \in SUBSET Row /\ reader.items \in SUBSET Row
      /\ reader.present \in SUBSET Row
      /\ UNCHANGED <<live, filled>>
  BY ReaderType DEF TypeInv, TypeOK, Readers
<1>2. rows \in SUBSET Row /\ IsFiniteSet(rows)
  BY <1>1, SelectedRows
<1>3. /\ IsFiniteSet(reader.seen) /\ IsFiniteSet(reader.present)
      /\ Cardinality(reader.seen) \in Nat /\ Cardinality(reader.present) \in Nat
      /\ Cardinality(rows) \in Nat
  BY <1>1, <1>2, FiniteRows, FS_Subset, FS_CardinalityType
<1>4. Offset(reader.page) \in Nat /\ Offset(reader.page + 1) = Offset(reader.page) + Limit
  BY <1>1, Offsets
<1>5. ASSUME NEW what \in Lists \cup {"detail"}, NEW s \in Assessments \cup {"none"},
             NEW l \in Labels, Open(what, s, l)
      PROVE  WalkInv'
  <2> DEFINE first == IF what = "assessments" THEN "count" ELSE "check"
             opened == [Idle EXCEPT !.what = what, !.session = s, !.label = l, !.at = first]
             there == Selected(opened, live, filled)
  <2>1. reader' = [opened EXCEPT !.present = there]
    BY <1>5 DEF Open
  <2>2. /\ opened.what = what /\ opened.session = s /\ opened.label = l
        /\ opened.at = first /\ opened.seen = {} /\ opened.page = 0 /\ opened.repeats = 0
        /\ opened = [Idle EXCEPT !.what = what, !.session = s, !.label = l, !.at = first]
    BY DEF Idle
  <2>3. /\ reader'.what = what /\ reader'.session = s /\ reader'.label = l
        /\ reader'.at = first /\ reader'.present = there
        /\ reader'.seen = {} /\ reader'.page = 0 /\ reader'.repeats = 0
    <3> HIDE DEF there, first
    <3> QED
      BY <2>1, <2>2 DEF Idle
  <2>4. Selected(reader', live', filled') = there
    <3>1. reader'.what = opened.what /\ reader'.session = opened.session
          /\ reader'.label = opened.label
      BY <2>2, <2>3
    <3> HIDE DEF opened
    <3> QED
      BY <1>1, <3>1, SelectedSame
  <2>5. Cardinality({}) = 0 /\ Offset(0) = 0
    BY FS_EmptySet, ListingsAssumption DEF Offset
  <2>6. Cardinality(there) \in Nat
    BY <1>1, <2>2, SelectedRows, FS_CardinalityType
  <2>7. first \notin {"rows", "shown"}
    OBVIOUS
  <2> HIDE DEF there, opened, first
  <2> QED
    BY <2>3, <2>4, <2>5, <2>6, <2>7 DEF WalkInv, Offset
<1>6. CASE CheckAssessment
  <2> DEFINE next == IF reader.session \notin live THEN "missing"
                     ELSE IF reader.what = "detail" THEN "findings" ELSE "count"
  <2>1. reader' = [reader EXCEPT !.at = next] /\ reader.at = "check"
    BY <1>6 DEF CheckAssessment
  <2>2. /\ reader'.at = next /\ reader'.what = reader.what
        /\ reader'.session = reader.session /\ reader'.label = reader.label
        /\ reader'.present = reader.present /\ reader'.seen = reader.seen
        /\ reader'.page = reader.page /\ reader'.repeats = reader.repeats
        /\ reader'.left = reader.left /\ reader'.entered = reader.entered
    BY <1>1, <2>1 DEF Readers
  <2>3. Selected(reader', live', filled') = rows
    BY <1>1, <2>2, SelectedSame
  <2>4. next = "count"
    BY <2>2 DEF Kinds
  <2> HIDE DEF next, rows
  <2> QED
    BY <2>1, <2>2, <2>3, <2>4 DEF WalkInv, Offset, rows
<1>7. CASE CountRows
  <2> DEFINE counted == [reader.counted EXCEPT ![reader.what] = rows]
  <2>1. reader' = [reader EXCEPT !.at = "rows", !.squeezed = 0, !.counted = counted]
        /\ reader.at = "count"
    BY <1>7 DEF CountRows
  <2>2. /\ reader'.at = "rows" /\ reader'.what = reader.what
        /\ reader'.session = reader.session /\ reader'.label = reader.label
        /\ reader'.present = reader.present /\ reader'.seen = reader.seen
        /\ reader'.page = reader.page /\ reader'.repeats = reader.repeats
        /\ reader'.left = reader.left /\ reader'.entered = reader.entered
        /\ reader'.counted = counted
    <3> HIDE DEF counted
    <3> QED
      BY <1>1, <2>1 DEF Readers
  <2>3. Selected(reader', live', filled') = rows
    BY <1>1, <2>2, SelectedSame
  <2>4. reader'.counted[reader'.what] = rows
    BY <1>1, <2>2 DEF Lists
  <2> HIDE DEF counted, rows
  <2> QED
    BY <2>1, <2>2, <2>3, <2>4 DEF WalkInv, Offset, rows
<1>8. CASE FetchRows
  <2>1. PICK items \in Pages(rows, reader.page) :
           reader' = [reader EXCEPT !.at = "shown", !.items = items,
                         !.seen = reader.seen \cup items,
                         !.repeats = reader.repeats + Cardinality(items \cap reader.seen)]
    BY <1>8 DEF FetchRows
  <2>2. /\ reader'.at = "shown" /\ reader'.what = reader.what /\ reader'.items = items
        /\ reader'.session = reader.session /\ reader'.label = reader.label
        /\ reader'.present = reader.present /\ reader'.seen = reader.seen \cup items
        /\ reader'.page = reader.page /\ reader'.counted = reader.counted
        /\ reader'.repeats = reader.repeats + Cardinality(items \cap reader.seen)
        /\ reader'.left = reader.left /\ reader'.entered = reader.entered
        /\ reader.at = "rows"
    BY <1>1, <1>8, <2>1 DEF Readers, FetchRows
  <2>3. Selected(reader', live', filled') = rows
    BY <1>1, <2>2, SelectedSame
  <2>4. /\ reader.present = rows /\ reader.seen \subseteq rows
        /\ Offset(reader.page) <= Cardinality(rows)
        /\ Cardinality(reader.seen) + reader.repeats = Offset(reader.page)
        /\ reader.counted[reader.what] = rows
    BY <2>2 DEF WalkInv
  <2>5. /\ items \in SUBSET rows /\ Cardinality(items) \in Nat
        /\ Cardinality(items) = IF Limit < Cardinality(rows) - Offset(reader.page) THEN Limit
                                ELSE Cardinality(rows) - Offset(reader.page)
    BY <1>1, <1>2, <1>4, <2>1, <2>4, PageSize
  <2>6. /\ IsFiniteSet(items) /\ IsFiniteSet(items \cap reader.seen)
        /\ Cardinality(items \cap reader.seen) \in Nat
    BY <1>2, <2>5, FS_Subset, FS_CardinalityType
  <2>7. Cardinality(reader.seen \cup items) =
           Cardinality(reader.seen) + Cardinality(items) - Cardinality(reader.seen \cap items)
    BY <1>3, <2>6, FS_Union
  <2>8. reader.seen \cap items = items \cap reader.seen
    OBVIOUS
  <2>9. Cardinality(reader'.seen) + reader'.repeats = Offset(reader.page) + Cardinality(items)
    <3> DEFINE both == Cardinality(items \cap reader.seen)
    <3>1. /\ Cardinality(reader'.seen)
                = Cardinality(reader.seen) + Cardinality(items) - both
          /\ reader'.repeats = reader.repeats + both
      BY <2>2, <2>7, <2>8
    <3>2. both \in Nat
      BY <2>6
    <3> HIDE DEF both
    <3> QED
      BY <1>1, <1>3, <1>4, <2>4, <2>5, <3>1, <3>2
  <2> HIDE DEF rows
  <2> QED
    BY <2>2, <2>3, <2>4, <2>5, <2>9 DEF WalkInv, Offset
<1>9. CASE NextPage
  <2> DEFINE next == IF reader.what = "assessments" THEN "count" ELSE "check"
  <2>1. /\ reader.at = "shown" /\ HasNext(reader)
        /\ reader' = [reader EXCEPT !.page = reader.page + 1, !.items = {}, !.at = next]
    BY <1>9 DEF NextPage
  <2>2. reader.page + 1 \in Nat
    BY <1>1
  <2>3. /\ reader'.at = next /\ reader'.what = reader.what
        /\ reader'.session = reader.session /\ reader'.label = reader.label
        /\ reader'.present = reader.present /\ reader'.seen = reader.seen
        /\ reader'.page = reader.page + 1 /\ reader'.repeats = reader.repeats
        /\ reader'.left = reader.left /\ reader'.entered = reader.entered
    <3> HIDE DEF next
    <3> QED
      BY <1>1, <2>1 DEF Readers
  <2>4. Selected(reader', live', filled') = rows
    BY <1>1, <2>3, SelectedSame
  <2>5. next = "check"
    BY <2>3 DEF Kinds
  <2>6. /\ reader.present = rows /\ reader.seen \subseteq rows
        /\ Offset(reader.page) <= Cardinality(rows)
        /\ reader.counted[reader.what] = rows
        /\ Cardinality(reader.seen) + reader.repeats
              = Offset(reader.page) + Cardinality(reader.items)
        /\ Cardinality(reader.items) =
              IF Limit < Cardinality(rows) - Offset(reader.page) THEN Limit
              ELSE Cardinality(rows) - Offset(reader.page)
    BY <2>1, <2>3 DEF WalkInv
  <2>7. Cardinality(rows) > Offset(reader.page + 1)
    BY <2>1, <2>6 DEF HasNext
  <2>8. Limit \in Nat /\ Limit < Cardinality(rows) - Offset(reader.page)
    BY <1>3, <1>4, <2>7, ListingsAssumption
  <2>9. /\ Cardinality(reader'.seen) + reader'.repeats = Offset(reader.page + 1)
        /\ Offset(reader.page + 1) <= Cardinality(rows)
    BY <1>3, <1>4, <2>3, <2>6, <2>7, <2>8
  <2> HIDE DEF rows, next
  <2> QED
    BY <2>3, <2>4, <2>5, <2>6, <2>9 DEF WalkInv, Offset
<1>10. ASSUME NEW kind \in Kinds, NEW next \in Kinds \cup {"severities"},
              CountChildren(kind, next)
       PROVE  FALSE
  <2>1. reader.what = "detail" /\ reader'.what = reader.what
    BY <1>1, <1>10 DEF CountChildren, Readers
  <2> QED
    BY <2>1 DEF Kinds
<1>11. CASE SumSeverities
  <2>1. reader.what = "detail" /\ reader'.what = reader.what
    BY <1>1, <1>11 DEF SumSeverities, Readers, StepsFit
  <2> QED
    BY <2>1 DEF Kinds
<1>12. CASE Close
  BY <1>12 DEF Close, Idle
<1> QED
  BY <1>5, <1>6, <1>7, <1>8, <1>9, <1>10, <1>11, <1>12 DEF ReaderStep, Kinds

\* Pages of an unchanged assessment hide as many rows as they repeat
\* (RepeatsHideRows).
THEOREM RepeatsCountTheHidden == Spec => []RepeatsHideRows
<1>1. Init => WalkInv
  BY DEF Init, Idle, WalkInv
<1>2. TypeInv /\ WalkInv /\ [Next]_vars => WalkInv'
  <2> SUFFICES ASSUME TypeInv, WalkInv, [Next]_vars
               PROVE  WalkInv'
    OBVIOUS
  <2>1. CASE UNCHANGED vars
    BY <2>1 DEF vars, WalkInv, Selected, Offset
  <2> QED
    BY <2>1, WalkTable, WalkReader, NextSplits
<1>3. TypeInv /\ WalkInv => RepeatsHideRows
  <2> SUFFICES ASSUME TypeInv, WalkInv, Finished, reader.what \in Kinds,
                      reader.left = 0, reader.entered = 0
               PROVE  Cardinality(Missed) = reader.repeats
    BY DEF RepeatsHideRows
  <2> DEFINE all == reader.present
  <2>1. /\ reader.at = "shown" /\ ~HasNext(reader)
        /\ reader.page \in Nat /\ reader.repeats \in Nat
        /\ reader.seen \in SUBSET Row /\ reader.items \in SUBSET Row /\ all \in SUBSET Row
    BY DEF Finished, TypeInv, TypeOK, Readers
  <2>2. /\ reader.seen \subseteq all /\ Offset(reader.page) <= Cardinality(all)
        /\ reader.counted[reader.what] = all
        /\ Cardinality(reader.seen) + reader.repeats
              = Offset(reader.page) + Cardinality(reader.items)
        /\ Cardinality(reader.items) =
              IF Limit < Cardinality(all) - Offset(reader.page) THEN Limit
              ELSE Cardinality(all) - Offset(reader.page)
    BY <2>1 DEF WalkInv
  <2>3. /\ IsFiniteSet(all) /\ Cardinality(all) \in Nat
        /\ IsFiniteSet(reader.seen) /\ Cardinality(reader.seen) \in Nat
    BY <2>1, FiniteRows, FS_Subset, FS_CardinalityType
  <2>4. /\ Offset(reader.page) \in Nat /\ Limit \in Nat \ {0}
        /\ Offset(reader.page + 1) = Offset(reader.page) + Limit
    BY <2>1, Offsets, ListingsAssumption
  <2>5. reader.items = {} \/ Cardinality(all) <= Offset(reader.page + 1)
    BY <2>1, <2>2, <2>3, <2>4 DEF HasNext
  <2>6. reader.items = {} => Cardinality(reader.items) = 0
    BY FS_EmptySet
  <2>7. Cardinality(reader.seen) + reader.repeats = Cardinality(all)
    BY <2>1, <2>2, <2>3, <2>4, <2>5, <2>6
  <2>8. Cardinality(all \ reader.seen) = Cardinality(all) - Cardinality(all \cap reader.seen)
    BY <2>3, FS_Difference
  <2>9. all \cap reader.seen = reader.seen
    BY <2>2
  <2> QED
    <3>1. Cardinality(Missed) = Cardinality(all) - Cardinality(reader.seen)
      BY <2>8, <2>9 DEF Missed
    <3> QED
      BY <2>1, <2>3, <2>7, <3>1
<1> QED
  BY <1>1, <1>2, <1>3, TypeInit, TypeStep, PTL DEF Spec

-----------------------------------------------------------------------------
(* Positions in the list of the assessments: the rows in front of a row are    *)
(* those of a greater rank.                                                    *)

Before(rows, r, x) == {y \in rows : r[y] > r[x]}

Pos(rows, r, x) == Cardinality(Before(rows, r, x))

Ranked(rows, r) ==
    /\ IsFiniteSet(rows)
    /\ \A x \in rows : r[x] \in Nat
    /\ \A x, y \in rows : r[x] = r[y] => x = y

LEMMA PosType ==
  ASSUME NEW rows, IsFiniteSet(rows), NEW r, NEW x
  PROVE  Pos(rows, r, x) \in Nat /\ IsFiniteSet(Before(rows, r, x))
<1>1. Before(rows, r, x) \in SUBSET rows
  BY DEF Before
<1> QED
  BY <1>1, FS_Subset, FS_CardinalityType DEF Pos

\* No two rows are at the same position.
LEMMA PosOrder ==
  ASSUME NEW rows, NEW r, Ranked(rows, r), NEW x \in rows, NEW y \in rows, r[y] > r[x]
  PROVE  Pos(rows, r, y) < Pos(rows, r, x)
<1>1. r[x] \in Nat /\ r[y] \in Nat /\ \A z \in rows : r[z] \in Nat
  BY DEF Ranked
<1>2. Before(rows, r, y) \in SUBSET Before(rows, r, x)
  BY <1>1 DEF Before
<1>3. y \in Before(rows, r, x) /\ y \notin Before(rows, r, y)
  BY <1>1 DEF Before
<1>4. IsFiniteSet(Before(rows, r, x)) /\ Pos(rows, r, x) \in Nat /\ Pos(rows, r, y) \in Nat
  BY PosType DEF Ranked
<1>5. /\ Pos(rows, r, y) <= Pos(rows, r, x)
      /\ Pos(rows, r, y) = Pos(rows, r, x) => Before(rows, r, y) = Before(rows, r, x)
  BY <1>2, <1>4, FS_Subset DEF Pos
<1> QED
  BY <1>3, <1>4, <1>5

LEMMA PosUnique ==
  ASSUME NEW rows, NEW r, Ranked(rows, r), NEW x \in rows, NEW y \in rows,
         Pos(rows, r, x) = Pos(rows, r, y)
  PROVE  x = y
<1>1. r[x] \in Nat /\ r[y] \in Nat /\ (r[x] = r[y] => x = y)
  BY DEF Ranked
<1>2. Pos(rows, r, x) \in Nat
  BY PosType DEF Ranked
<1>3. ~(r[y] > r[x]) /\ ~(r[x] > r[y])
  BY <1>2, PosOrder
<1> QED
  BY <1>1, <1>3

LEMMA PosInsert ==
  ASSUME NEW rows, IsFiniteSet(rows), NEW r, NEW a, a \notin rows, NEW x
  PROVE  Pos(rows \cup {a}, r, x) = Pos(rows, r, x) + IF r[a] > r[x] THEN 1 ELSE 0
<1>1. IsFiniteSet(Before(rows, r, x)) /\ Pos(rows, r, x) \in Nat /\ a \notin Before(rows, r, x)
  BY PosType DEF Before
<1>2. CASE r[a] > r[x]
  <2>1. Before(rows \cup {a}, r, x) = Before(rows, r, x) \cup {a}
    BY <1>2 DEF Before
  <2>2. Cardinality(Before(rows, r, x) \cup {a}) = Cardinality(Before(rows, r, x)) + 1
    BY <1>1, FS_AddElement
  <2> QED
    BY <1>2, <2>1, <2>2 DEF Pos
<1>3. CASE ~(r[a] > r[x])
  <2>1. Before(rows \cup {a}, r, x) = Before(rows, r, x)
    BY <1>3 DEF Before
  <2> QED
    BY <1>1, <1>3, <2>1 DEF Pos
<1> QED
  BY <1>2, <1>3

Behind(rows, r, n) == {x \in rows : Pos(rows, r, x) >= n}

SameOrder(rows, r, s) == \A x, y \in rows : r[y] > r[x] <=> s[y] > s[x]

LEMMA PosSame ==
  ASSUME NEW rows, NEW r, NEW s, SameOrder(rows, r, s), NEW x \in rows
  PROVE  Pos(rows, r, x) = Pos(rows, s, x)
<1>1. Before(rows, r, x) = Before(rows, s, x)
  BY DEF Before, SameOrder
<1> QED
  BY <1>1 DEF Pos

\* The list begins with the rows of the lowest positions.
LEMMA BeginningIs ==
  ASSUME NEW rows, rows \subseteq Assessments, Ranked(rows, rank), NEW n \in Nat,
         NEW s \in Beginnings(rows, n)
  PROVE  /\ s \subseteq rows
         /\ \A x \in rows : x \in s <=> Pos(rows, rank, x) < n
         /\ Cardinality(rows \ s) = IF n < Cardinality(rows) THEN Cardinality(rows) - n ELSE 0
         /\ n <= Cardinality(rows) => Cardinality(s) = n
         /\ Cardinality(rows) \in Nat
<1>1. /\ IsFiniteSet(rows) /\ Cardinality(rows) \in Nat
      /\ \A x \in rows : rank[x] \in Nat
      /\ \A x, y \in rows : rank[x] = rank[y] => x = y
  BY FS_CardinalityType DEF Ranked
<1>2. /\ s \in SUBSET rows
      /\ Cardinality(s) = IF n < Cardinality(rows) THEN n ELSE Cardinality(rows)
      /\ \A x \in s, y \in rows \ s : ~Newer(y, x)
  BY DEF Beginnings
<1>3. IsFiniteSet(s) /\ Cardinality(s) \in Nat
  BY <1>1, <1>2, FS_Subset, FS_CardinalityType
<1>4. ASSUME NEW x \in s PROVE Pos(rows, rank, x) < n
  <2>1. Before(rows, rank, x) \in SUBSET (s \ {x})
    <3> SUFFICES ASSUME NEW y \in rows, rank[y] > rank[x]
                 PROVE  y \in s /\ y # x
      BY DEF Before
    <3>1. y \in Assessments /\ rank[y] \in Nat /\ x \in rows
      BY <1>1, <1>2
    <3>2. y # x
      BY <1>1, <3>1
    <3>3. Newer(y, x)
      BY <3>1 DEF Newer
    <3> QED
      BY <3>2, <3>3, <1>2
  <2>2. IsFiniteSet(s \ {x}) /\ Cardinality(s \ {x}) = Cardinality(s) - 1
    BY <1>3, FS_RemoveElement
  <2>3. Pos(rows, rank, x) <= Cardinality(s) - 1
    BY <2>1, <2>2, FS_Subset DEF Pos
  <2>4. Pos(rows, rank, x) \in Nat
    BY <1>1, PosType
  <2> QED
    BY <1>1, <1>2, <1>3, <2>3, <2>4
<1>5. ASSUME NEW x \in rows \ s PROVE ~(Pos(rows, rank, x) < n)
  <2>1. s \in SUBSET Before(rows, rank, x)
    <3> SUFFICES ASSUME NEW y \in s PROVE y \in Before(rows, rank, x)
      OBVIOUS
    <3>1. y \in rows /\ x \in Assessments /\ ~Newer(x, y) /\ y # x
      BY <1>2
    <3>2. ~(rank[x] > rank[y])
      BY <3>1 DEF Newer
    <3>3. rank[y] > rank[x]
      BY <1>1, <3>1, <3>2
    <3> QED
      BY <3>1, <3>3 DEF Before
  <2>2. Cardinality(s) <= Pos(rows, rank, x) /\ Pos(rows, rank, x) \in Nat
    BY <2>1, <1>1, PosType, FS_Subset DEF Pos
  <2>3. Cardinality(s) # Cardinality(rows)
    BY <1>1, <1>2, FS_Subset
  <2> QED
    BY <1>2, <2>2, <2>3
<1>6. s \subseteq rows /\ \A x \in rows : x \in s <=> Pos(rows, rank, x) < n
  BY <1>2, <1>4, <1>5
<1>7. Cardinality(rows \ s) = Cardinality(rows) - Cardinality(s)
  <2>1. rows \cap s = s
    BY <1>2
  <2> QED
    BY <2>1, <1>1, FS_Difference
<1>8. Cardinality(rows \ s) = IF n < Cardinality(rows) THEN Cardinality(rows) - n ELSE 0
  BY <1>1, <1>2, <1>7
<1>9. n <= Cardinality(rows) => Cardinality(s) = n
  BY <1>1, <1>2
<1> QED
  BY <1>1, <1>6, <1>8, <1>9

\* A page of the assessments is the rows at its positions, and what is behind it is
\* what the list is longer.
LEMMA PageIs ==
  ASSUME NEW rows, rows \subseteq Assessments, Ranked(rows, rank),
         NEW page \in Nat, NEW items \in Pages(rows, page)
  PROVE  /\ items \subseteq rows
         /\ \A x \in rows : x \in items <=> /\ Pos(rows, rank, x) >= Offset(page)
                                            /\ Pos(rows, rank, x) < Offset(page + 1)
         /\ Cardinality(Behind(rows, rank, Offset(page + 1)))
               = IF Offset(page + 1) < Cardinality(rows)
                 THEN Cardinality(rows) - Offset(page + 1) ELSE 0
         /\ items = {} => \A x \in rows : Pos(rows, rank, x) < Offset(page)
<1> DEFINE m == Offset(page)
<1>1. m \in Nat /\ Offset(page + 1) = m + Limit /\ Limit \in Nat \ {0}
  BY Offsets, ListingsAssumption
<1>2. PICK skipped \in Beginnings(rows, m) : items \in Beginnings(rows \ skipped, Limit)
  BY DEF Pages
<1> DEFINE rest == rows \ skipped
<1> HIDE DEF m
<1>3. /\ skipped \subseteq rows
      /\ \A x \in rows : x \in skipped <=> Pos(rows, rank, x) < m
      /\ Cardinality(rest) = IF m < Cardinality(rows) THEN Cardinality(rows) - m ELSE 0
      /\ m <= Cardinality(rows) => Cardinality(skipped) = m
      /\ Cardinality(rows) \in Nat
  BY <1>1, <1>2, BeginningIs
<1>4. rest \subseteq Assessments /\ Ranked(rest, rank)
  BY FS_Difference DEF Ranked
<1>5. /\ items \subseteq rest
      /\ \A x \in rest : x \in items <=> Pos(rest, rank, x) < Limit
      /\ Cardinality(rest \ items) =
            IF Limit < Cardinality(rest) THEN Cardinality(rest) - Limit ELSE 0
  <2>1. items \in Beginnings(rest, Limit) /\ Limit \in Nat
    BY <1>1, <1>2
  <2>2. rest \subseteq Assessments /\ Ranked(rest, rank)
    BY <1>4
  <2> HIDE DEF rest
  <2> QED
    BY <2>1, <2>2, BeginningIs
<1>6. ASSUME NEW x \in rest
      PROVE  /\ Pos(rows, rank, x) \in Nat /\ Pos(rest, rank, x) \in Nat
             /\ Pos(rows, rank, x) = m + Pos(rest, rank, x)
  <2>1. Pos(rows, rank, x) \in Nat /\ Pos(rest, rank, x) \in Nat
        /\ IsFiniteSet(Before(rest, rank, x)) /\ IsFiniteSet(skipped)
    BY <1>3, <1>4, PosType, FS_Subset DEF Ranked
  <2>2. m < Cardinality(rows)
    <3>1. rest # {} /\ IsFiniteSet(rest)
      BY <1>4 DEF Ranked
    <3>2. Cardinality(rest) # 0
      BY <3>1, FS_EmptySet
    <3> QED
      BY <3>2, <1>3
  <2>3. Cardinality(skipped) = m
    BY <1>1, <1>3, <2>2
  <2>4. Before(rows, rank, x) = skipped \cup Before(rest, rank, x)
    <3>1. \A y \in skipped : rank[y] > rank[x]
      <4> SUFFICES ASSUME NEW y \in skipped PROVE rank[y] > rank[x]
        OBVIOUS
      <4>1. /\ x \in rows /\ y \in rows /\ x # y
            /\ Pos(rows, rank, y) < m /\ ~(Pos(rows, rank, x) < m)
        BY <1>3
      <4>2. rank[x] \in Nat /\ rank[y] \in Nat /\ rank[x] # rank[y]
        BY <4>1 DEF Ranked
      <4>3. Pos(rows, rank, x) \in Nat /\ Pos(rows, rank, y) \in Nat
        BY PosType DEF Ranked
      <4>4. ~(rank[x] > rank[y])
        BY <1>1, <4>1, <4>3, PosOrder
      <4> QED
        BY <4>2, <4>4
    <3> QED
      BY <3>1, <1>3 DEF Before
  <2>5. skipped \cap Before(rest, rank, x) = {}
    BY DEF Before
  <2>6. Cardinality(skipped \cup Before(rest, rank, x))
           = Cardinality(skipped) + Cardinality(Before(rest, rank, x)) - Cardinality({})
    BY <2>1, <2>5, FS_Union
  <2>7. Cardinality({}) = 0
    BY FS_EmptySet
  <2> QED
    BY <1>1, <2>1, <2>3, <2>4, <2>6, <2>7 DEF Pos
<1>7. \A x \in rows : Pos(rows, rank, x) \in Nat
  BY PosType DEF Ranked
<1>8. ASSUME NEW x \in rows
      PROVE  /\ x \in items <=> /\ Pos(rows, rank, x) >= m
                                /\ Pos(rows, rank, x) < m + Limit
             /\ x \in rest \ items <=> Pos(rows, rank, x) >= m + Limit
  <2>1. x \in rest <=> ~(Pos(rows, rank, x) < m)
    BY <1>3
  <2>2. CASE x \in rest
    <3>1. x \in items <=> Pos(rest, rank, x) < Limit
      BY <2>2, <1>5
    <3> HIDE DEF rest
    <3> QED
      BY <1>1, <1>6, <2>1, <2>2, <3>1
  <2>3. CASE x \notin rest
    <3>1. x \notin items
      BY <2>3, <1>5
    <3> HIDE DEF rest
    <3> QED
      BY <1>1, <1>7, <2>1, <2>3, <3>1
  <2> QED
    BY <2>2, <2>3
<1>9. items \subseteq rows
  BY <1>5
<1>10. rest \ items = Behind(rows, rank, m + Limit)
  BY <1>8 DEF Behind
<1>11. Cardinality(rest \ items) = IF m + Limit < Cardinality(rows)
                                   THEN Cardinality(rows) - (m + Limit) ELSE 0
  BY <1>1, <1>3, <1>5
<1>12. ASSUME items = {}, NEW x \in rows PROVE Pos(rows, rank, x) < m
  <2>1. Cardinality(rest \ items) = Cardinality(rest)
    BY <1>12
  <2>2. Cardinality(rest) \in Nat
    BY <1>4, FS_CardinalityType DEF Ranked
  <2>3. Cardinality(rest) = 0
    BY <1>1, <1>5, <2>1, <2>2
  <2>4. rest = {}
    BY <1>4, <2>3, FS_EmptySet DEF Ranked
  <2> QED
    BY <2>4, <1>3
<1> QED
  BY <1>1, <1>8, <1>9, <1>10, <1>11, <1>12 DEF m

-----------------------------------------------------------------------------
(* Ranks tell the assessments apart, and a deletion leaves their order alone.  *)

RankInv ==
    /\ live \subseteq Begun
    /\ \A a \in Begun : rank[a] <= Cardinality(Begun)
    /\ \A x, y \in Begun : rank[x] = rank[y] => x = y

\* An assessment that is forgotten makes those behind it move up.
LEMMA Forgotten ==
  ASSUME TypeInv, RankInv, NEW a \in Begun, Forget(a)
  PROVE  /\ Begun' = Begun \ {a}
         /\ \A x, y \in Begun \ {a} : rank'[y] > rank'[x] <=> rank[y] > rank[x]
         /\ \A b \in Begun' : rank'[b] <= Cardinality(Begun')
         /\ \A x, y \in Begun' : rank'[x] = rank'[y] => x = y
<1> DEFINE n == Cardinality(Begun)
<1>1. /\ n \in Nat /\ IsFiniteSet(Begun)
      /\ \A b \in Begun : b \in Assessments /\ rank[b] \in Nat \ {0} /\ rank[b] <= n
      /\ \A b \in Assessments : b \notin Begun => rank[b] = 0
      /\ \A x, y \in Begun : rank[x] = rank[y] => x = y
  <2>1. IsFiniteSet(Begun)
    BY ListingsAssumption, FS_Subset DEF Begun
  <2> QED
    BY <2>1, BegunIsFinite DEF TypeInv, TypeOK, RankInv, Begun
<1>2. \A b \in Assessments :
         rank'[b] = IF b = a THEN 0 ELSE IF rank[b] > rank[a] THEN rank[b] - 1 ELSE rank[b]
  BY DEF Forget
<1>3. ASSUME NEW b \in Begun, b # a
      PROVE  /\ rank'[b] \in Nat \ {0} /\ rank'[b] <= n - 1
             /\ rank[b] > rank[a] => rank'[b] = rank[b] - 1
             /\ rank[b] < rank[a] => rank'[b] = rank[b]
             /\ rank[b] > rank[a] \/ rank[b] < rank[a]
  <2>1. /\ rank[b] \in Nat \ {0} /\ rank[a] \in Nat \ {0} /\ rank[a] <= n /\ rank[b] <= n
        /\ rank[a] # rank[b]
    BY <1>1, <1>3
  <2>2. rank'[b] = IF rank[b] > rank[a] THEN rank[b] - 1 ELSE rank[b]
    BY <1>1, <1>2, <1>3
  <2> HIDE DEF n
  <2> QED
    BY <1>1, <2>1, <2>2
<1>4. Begun' = Begun \ {a}
  <2>1. ASSUME NEW b \in Assessments PROVE rank'[b] # 0 <=> b \in Begun \ {a}
    <3>1. CASE b = a
      BY <3>1, <1>2
    <3>2. CASE b # a /\ b \in Begun
      BY <3>2, <1>3
    <3>3. CASE b # a /\ b \notin Begun
      <4>1. rank[b] = 0 /\ rank[a] \in Nat
        BY <3>3, <1>1
      <4> QED
        BY <4>1, <3>3, <1>2
    <3> QED
      BY <3>1, <3>2, <3>3
  <2> QED
    BY <2>1 DEF Begun
<1>5. Cardinality(Begun') = n - 1
  BY <1>1, <1>4, FS_RemoveElement
<1>6. ASSUME NEW x \in Begun \ {a}, NEW y \in Begun \ {a}
      PROVE  /\ rank'[y] > rank'[x] <=> rank[y] > rank[x]
             /\ rank'[x] = rank'[y] => x = y
  <2>1. rank[x] \in Nat /\ rank[y] \in Nat /\ rank[a] \in Nat /\ (rank[x] = rank[y] => x = y)
    BY <1>1
  <2>2. /\ rank[x] > rank[a] => rank'[x] = rank[x] - 1
        /\ rank[x] < rank[a] => rank'[x] = rank[x]
        /\ rank[x] > rank[a] \/ rank[x] < rank[a]
    BY <1>3
  <2>3. /\ rank[y] > rank[a] => rank'[y] = rank[y] - 1
        /\ rank[y] < rank[a] => rank'[y] = rank[y]
        /\ rank[y] > rank[a] \/ rank[y] < rank[a]
    BY <1>3
  <2> QED
    BY <2>1, <2>2, <2>3
<1>7. \A b \in Begun' : rank'[b] <= Cardinality(Begun')
  BY <1>3, <1>4, <1>5
<1> QED
  BY <1>4, <1>6, <1>7

LEMMA RankStep == TypeInv /\ RankInv /\ [Next]_vars => RankInv'
<1> SUFFICES ASSUME TypeInv, RankInv, [Next]_vars
             PROVE  RankInv'
  OBVIOUS
<1>1. CASE UNCHANGED <<rank, live>>
  BY <1>1 DEF RankInv, Begun
<1>2. ASSUME NEW a \in Assessments, BeginImport(a) PROVE RankInv'
  <2> DEFINE n == Cardinality(Begun)
  <2>1. n \in Nat /\ IsFiniteSet(Begun) /\ a \notin Begun /\ live' = live
        /\ rank' = [rank EXCEPT ![a] = n + 1] /\ rank \in [Assessments -> Nat]
    <3>1. IsFiniteSet(Begun)
      BY ListingsAssumption, FS_Subset DEF Begun
    <3> QED
      BY <1>2, <3>1, BegunIsFinite DEF BeginImport, TypeInv, TypeOK
  <2>2. rank'[a] = n + 1 /\ n + 1 # 0 /\ \A b \in Assessments : b # a => rank'[b] = rank[b]
    BY <2>1
  <2>3. Begun' = Begun \cup {a}
    BY <2>2 DEF Begun
  <2>4. Cardinality(Begun') = n + 1
    BY <2>1, <2>3, FS_AddElement
  <2>5. \A b \in Begun : b # a /\ b \in Assessments /\ rank[b] <= n /\ rank[b] \in Nat
    BY <2>1 DEF RankInv, Begun
  <2> HIDE DEF n
  <2>6. \A b \in Begun' : rank'[b] <= n + 1
    BY <2>1, <2>2, <2>3, <2>5
  <2>7. \A x, y \in Begun' : rank'[x] = rank'[y] => x = y
    <3> SUFFICES ASSUME NEW x \in Begun', NEW y \in Begun', rank'[x] = rank'[y] PROVE x = y
      OBVIOUS
    <3>1. \A b \in Begun : rank'[b] = rank[b] /\ rank[b] # n + 1
      BY <2>1, <2>2, <2>5
    <3>2. CASE x = a \/ y = a
      BY <3>1, <3>2, <2>2, <2>3
    <3>3. CASE x # a /\ y # a
      BY <3>1, <3>3, <2>3 DEF RankInv
    <3> QED
      BY <3>2, <3>3
  <2> QED
    BY <2>1, <2>3, <2>4, <2>6, <2>7 DEF RankInv
<1>3. ASSUME NEW a \in Assessments, CommitImport(a) PROVE RankInv'
  <2>1. UNCHANGED rank /\ live' = live \cup {a} /\ a \in Begun
    BY <1>3 DEF CommitImport, Change
  <2> QED
    BY <2>1 DEF RankInv, Begun
<1>4. ASSUME NEW a \in Assessments, AbortImport(a) PROVE RankInv'
  <2>1. a \in Begun \ live /\ Forget(a) /\ live' = live
    BY <1>4 DEF AbortImport
  <2> QED
    BY <2>1, Forgotten DEF RankInv
<1>5. ASSUME NEW a \in Assessments, Delete(a) PROVE RankInv'
  <2>1. live' = live \ {a}
    BY <1>5 DEF Delete, Change
  <2>2. CASE a \in live
    <3>1. a \in Begun /\ Forget(a)
      BY <1>5, <2>2 DEF Delete, RankInv
    <3> QED
      BY <2>1, <3>1, Forgotten DEF RankInv
  <2>3. CASE a \notin live
    <3>1. UNCHANGED rank
      BY <1>5, <2>3 DEF Delete
    <3> QED
      BY <2>1, <3>1 DEF RankInv, Begun
  <2> QED
    BY <2>2, <2>3
<1>6. CASE ReaderStep
  BY <1>1, <1>6, ReaderType
<1>7. CASE TableStep
  <2>1. ASSUME NEW a \in Assessments, FindForDelete(a) PROVE RankInv'
    BY <1>1, <2>1 DEF FindForDelete
  <2> QED
    BY <1>2, <1>3, <1>4, <1>5, <1>7, <2>1 DEF TableStep
<1> QED
  BY <1>1, <1>6, <1>7, NextSplits DEF vars

\* What a change of the tables does to the reader's list, exactly.
Rows == Selected(reader, live, filled)

LEMMA ChangeReader ==
  ASSUME TypeInv, Change(live', filled'), Reading, Rows # Rows',
         Rows' = Selected(reader, live', filled')
  PROVE  /\ reader'.present = reader.present \cap Rows'
         /\ reader'.left = reader.left + Cardinality(Rows \ Rows')
         /\ reader'.entered = reader.entered + Cardinality(Rows' \ Rows)
         /\ reader'.squeezed = IF reader.at = "rows"
                               THEN reader.squeezed + Cardinality(Rows' \ Rows)
                               ELSE reader.squeezed
<1> DEFINE after == Selected(reader, live', filled')
           p == reader.present \cap after
           came == Cardinality(after \ Rows)
           went == Cardinality(Rows \ after)
           q == IF reader.at = "rows" THEN reader.squeezed + came ELSE reader.squeezed
<1>1. reader' = [reader EXCEPT !.present = p, !.left = reader.left + went,
                    !.entered = reader.entered + came, !.squeezed = q]
  BY DEF Change, Rows
<1>2. reader \in Readers
  BY DEF TypeInv, TypeOK
<1>3. Rows' = after
  OBVIOUS
<1> HIDE DEF p, came, went, q
<1>4. /\ reader'.present = p /\ reader'.left = reader.left + went
      /\ reader'.entered = reader.entered + came /\ reader'.squeezed = q
  BY <1>1, <1>2 DEF Readers
<1> HIDE DEF after
<1> QED
  BY <1>3, <1>4 DEF p, came, went, q

LEMMA OneRow ==
  ASSUME NEW a, NEW rows, a \notin rows
  PROVE  /\ (rows \cup {a}) \ rows = {a} /\ rows \ (rows \cup {a}) = {}
         /\ rows # rows \cup {a}
         /\ Cardinality({a}) = 1 /\ Cardinality({}) = 0
BY FS_Singleton, FS_EmptySet

\* The list of the assessments, as a step of the tables changes it: it stays in its
\* order, gets one more or loses one.
Listing == reader.what = "assessments" /\ reader.at \in {"count", "rows", "shown"}

ListStays == UNCHANGED <<Rows, reader>> /\ SameOrder(Rows, rank, rank')

ListGrows ==
    \E a \in Assessments \ Rows :
        /\ Rows' = Rows \cup {a} /\ UNCHANGED rank
        /\ reader'.present = reader.present \cap Rows'
        /\ reader'.left = reader.left /\ reader'.entered = reader.entered + 1
        /\ reader'.squeezed = IF reader.at = "rows" THEN reader.squeezed + 1
                              ELSE reader.squeezed

ListShrinks ==
    \E a \in Rows :
        /\ Rows' = Rows \ {a} /\ SameOrder(Rows', rank, rank')
        /\ reader'.present = reader.present \cap Rows'
        /\ reader'.left = reader.left + 1 /\ reader'.entered = reader.entered
        /\ reader'.squeezed = reader.squeezed

LEMMA ListIs ==
  ASSUME NEW r, r.what = "assessments", NEW A, NEW F
  PROVE  Selected(r, A, F) = AssessmentRows(A, r.label)
BY DEF Selected, Kinds

LEMMA ListRanked ==
  ASSUME TypeInv, RankInv, reader.what = "assessments"
  PROVE  /\ Rows \subseteq live /\ Rows \subseteq Assessments /\ Ranked(Rows, rank)
         /\ Cardinality(Rows) \in Nat
<1>1. Rows \subseteq live /\ live \subseteq Assessments /\ live \subseteq Begun
  BY ListIs DEF Rows, AssessmentRows, TypeInv, TypeOK, RankInv
<1>2. IsFiniteSet(Rows)
  BY <1>1, ListingsAssumption, FS_Subset
<1>3. \A x \in Rows : rank[x] \in Nat
  BY <1>1 DEF TypeInv, TypeOK
<1>4. \A x, y \in Rows : rank[x] = rank[y] => x = y
  BY <1>1 DEF RankInv
<1> QED
  BY <1>1, <1>2, <1>3, <1>4, FS_CardinalityType DEF Ranked

LEMMA ListChanges ==
  ASSUME TypeInv, RankInv, Listing, TableStep
  PROVE  /\ ListStays \/ ListGrows \/ ListShrinks
         /\ reader'.at = reader.at /\ reader'.what = reader.what
         /\ reader'.label = reader.label /\ reader'.page = reader.page
         /\ reader'.counted = reader.counted /\ reader'.items = reader.items
         /\ reader'.seen = reader.seen /\ reader'.repeats = reader.repeats
<1>1. /\ live \in SUBSET Assessments /\ live = filled /\ live \subseteq Begun
      /\ reader \in Readers /\ rank \in [Assessments -> Nat] /\ Reading
      /\ reader.left \in Nat /\ reader.entered \in Nat /\ reader.squeezed \in Nat
  BY DEF TypeInv, TypeOK, RankInv, Readers, Listing, Reading
<1>2. Rows \subseteq live
  BY ListRanked DEF Listing
<1>3. /\ reader'.at = reader.at /\ reader'.what = reader.what
      /\ reader'.label = reader.label /\ reader'.page = reader.page
      /\ reader'.counted = reader.counted /\ reader'.items = reader.items
      /\ reader'.seen = reader.seen /\ reader'.repeats = reader.repeats
  <2>1. CASE UNCHANGED <<live, filled, reader>>
    BY <2>1
  <2>2. CASE Change(live', filled')
    BY <2>2, TableChanges, ChangeType
  <2> QED
    BY <2>1, <2>2, TableChanges
<1>4. Rows' = Selected(reader, live', filled')
  BY <1>3, ListIs DEF Rows, Listing
<1>5. PICK a \in Assessments : \/ BeginImport(a) \/ CommitImport(a) \/ AbortImport(a)
                               \/ FindForDelete(a) \/ Delete(a)
  BY DEF TableStep
<1>6. CASE BeginImport(a)
  <2>1. a \notin Begun /\ UNCHANGED <<live, filled, reader>>
        /\ \A b \in Assessments : b # a => rank'[b] = rank[b]
    BY <1>1, <1>6 DEF BeginImport
  <2>2. \A b \in Rows : b \in Assessments /\ b # a
    BY <1>1, <1>2, <2>1
  <2>3. SameOrder(Rows, rank, rank')
    BY <2>1, <2>2 DEF SameOrder
  <2>4. UNCHANGED Rows
    BY <2>1 DEF Rows
  <2> QED
    BY <1>3, <2>1, <2>3, <2>4 DEF ListStays
<1>7. CASE AbortImport(a)
  <2>1. a \in Begun \ live /\ UNCHANGED <<live, filled, reader>> /\ Forget(a)
    BY <1>7 DEF AbortImport
  <2>2. \A x, y \in Begun \ {a} : rank'[y] > rank'[x] <=> rank[y] > rank[x]
    BY <2>1, Forgotten
  <2>3. Rows \subseteq Begun \ {a}
    BY <1>1, <1>2, <2>1
  <2>4. SameOrder(Rows, rank, rank')
    BY <2>2, <2>3 DEF SameOrder
  <2>5. UNCHANGED Rows
    BY <2>1 DEF Rows
  <2> QED
    BY <1>3, <2>1, <2>4, <2>5 DEF ListStays
<1>8. CASE FindForDelete(a)
  <2>1. UNCHANGED <<rank, live, filled, reader>>
    BY <1>8 DEF FindForDelete
  <2> QED
    BY <1>3, <2>1 DEF ListStays, Rows, SameOrder
<1>9. CASE CommitImport(a)
  <2>1. /\ a \notin live /\ Change(live \cup {a}, filled \cup {a}) /\ UNCHANGED rank
        /\ live' = live \cup {a} /\ filled' = filled \cup {a}
    BY <1>9 DEF CommitImport, Change
  <2>2. CASE reader.label = "any"
    <3>1. Rows = live /\ Rows' = Rows \cup {a} /\ a \notin Rows
      BY <1>4, <2>1, <2>2, ListIs DEF Rows, AssessmentRows, Listing
    <3>2. /\ reader'.present = reader.present \cap Rows'
          /\ reader'.left = reader.left + Cardinality(Rows \ Rows')
          /\ reader'.entered = reader.entered + Cardinality(Rows' \ Rows)
          /\ reader'.squeezed = IF reader.at = "rows"
                                THEN reader.squeezed + Cardinality(Rows' \ Rows)
                                ELSE reader.squeezed
      <4>1. Rows # Rows'
        BY <3>1, OneRow
      <4>2. Change(live', filled')
        BY <2>1
      <4> QED
        BY <1>1, <1>4, <4>1, <4>2, ChangeReader
    <3>3. Cardinality(Rows' \ Rows) = 1 /\ Cardinality(Rows \ Rows') = 0
      BY <3>1, OneRow
    <3>4. ListGrows
      BY <1>1, <2>1, <3>1, <3>2, <3>3 DEF ListGrows
    <3> QED
      BY <1>3, <3>4
  <2>3. CASE reader.label # "any"
    <3>1. Rows = {} /\ Rows' = {}
      BY <1>4, <2>3, ListIs DEF Rows, AssessmentRows, Listing
    <3>2. UNCHANGED reader
      BY <1>4, <2>1, <3>1 DEF Change, Rows
    <3> QED
      BY <1>3, <3>1, <3>2 DEF ListStays, SameOrder
  <2> QED
    BY <2>2, <2>3
<1>10. CASE Delete(a)
  <2>1. /\ Change(live \ {a}, live \ {a})
        /\ a \in live => Forget(a)
        /\ a \notin live => UNCHANGED rank
    BY <1>1, <1>10 DEF Delete
  <2>2. live' = live \ {a} /\ filled' = live \ {a}
    BY <2>1 DEF Change
  <2>3. CASE reader.label = "any" /\ a \in live
    <3>1. Rows = live /\ Rows' = Rows \ {a} /\ a \in Rows
      BY <1>4, <2>2, <2>3, ListIs DEF Rows, AssessmentRows, Listing
    <3>2. Rows = Rows' \cup {a} /\ a \notin Rows'
      BY <3>1
    <3>3. /\ reader'.present = reader.present \cap Rows'
          /\ reader'.left = reader.left + Cardinality(Rows \ Rows')
          /\ reader'.entered = reader.entered + Cardinality(Rows' \ Rows)
          /\ reader'.squeezed = IF reader.at = "rows"
                                THEN reader.squeezed + Cardinality(Rows' \ Rows)
                                ELSE reader.squeezed
      <4>1. Rows # Rows'
        BY <3>1
      <4>2. Change(live', filled')
        BY <2>1, <2>2
      <4> QED
        BY <1>1, <1>4, <4>1, <4>2, ChangeReader
    <3>4. Cardinality(Rows' \ Rows) = 0 /\ Cardinality(Rows \ Rows') = 1
      BY <3>2, OneRow
    <3>5. SameOrder(Rows', rank, rank')
      <4>1. Rows' \subseteq Begun \ {a} /\ a \in Begun
        BY <1>1, <1>2, <3>1
      <4>2. \A x, y \in Begun \ {a} : rank'[y] > rank'[x] <=> rank[y] > rank[x]
        BY <2>1, <2>3, <4>1, Forgotten
      <4> QED
        BY <4>1, <4>2 DEF SameOrder
    <3>6. ListShrinks
      BY <1>1, <3>1, <3>3, <3>4, <3>5 DEF ListShrinks
    <3> QED
      BY <1>3, <3>6
  <2>4. CASE ~(reader.label = "any" /\ a \in live)
    <3>1. UNCHANGED Rows
      <4>1. Rows = AssessmentRows(live, reader.label) /\ Rows' = AssessmentRows(live', reader.label)
        BY <1>4, ListIs DEF Rows, Listing
      <4> QED
        BY <4>1, <2>2, <2>4 DEF AssessmentRows
    <3>2. UNCHANGED reader
      BY <1>4, <2>1, <2>2, <3>1 DEF Change, Rows
    <3>3. SameOrder(Rows, rank, rank')
      <4>1. CASE a \in live
        <5>1. Rows = {}
          BY <2>4, <4>1, ListIs DEF Rows, AssessmentRows, Listing
        <5> QED
          BY <5>1 DEF SameOrder
      <4>2. CASE a \notin live
        BY <2>1, <4>2 DEF SameOrder
      <4> QED
        BY <4>1, <4>2
    <3> QED
      BY <1>3, <3>1, <3>2, <3>3 DEF ListStays
  <2> QED
    BY <2>3, <2>4
<1> QED
  BY <1>5, <1>6, <1>7, <1>8, <1>9, <1>10

-----------------------------------------------------------------------------
(* What one row more or less does to the rows behind a position.               *)

LEMMA BehindType ==
  ASSUME NEW rows, IsFiniteSet(rows), NEW r, NEW n
  PROVE  /\ Behind(rows, r, n) \in SUBSET rows
         /\ IsFiniteSet(Behind(rows, r, n)) /\ Cardinality(Behind(rows, r, n)) \in Nat
<1>1. Behind(rows, r, n) \in SUBSET rows
  BY DEF Behind
<1> QED
  BY <1>1, FS_Subset, FS_CardinalityType

\* A set that has at most one element more is at most by one greater.
LEMMA OneMore ==
  ASSUME NEW A, NEW B, IsFiniteSet(A),
         \A x, y \in B \ A : x = y
  PROVE  Cardinality(B) <= Cardinality(A) + 1 /\ Cardinality(A) \in Nat
<1>1. Cardinality(A) \in Nat
  BY FS_CardinalityType
<1>2. CASE B \subseteq A
  <2>1. Cardinality(B) <= Cardinality(A) /\ Cardinality(B) \in Nat
    BY <1>2, FS_Subset, FS_CardinalityType
  <2> QED
    BY <1>1, <2>1
<1>3. CASE ~(B \subseteq A)
  <2>1. PICK z \in B : z \notin A
    BY <1>3
  <2>2. B \in SUBSET (A \cup {z})
    BY <2>1
  <2>3. IsFiniteSet(A \cup {z}) /\ Cardinality(A \cup {z}) = Cardinality(A) + 1
    BY <2>1, FS_AddElement
  <2>4. Cardinality(B) <= Cardinality(A \cup {z})
    BY <2>2, <2>3, FS_Subset
  <2> QED
    BY <1>1, <2>3, <2>4
<1> QED
  BY <1>2, <1>3

\* A row that comes pushes at most one other behind a position, unless it comes
\* behind it itself.
LEMMA BehindGrows ==
  ASSUME NEW rows, NEW r, NEW a, a \notin rows, Ranked(rows \cup {a}, r), NEW n \in Nat,
         NEW x \in Behind(rows \cup {a}, r, n) \ Behind(rows, r, n),
         NEW y \in Behind(rows \cup {a}, r, n) \ Behind(rows, r, n)
  PROVE  x = y
<1> DEFINE more == rows \cup {a}
<1>1. IsFiniteSet(rows)
  BY FS_Subset DEF Ranked
<1>2. /\ r[a] \in Nat
      /\ \A z \in more : /\ r[z] \in Nat
                         /\ Pos(more, r, z) \in Nat /\ Pos(rows, r, z) \in Nat
                         /\ Pos(more, r, z) = Pos(rows, r, z)
                                                + IF r[a] > r[z] THEN 1 ELSE 0
  BY <1>1, PosType, PosInsert DEF Ranked
<1>3. ASSUME NEW z \in Behind(more, r, n) \ Behind(rows, r, n)
      PROVE  /\ z \in more /\ Pos(more, r, z) >= n
             /\ z # a => Pos(more, r, z) = n /\ r[a] > r[z]
  <2>1. z \in more /\ Pos(more, r, z) >= n
    BY DEF Behind
  <2>2. ASSUME z # a PROVE ~(Pos(rows, r, z) >= n)
    BY <2>1, <2>2 DEF Behind
  <2>3. Pos(more, r, z) \in Nat /\ Pos(rows, r, z) \in Nat
        /\ Pos(more, r, z) = Pos(rows, r, z) + IF r[a] > r[z] THEN 1 ELSE 0
    BY <1>2, <2>1
  <2> HIDE DEF more
  <2> QED
    BY <2>1, <2>2, <2>3
<1>4. \A z \in more : r[a] > r[z] => Pos(more, r, a) < Pos(more, r, z)
  <2>1. a \in more /\ Ranked(more, r)
    OBVIOUS
  <2> HIDE DEF more
  <2> QED
    BY <2>1, PosOrder
<1>5. \A z, w \in more : Pos(more, r, z) = Pos(more, r, w) => z = w
  <2>1. Ranked(more, r)
    OBVIOUS
  <2> HIDE DEF more
  <2> QED
    BY <2>1, PosUnique
<1>6. /\ x \in more /\ Pos(more, r, x) >= n
      /\ x # a => Pos(more, r, x) = n /\ r[a] > r[x]
  BY <1>3
<1>7. /\ y \in more /\ Pos(more, r, y) >= n
      /\ y # a => Pos(more, r, y) = n /\ r[a] > r[y]
  BY <1>3
<1>8. a \in more
  OBVIOUS
<1> HIDE DEF more
<1>9. CASE x = a
  <2>1. y # a => Pos(more, r, a) < n
    BY <1>4, <1>7
  <2>2. ~(Pos(more, r, a) < n)
    BY <1>2, <1>6, <1>8, <1>9
  <2> QED
    BY <1>9, <2>1, <2>2
<1>10. CASE y = a
  <2>1. x # a => Pos(more, r, a) < n
    BY <1>4, <1>6
  <2>2. ~(Pos(more, r, a) < n)
    BY <1>2, <1>7, <1>8, <1>10
  <2> QED
    BY <1>10, <2>1, <2>2
<1>11. CASE x # a /\ y # a
  BY <1>5, <1>6, <1>7, <1>11
<1> QED
  BY <1>9, <1>10, <1>11

LEMMA BehindKept ==
  ASSUME NEW rows, IsFiniteSet(rows), NEW r, NEW a, a \notin rows, NEW n \in Nat
  PROVE  Behind(rows, r, n) \subseteq Behind(rows \cup {a}, r, n)
<1> SUFFICES ASSUME NEW x \in rows, Pos(rows, r, x) >= n
             PROVE  Pos(rows \cup {a}, r, x) >= n
  BY DEF Behind
<1>1. Pos(rows \cup {a}, r, x) = Pos(rows, r, x) + IF r[a] > r[x] THEN 1 ELSE 0
  BY PosInsert
<1>2. Pos(rows, r, x) \in Nat
  BY PosType
<1> QED
  BY <1>1, <1>2

\* A row that goes lets at most one other move up in front of a position, and none
\* fall behind it.
LEMMA BehindShrinks ==
  ASSUME NEW rows, NEW r, Ranked(rows, r), NEW a \in rows, NEW n \in Nat
  PROVE  /\ Behind(rows \ {a}, r, n) \subseteq Behind(rows, r, n)
         /\ \A x \in rows \ {a}, y \in rows \ {a} :
               /\ x \in Behind(rows, r, n) \ Behind(rows \ {a}, r, n)
               /\ y \in Behind(rows, r, n) \ Behind(rows \ {a}, r, n)
               => x = y
<1> DEFINE rest == rows \ {a}
<1>1. IsFiniteSet(rest) /\ rows = rest \cup {a} /\ a \notin rest
  BY FS_RemoveElement DEF Ranked
<1>2. \A z \in rest : /\ Pos(rows, r, z) \in Nat /\ Pos(rest, r, z) \in Nat
                      /\ Pos(rows, r, z) = Pos(rest, r, z) + IF r[a] > r[z] THEN 1 ELSE 0
  <2> HIDE DEF rest
  <2>1. \A z : Pos(rest \cup {a}, r, z) = Pos(rest, r, z) + IF r[a] > r[z] THEN 1 ELSE 0
    BY <1>1, PosInsert
  <2>2. \A z : Pos(rows, r, z) \in Nat /\ Pos(rest, r, z) \in Nat
    BY <1>1, PosType DEF Ranked
  <2> QED
    BY <1>1, <2>1, <2>2
<1>3. Behind(rest, r, n) \subseteq Behind(rows, r, n)
  <2> SUFFICES ASSUME NEW z \in rest, Pos(rest, r, z) >= n PROVE Pos(rows, r, z) >= n
    BY DEF Behind
  <2> HIDE DEF rest
  <2> QED
    BY <1>2
<1>4. ASSUME NEW z \in rest, z \in Behind(rows, r, n) \ Behind(rest, r, n)
      PROVE  Pos(rows, r, z) = n
  <2>1. Pos(rows, r, z) >= n /\ ~(Pos(rest, r, z) >= n)
    BY <1>4 DEF Behind
  <2> HIDE DEF rest
  <2> QED
    BY <1>2, <1>4, <2>1
<1>5. \A z, w \in rows : Pos(rows, r, z) = Pos(rows, r, w) => z = w
  BY PosUnique
<1>6. \A x, y \in rest : /\ x \in Behind(rows, r, n) \ Behind(rest, r, n)
                         /\ y \in Behind(rows, r, n) \ Behind(rest, r, n)
                         => x = y
  <2> SUFFICES ASSUME NEW x \in rest, x \in Behind(rows, r, n) \ Behind(rest, r, n),
                      NEW y \in rest, y \in Behind(rows, r, n) \ Behind(rest, r, n)
               PROVE  x = y
    OBVIOUS
  <2>1. Pos(rows, r, x) = n /\ Pos(rows, r, y) = n
    BY <1>4
  <2> QED
    BY <1>5, <2>1
<1> QED
  BY <1>3, <1>6

LEMMA BehindSame ==
  ASSUME NEW rows, NEW r, NEW s, SameOrder(rows, r, s), NEW n
  PROVE  Behind(rows, r, n) = Behind(rows, s, n)
<1>1. \A x \in rows : Pos(rows, r, x) = Pos(rows, s, x)
  BY PosSame
<1> QED
  BY <1>1 DEF Behind

-----------------------------------------------------------------------------
(* Reading the list of the assessments to its end.                             *)

\* The position up to which the pages have been read.
Front == IF reader.at = "shown" THEN Offset(reader.page + 1) ELSE Offset(reader.page)

\* Rows that were read and will come again, and rows that have not been and will not.
Ahead == reader.seen \cap Behind(Rows, rank, Front)
Passed == Missed \ Behind(Rows, rank, Front)

\* An import makes at most one row come again, a deletion at most one be passed
\* over; and what is behind the last page was not counted.
ListInv ==
    /\ reader.at = "idle" => reader = Idle
    /\ reader.what = "assessments" => reader.at \in {"idle", "count", "rows", "shown"}
    /\ Listing =>
          /\ reader.present \subseteq Rows
          /\ reader.repeats + Cardinality(Ahead) <= reader.entered
          /\ Cardinality(Passed) <= reader.left
          /\ reader.at = "rows" =>
                Cardinality(Rows) <= Cardinality(reader.counted["assessments"])
                                        + reader.squeezed
          /\ reader.at = "shown" /\ ~HasNext(reader) =>
                Cardinality(Missed) <= reader.left + reader.squeezed

LEMMA ListType ==
  ASSUME TypeInv, RankInv, Listing
  PROVE  /\ reader \in Readers /\ reader.page \in Nat
         /\ reader.repeats \in Nat /\ reader.left \in Nat
         /\ reader.entered \in Nat /\ reader.squeezed \in Nat
         /\ reader.counted \in [Lists \cup {"severities"} -> SUBSET Row]
         /\ IsFiniteSet(reader.counted["assessments"])
         /\ Cardinality(reader.counted["assessments"]) \in Nat
         /\ Offset(reader.page) \in Nat /\ Front \in Nat
         /\ Offset(reader.page + 1) = Offset(reader.page) + Limit
         /\ Limit \in Nat \ {0} /\ Offset(reader.page + 1) \in Nat
         /\ IsFiniteSet(Rows) /\ Cardinality(Rows) \in Nat
         /\ Rows \subseteq Assessments /\ Ranked(Rows, rank)
         /\ IsFiniteSet(Missed) /\ Cardinality(Missed) \in Nat
         /\ IsFiniteSet(Passed) /\ Cardinality(Passed) \in Nat
         /\ IsFiniteSet(Ahead) /\ Cardinality(Ahead) \in Nat
<1>1. /\ reader \in Readers /\ reader.page \in Nat
      /\ reader.repeats \in Nat /\ reader.left \in Nat
      /\ reader.entered \in Nat /\ reader.squeezed \in Nat
      /\ reader.counted \in [Lists \cup {"severities"} -> SUBSET Row]
      /\ reader.present \in SUBSET Row
  BY DEF TypeInv, TypeOK, Readers
<1>2. reader.counted["assessments"] \in SUBSET Row
  BY <1>1 DEF Lists
<1>3. /\ IsFiniteSet(reader.counted["assessments"])
      /\ Cardinality(reader.counted["assessments"]) \in Nat
  BY <1>2, FiniteRows, FS_Subset, FS_CardinalityType
<1>4. /\ Offset(reader.page) \in Nat /\ Offset(reader.page + 1) = Offset(reader.page) + Limit
      /\ Limit \in Nat \ {0}
  BY <1>1, Offsets, ListingsAssumption
<1>5. Offset(reader.page + 1) \in Nat
  BY <1>4
<1>6. Front \in Nat
  BY <1>4, <1>5 DEF Front
<1>7. Rows \subseteq Assessments /\ Ranked(Rows, rank) /\ Cardinality(Rows) \in Nat
      /\ IsFiniteSet(Rows)
  BY ListRanked DEF Listing, Ranked
<1>8. Missed \in SUBSET Row /\ Passed \in SUBSET Row /\ Ahead \in SUBSET Rows
  BY <1>1 DEF Missed, Passed, Ahead, Behind
<1>9. /\ IsFiniteSet(Missed) /\ Cardinality(Missed) \in Nat
      /\ IsFiniteSet(Passed) /\ Cardinality(Passed) \in Nat
      /\ IsFiniteSet(Ahead) /\ Cardinality(Ahead) \in Nat
  BY <1>7, <1>8, FiniteRows, FS_Subset, FS_CardinalityType
<1> QED
  BY <1>1, <1>3, <1>4, <1>5, <1>6, <1>7, <1>9

\* What a step of the tables does to the counts, for each kind of step.
LEMMA ListTable == TypeInv /\ RankInv /\ ListInv /\ TableStep => ListInv'
<1> SUFFICES ASSUME TypeInv, RankInv, ListInv, TableStep
             PROVE  ListInv'
  OBVIOUS
<1>1. /\ reader'.at = reader.at /\ reader'.what = reader.what
      /\ ~Reading => UNCHANGED reader
  <2>1. live' \in SUBSET Assessments
    BY TableChanges
  <2>2. CASE UNCHANGED <<live, filled, reader>>
    BY <2>2
  <2>3. CASE Change(live', filled')
    BY <2>1, <2>3, ChangeType
  <2> QED
    BY <2>2, <2>3, TableChanges
<1>2. /\ reader'.at = "idle" => reader' = Idle
      /\ reader'.what = "assessments" => reader'.at \in {"idle", "count", "rows", "shown"}
  BY <1>1 DEF ListInv, Reading, Idle, Kinds
<1>3. CASE ~Listing
  BY <1>1, <1>2, <1>3 DEF ListInv, Listing
<1>4. CASE Listing
  <2>1. /\ reader.present \subseteq Rows
        /\ reader.repeats + Cardinality(Ahead) <= reader.entered
        /\ Cardinality(Passed) <= reader.left
        /\ reader.at = "rows" =>
              Cardinality(Rows) <= Cardinality(reader.counted["assessments"])
                                      + reader.squeezed
        /\ reader.at = "shown" /\ ~HasNext(reader) =>
              Cardinality(Missed) <= reader.left + reader.squeezed
    BY <1>4 DEF ListInv
  <2>2. /\ ListStays \/ ListGrows \/ ListShrinks
        /\ reader'.at = reader.at /\ reader'.what = reader.what
        /\ reader'.label = reader.label /\ reader'.page = reader.page
        /\ reader'.counted = reader.counted /\ reader'.items = reader.items
        /\ reader'.seen = reader.seen /\ reader'.repeats = reader.repeats
    BY <1>4, ListChanges
  <2>3. /\ reader.repeats \in Nat /\ reader.left \in Nat
        /\ reader.entered \in Nat /\ reader.squeezed \in Nat
        /\ Cardinality(reader.counted["assessments"]) \in Nat
        /\ Front \in Nat
        /\ IsFiniteSet(Rows) /\ Cardinality(Rows) \in Nat
        /\ Ranked(Rows, rank)
        /\ IsFiniteSet(Missed) /\ Cardinality(Missed) \in Nat
        /\ IsFiniteSet(Passed) /\ Cardinality(Passed) \in Nat
        /\ IsFiniteSet(Ahead) /\ Cardinality(Ahead) \in Nat
    BY <1>4, ListType
  <2>4. Front' = Front /\ (HasNext(reader))' = HasNext(reader)
    BY <2>2 DEF Front, HasNext, Offset
  <2>5. SUFFICES
          /\ reader'.present \subseteq Rows'
          /\ reader'.repeats + Cardinality(Ahead') <= reader'.entered
          /\ Cardinality(Passed') <= reader'.left
          /\ reader.at = "rows" =>
                Cardinality(Rows') <= Cardinality(reader.counted["assessments"])
                                         + reader'.squeezed
          /\ reader.at = "shown" /\ ~HasNext(reader) =>
                Cardinality(Missed') <= reader'.left + reader'.squeezed
    BY <1>2, <2>2, <2>4 DEF ListInv
  <2>6. CASE ListStays
    <3>1. Rows' = Rows /\ reader' = reader /\ SameOrder(Rows, rank, rank')
      BY <2>6 DEF ListStays
    <3>2. Behind(Rows, rank', Front) = Behind(Rows, rank, Front)
      BY <3>1, BehindSame
    <3>3. Ahead' = Ahead /\ Passed' = Passed /\ Missed' = Missed
      BY <2>4, <3>1, <3>2 DEF Ahead, Passed, Missed
    <3> QED
      BY <2>1, <3>1, <3>3
  <2>7. CASE ListGrows
    <3>1. PICK a \in Assessments \ Rows :
             /\ Rows' = Rows \cup {a} /\ UNCHANGED rank
             /\ reader'.present = reader.present \cap Rows'
             /\ reader'.left = reader.left /\ reader'.entered = reader.entered + 1
             /\ reader'.squeezed = IF reader.at = "rows" THEN reader.squeezed + 1
                                   ELSE reader.squeezed
      BY <2>7 DEF ListGrows
    <3>2. reader'.present = reader.present /\ Missed' = Missed
      BY <2>1, <2>2, <3>1 DEF Missed
    <3>3. Ranked(Rows \cup {a}, rank)
      <4>1. TypeInv' /\ RankInv' /\ reader'.what = "assessments"
        BY <1>4, <2>2, TypeStep, RankStep, NextSplits DEF Listing
      <4>2. Rows' \subseteq live' /\ live' \subseteq Begun'
        BY <4>1, ListIs DEF Rows, AssessmentRows, RankInv
      <4>3. /\ \A x \in Begun' : rank'[x] \in Nat
            /\ \A x, y \in Begun' : rank'[x] = rank'[y] => x = y
        BY <4>1 DEF Begun, TypeInv, TypeOK, RankInv
      <4>4. IsFiniteSet(Rows \cup {a})
        BY <2>3, FS_AddElement
      <4> QED
        BY <3>1, <4>2, <4>3, <4>4 DEF Ranked
    <3>4. \A x, y \in Behind(Rows', rank, Front) \ Behind(Rows, rank, Front) : x = y
      BY <2>3, <3>1, <3>3, BehindGrows
    <3>5. Behind(Rows, rank, Front) \subseteq Behind(Rows', rank, Front)
      BY <2>3, <3>1, BehindKept
    <3>6. Cardinality(Ahead') <= Cardinality(Ahead) + 1 /\ Cardinality(Ahead') \in Nat
      <4>1. \A x, y \in Ahead' \ Ahead : x = y
        BY <2>2, <2>4, <3>1, <3>4 DEF Ahead
      <4>2. IsFiniteSet(Ahead')
        <5>1. Ahead' \in SUBSET (Rows \cup {a})
          BY <3>1 DEF Ahead, Behind
        <5> QED
          BY <2>3, <5>1, FS_AddElement, FS_Subset
      <4> QED
        BY <2>3, <4>1, <4>2, OneMore, FS_CardinalityType
    <3>7. Cardinality(Passed') <= Cardinality(Passed) /\ Cardinality(Passed') \in Nat
      <4>1. Passed' \in SUBSET Passed
        BY <2>4, <3>1, <3>2, <3>5 DEF Passed
      <4> QED
        BY <2>3, <4>1, FS_Subset, FS_CardinalityType
    <3>8. Cardinality(Rows') = Cardinality(Rows) + 1
      BY <2>3, <3>1, FS_AddElement
    <3>9. reader'.repeats + Cardinality(Ahead') <= reader'.entered
      BY <2>1, <2>2, <2>3, <3>1, <3>6
    <3>10. Cardinality(Passed') <= reader'.left
      BY <2>1, <2>3, <3>1, <3>7
    <3>11. reader.at = "rows" =>
              Cardinality(Rows') <= Cardinality(reader.counted["assessments"])
                                       + reader'.squeezed
      BY <2>1, <2>3, <3>1, <3>8
    <3>12. reader.at = "shown" => reader'.squeezed = reader.squeezed
      BY <3>1
    <3> QED
      BY <2>1, <3>1, <3>2, <3>9, <3>10, <3>11, <3>12
  <2>8. CASE ListShrinks
    <3>1. PICK a \in Rows :
             /\ Rows' = Rows \ {a} /\ SameOrder(Rows', rank, rank')
             /\ reader'.present = reader.present \cap Rows'
             /\ reader'.left = reader.left + 1 /\ reader'.entered = reader.entered
             /\ reader'.squeezed = reader.squeezed
      BY <2>8 DEF ListShrinks
    <3>2. Missed' = Missed \ {a} /\ Missed \subseteq Rows
      BY <2>1, <2>2, <3>1 DEF Missed
    <3>3. Behind(Rows', rank', Front) = Behind(Rows \ {a}, rank, Front)
      BY <3>1, BehindSame
    <3>4. /\ Behind(Rows \ {a}, rank, Front) \subseteq Behind(Rows, rank, Front)
          /\ \A x \in Rows \ {a}, y \in Rows \ {a} :
                /\ x \in Behind(Rows, rank, Front) \ Behind(Rows \ {a}, rank, Front)
                /\ y \in Behind(Rows, rank, Front) \ Behind(Rows \ {a}, rank, Front)
                => x = y
      BY <2>3, <3>1, BehindShrinks
    <3>5. Cardinality(Ahead') <= Cardinality(Ahead) /\ Cardinality(Ahead') \in Nat
      <4>1. Ahead' \in SUBSET Ahead
        BY <2>2, <2>4, <3>3, <3>4 DEF Ahead
      <4> QED
        BY <2>3, <4>1, FS_Subset, FS_CardinalityType
    <3>6. Cardinality(Passed') <= Cardinality(Passed) + 1 /\ Cardinality(Passed') \in Nat
      <4>1. \A x, y \in Passed' \ Passed : x = y
        BY <2>4, <3>2, <3>3, <3>4 DEF Passed
      <4>2. IsFiniteSet(Passed')
        <5>1. Passed' \in SUBSET Missed
          BY <3>2 DEF Passed
        <5> QED
          BY <2>3, <5>1, FS_Subset
      <4> QED
        BY <2>3, <4>1, <4>2, OneMore, FS_CardinalityType
    <3>7. Cardinality(Missed') <= Cardinality(Missed) /\ Cardinality(Missed') \in Nat
      BY <2>3, <3>2, FS_Subset, FS_CardinalityType
    <3>8. Cardinality(Rows') = Cardinality(Rows) - 1
      BY <2>3, <3>1, FS_RemoveElement
    <3>9. reader'.repeats + Cardinality(Ahead') <= reader'.entered
      BY <2>1, <2>2, <2>3, <3>1, <3>5
    <3>10. Cardinality(Passed') <= reader'.left
      BY <2>1, <2>3, <3>1, <3>6
    <3>11. reader.at = "rows" =>
              Cardinality(Rows') <= Cardinality(reader.counted["assessments"])
                                       + reader'.squeezed
      BY <2>1, <2>3, <3>1, <3>8
    <3>12. reader.at = "shown" /\ ~HasNext(reader) =>
              Cardinality(Missed') <= reader'.left + reader'.squeezed
      BY <2>1, <2>3, <3>1, <3>7
    <3>13. reader'.present \subseteq Rows'
      BY <3>1
    <3> QED
      BY <3>9, <3>10, <3>11, <3>12, <3>13
  <2> QED
    BY <2>2, <2>6, <2>7, <2>8
<1> QED
  BY <1>3, <1>4

\* The rows of the list are the same before and after a step of the reader that goes
\* on with the same list.
LEMMA ListReader == TypeInv /\ RankInv /\ ListInv /\ ReaderStep => ListInv'
<1> SUFFICES ASSUME TypeInv, RankInv, ListInv, ReaderStep
             PROVE  ListInv'
  OBVIOUS
<1>1. UNCHANGED <<rank, live, filled>> /\ reader \in Readers /\ StepsFit
  BY ReaderType DEF TypeInv, TypeOK
<1>2. ASSUME reader'.what # "assessments", reader'.at # "idle"
      PROVE  ListInv'
  BY <1>2 DEF ListInv, Listing
<1>3. ASSUME Listing
      PROVE  /\ reader \in Readers /\ reader.page \in Nat
             /\ reader.repeats \in Nat /\ reader.left \in Nat
             /\ reader.entered \in Nat /\ reader.squeezed \in Nat
             /\ reader.counted \in [Lists \cup {"severities"} -> SUBSET Row]
             /\ Cardinality(reader.counted["assessments"]) \in Nat
             /\ Offset(reader.page) \in Nat /\ Offset(reader.page + 1) \in Nat
             /\ Offset(reader.page + 1) = Offset(reader.page) + Limit /\ Limit \in Nat \ {0}
             /\ IsFiniteSet(Rows) /\ Cardinality(Rows) \in Nat
             /\ Rows \subseteq Assessments /\ Ranked(Rows, rank)
             /\ IsFiniteSet(Passed) /\ Cardinality(Passed) \in Nat
             /\ IsFiniteSet(Ahead) /\ Cardinality(Ahead) \in Nat
             /\ reader.present \subseteq Rows
             /\ reader.repeats + Cardinality(Ahead) <= reader.entered
             /\ Cardinality(Passed) <= reader.left
             /\ reader.at = "rows" =>
                   Cardinality(Rows) <= Cardinality(reader.counted["assessments"])
                                           + reader.squeezed
  BY <1>3, ListType DEF ListInv
<1>4. ASSUME NEW what \in Lists \cup {"detail"}, NEW s \in Assessments \cup {"none"},
             NEW l \in Labels, Open(what, s, l)
      PROVE  ListInv'
  <2> DEFINE first == IF what = "assessments" THEN "count" ELSE "check"
             opened == [Idle EXCEPT !.what = what, !.session = s, !.label = l, !.at = first]
             there == Selected(opened, live, filled)
  <2>1. reader' = [opened EXCEPT !.present = there]
    BY <1>4 DEF Open
  <2>2. /\ opened.what = what /\ opened.session = s /\ opened.label = l
        /\ opened = [Idle EXCEPT !.what = what, !.session = s, !.label = l, !.at = first]
    BY DEF Idle
  <2>3. /\ reader'.what = what /\ reader'.session = s /\ reader'.label = l
        /\ reader'.at = first /\ reader'.present = there
        /\ reader'.seen = {} /\ reader'.page = 0 /\ reader'.repeats = 0
        /\ reader'.left = 0 /\ reader'.entered = 0
    <3> HIDE DEF there, first
    <3> QED
      BY <2>1, <2>2 DEF Idle
  <2>4. CASE what # "assessments"
    <3>1. first = "check"
      BY <2>4
    <3> QED
      BY <1>2, <2>3, <2>4, <3>1
  <2>5. CASE what = "assessments"
    <3>1. first = "count"
      BY <2>5
    <3>2. Rows' = there
      <4>1. Rows' = Selected(reader', live, filled)
        BY <1>1 DEF Rows
      <4>2. reader'.what = opened.what /\ reader'.session = opened.session
            /\ reader'.label = opened.label
        BY <2>2, <2>3
      <4> HIDE DEF opened
      <4> QED
        BY <4>1, <4>2, SelectedSame
    <3>3. Front' = 0
      BY <2>3, <3>1, ListingsAssumption DEF Front, Offset
    <3>4. IsFiniteSet(there)
      BY <1>1, <2>2, SelectedRows DEF TypeInv, TypeOK
    <3> HIDE DEF there, first, opened
    <3>5. \A x \in Rows' : x \in Behind(Rows', rank', 0)
      <4>1. ASSUME NEW x \in Rows' PROVE Pos(Rows', rank', x) \in Nat
        BY <3>2, <3>4, PosType
      <4> QED
        BY <4>1 DEF Behind
    <3>6. Missed' = Rows' /\ Ahead' = {} /\ Passed' = {}
      <4>1. Missed' = Rows'
        BY <2>3, <3>2 DEF Missed
      <4>2. Ahead' = {}
        BY <2>3 DEF Ahead
      <4>3. Passed' = {}
        BY <3>3, <3>5, <4>1 DEF Passed
      <4> QED
        BY <4>1, <4>2, <4>3
    <3>7. Cardinality({}) = 0
      BY FS_EmptySet
    <3>8. /\ reader'.at = "count" /\ reader'.present \subseteq Rows'
          /\ reader'.repeats + Cardinality(Ahead') <= reader'.entered
          /\ Cardinality(Passed') <= reader'.left
      BY <2>3, <3>1, <3>2, <3>6, <3>7
    <3> QED
      BY <3>8 DEF ListInv
  <2> QED
    BY <2>4, <2>5
<1>5. CASE CheckAssessment
  <2> DEFINE next == IF reader.session \notin live THEN "missing"
                     ELSE IF reader.what = "detail" THEN "findings" ELSE "count"
  <2>1. reader' = [reader EXCEPT !.at = next] /\ reader.at = "check"
    BY <1>5 DEF CheckAssessment
  <2>2. reader'.at = next /\ reader'.what = reader.what
    BY <1>1, <2>1 DEF Readers
  <2>3. reader.what # "assessments" /\ next # "idle"
    BY <2>1 DEF ListInv
  <2> QED
    BY <1>2, <2>2, <2>3
<1>6. CASE CountRows
  <2> DEFINE counted == [reader.counted EXCEPT ![reader.what] = Rows]
  <2>1. reader' = [reader EXCEPT !.at = "rows", !.squeezed = 0, !.counted = counted]
        /\ reader.at = "count"
    BY <1>6 DEF CountRows, Rows
  <2>2. /\ reader'.at = "rows" /\ reader'.what = reader.what
        /\ reader'.session = reader.session /\ reader'.label = reader.label
        /\ reader'.present = reader.present /\ reader'.seen = reader.seen
        /\ reader'.page = reader.page /\ reader'.repeats = reader.repeats
        /\ reader'.left = reader.left /\ reader'.entered = reader.entered
        /\ reader'.counted = counted /\ reader'.squeezed = 0
    <3> HIDE DEF counted
    <3> QED
      BY <1>1, <2>1 DEF Readers
  <2>3. CASE reader.what # "assessments"
    BY <1>2, <2>2, <2>3
  <2>4. CASE reader.what = "assessments"
    <3>1. Listing
      BY <2>1, <2>4 DEF Listing
    <3>2. Rows' = Rows
      <4>1. Rows' = Selected(reader', live, filled)
        BY <1>1 DEF Rows
      <4> QED
        BY <2>2, <4>1, SelectedSame DEF Rows
    <3>3. Front' = Front
      BY <2>1, <2>2 DEF Front, Offset
    <3>4. Ahead' = Ahead /\ Passed' = Passed
      BY <1>1, <2>2, <3>2, <3>3 DEF Ahead, Passed, Missed
    <3>5. reader'.counted["assessments"] = Rows
      BY <1>3, <2>2, <2>4, <3>1 DEF Lists
    <3> HIDE DEF counted
    <3>6. /\ reader'.present \subseteq Rows'
          /\ reader'.repeats + Cardinality(Ahead') <= reader'.entered
          /\ Cardinality(Passed') <= reader'.left
          /\ Cardinality(Rows') <= Cardinality(reader'.counted["assessments"])
                                      + reader'.squeezed
      BY <1>3, <2>2, <3>1, <3>2, <3>4, <3>5
    <3> QED
      BY <2>2, <2>4, <3>6 DEF ListInv
  <2> QED
    BY <2>3, <2>4
<1>7. CASE FetchRows
  <2>1. reader.at = "rows"
    BY <1>7 DEF FetchRows
  <2>2. PICK items \in Pages(Rows, reader.page) :
           reader' = [reader EXCEPT !.at = "shown", !.items = items,
                         !.seen = reader.seen \cup items,
                         !.repeats = reader.repeats + Cardinality(items \cap reader.seen)]
    BY <1>7 DEF FetchRows, Rows
  <2>3. /\ reader'.at = "shown" /\ reader'.what = reader.what /\ reader'.items = items
        /\ reader'.session = reader.session /\ reader'.label = reader.label
        /\ reader'.present = reader.present /\ reader'.seen = reader.seen \cup items
        /\ reader'.page = reader.page /\ reader'.counted = reader.counted
        /\ reader'.repeats = reader.repeats + Cardinality(items \cap reader.seen)
        /\ reader'.left = reader.left /\ reader'.entered = reader.entered
        /\ reader'.squeezed = reader.squeezed
    BY <1>1, <2>2 DEF Readers
  <2>4. CASE reader.what # "assessments"
    BY <1>2, <2>3, <2>4
  <2>5. CASE reader.what = "assessments"
    <3> DEFINE m == Offset(reader.page)
               behind == Behind(Rows, rank, Offset(reader.page + 1))
               again == items \cap reader.seen
    <3>1. Listing
      BY <2>1, <2>5 DEF Listing
    <3>2. Rows' = Rows
      <4>1. Rows' = Selected(reader', live, filled)
        BY <1>1 DEF Rows
      <4> QED
        BY <2>3, <4>1, SelectedSame DEF Rows
    <3>3. Front = m /\ Front' = Offset(reader.page + 1)
      BY <2>1, <2>3 DEF Front, Offset
    <3>4. /\ items \subseteq Rows
          /\ \A x \in Rows : x \in items <=> /\ Pos(Rows, rank, x) >= m
                                             /\ Pos(Rows, rank, x) < Offset(reader.page + 1)
          /\ Cardinality(behind) = IF Offset(reader.page + 1) < Cardinality(Rows)
                                   THEN Cardinality(Rows) - Offset(reader.page + 1) ELSE 0
          /\ items = {} => \A x \in Rows : Pos(Rows, rank, x) < m
      BY <1>3, <2>2, <3>1, PageIs
    <3>5. /\ m \in Nat /\ Offset(reader.page + 1) \in Nat
          /\ m < Offset(reader.page + 1)
          /\ \A x \in Rows : Pos(Rows, rank, x) \in Nat
      BY <1>3, <3>1, PosType
    <3>6. \A x \in Rows : /\ x \in Behind(Rows, rank, m) <=> ~(Pos(Rows, rank, x) < m)
                          /\ x \in behind <=> ~(Pos(Rows, rank, x) < Offset(reader.page + 1))
      BY <3>5 DEF Behind
    <3>7. \A x \in Rows : /\ x \in behind => x \in Behind(Rows, rank, m) /\ x \notin items
                          /\ x \in items => x \in Behind(Rows, rank, m)
                          /\ x \in Behind(Rows, rank, m) => x \in items \/ x \in behind
      <4> HIDE DEF m, behind
      <4> QED
        BY <3>4, <3>5, <3>6
    <3>8. behind \subseteq Rows
      BY DEF Behind
    <3>9. /\ Ahead = reader.seen \cap Behind(Rows, rank, m)
          /\ Ahead' = (reader.seen \cup items) \cap behind
          /\ Passed = (reader.present \ reader.seen) \ Behind(Rows, rank, m)
          /\ Passed' = (reader.present \ (reader.seen \cup items)) \ behind
          /\ Missed' = reader.present \ (reader.seen \cup items)
      BY <1>1, <2>3, <3>2, <3>3 DEF Ahead, Passed, Missed
    <3>10. /\ reader.present \subseteq Rows
           /\ reader.repeats + Cardinality(Ahead) <= reader.entered
           /\ Cardinality(Passed) <= reader.left
           /\ Cardinality(Rows) <= Cardinality(reader.counted["assessments"])
                                      + reader.squeezed
           /\ IsFiniteSet(Passed) /\ Cardinality(Passed) \in Nat
           /\ IsFiniteSet(Ahead) /\ Cardinality(Ahead) \in Nat
           /\ IsFiniteSet(Rows) /\ Cardinality(Rows) \in Nat
           /\ reader.repeats \in Nat /\ reader.entered \in Nat
           /\ reader.left \in Nat /\ reader.squeezed \in Nat
           /\ Cardinality(reader.counted["assessments"]) \in Nat
      BY <1>3, <2>1, <3>1
    <3> HIDE DEF m, behind
    <3>11. again \in SUBSET Ahead /\ Ahead' \in SUBSET Ahead /\ again \cap Ahead' = {}
      BY <3>4, <3>7, <3>8, <3>9
    <3>12. Cardinality(again) + Cardinality(Ahead') <= Cardinality(Ahead)
           /\ Cardinality(again) \in Nat /\ Cardinality(Ahead') \in Nat
      <4>1. IsFiniteSet(again) /\ IsFiniteSet(Ahead')
        BY <3>10, <3>11, FS_Subset
      <4>2. Cardinality(again) \in Nat /\ Cardinality(Ahead') \in Nat
        BY <4>1, FS_CardinalityType
      <4> HIDE DEF again
      <4>3. Cardinality(again \cup Ahead')
               = Cardinality(again) + Cardinality(Ahead') - Cardinality(again \cap Ahead')
        BY <4>1, FS_Union
      <4>4. Cardinality(again \cap Ahead') = 0
        BY <3>11, FS_EmptySet
      <4>5. again \cup Ahead' \in SUBSET Ahead
        BY <3>11
      <4>6. Cardinality(again \cup Ahead') <= Cardinality(Ahead)
        BY <3>10, <4>5, FS_Subset
      <4> QED
        BY <4>2, <4>3, <4>4, <4>6
    <3>13. Passed' \in SUBSET Passed
      BY <3>7, <3>9, <3>10
    <3>14. Cardinality(Passed') <= Cardinality(Passed) /\ Cardinality(Passed') \in Nat
           /\ IsFiniteSet(Passed')
      BY <3>10, <3>13, FS_Subset, FS_CardinalityType
    <3>15. ASSUME ~HasNext(reader')
           PROVE  Cardinality(Missed') <= reader'.left + reader'.squeezed
      <4>1. items = {} \/ Cardinality(reader.counted["assessments"]) <= Offset(reader.page + 1)
        <5>1. ~(items # {} /\ Cardinality(reader.counted["assessments"])
                                 > Offset(reader.page + 1))
          BY <2>3, <2>5, <3>15 DEF HasNext
        <5> QED
          BY <3>5, <3>10, <5>1
      <4>2. CASE items = {}
        <5>1. \A x \in Rows : x \notin behind
          BY <3>4, <3>6, <3>7, <4>2 DEF m
        <5>2. Missed' = Passed'
          BY <3>9, <3>10, <5>1
        <5> QED
          BY <2>3, <3>10, <3>14, <5>2
      <4>3. CASE Cardinality(reader.counted["assessments"]) <= Offset(reader.page + 1)
        <5>1. IsFiniteSet(behind) /\ Cardinality(behind) \in Nat
          BY <3>8, <3>10, FS_Subset, FS_CardinalityType
        <5>2. Cardinality(behind) <= reader.squeezed
          <6>1. Cardinality(behind) = IF Offset(reader.page + 1) < Cardinality(Rows)
                                      THEN Cardinality(Rows) - Offset(reader.page + 1) ELSE 0
            BY <3>4
          <6> QED
            BY <3>5, <3>10, <4>3, <6>1
        <5>3. Missed' \in SUBSET (Passed' \cup behind)
          BY <3>9
        <5>4. /\ IsFiniteSet(Passed' \cup behind)
              /\ Cardinality(Passed' \cup behind)
                    = Cardinality(Passed') + Cardinality(behind)
                         - Cardinality(Passed' \cap behind)
          BY <3>14, <5>1, FS_Union
        <5>5. Cardinality(Passed' \cap behind) \in Nat
          <6>1. Passed' \cap behind \in SUBSET behind
            OBVIOUS
          <6> QED
            BY <5>1, <6>1, FS_Subset, FS_CardinalityType
        <5>6. Cardinality(Missed') <= Cardinality(Passed' \cup behind)
              /\ Cardinality(Missed') \in Nat
          BY <5>3, <5>4, FS_Subset, FS_CardinalityType
        <5> QED
          BY <2>3, <3>10, <3>14, <5>1, <5>2, <5>4, <5>5, <5>6
      <4> QED
        BY <4>1, <4>2, <4>3
    <3>16. reader'.present \subseteq Rows'
      BY <2>3, <3>2, <3>10
    <3>17. reader'.repeats + Cardinality(Ahead') <= reader'.entered
      <4>1. reader'.repeats = reader.repeats + Cardinality(again)
        BY <2>3
      <4> HIDE DEF again
      <4> QED
        BY <2>3, <3>10, <3>12, <4>1
    <3>18. Cardinality(Passed') <= reader'.left
      BY <2>3, <3>10, <3>14
    <3> QED
      BY <2>3, <2>5, <3>15, <3>16, <3>17, <3>18 DEF ListInv
  <2> QED
    BY <2>4, <2>5
<1>8. CASE NextPage
  <2> DEFINE next == IF reader.what = "assessments" THEN "count" ELSE "check"
  <2>1. /\ reader.at = "shown"
        /\ reader' = [reader EXCEPT !.page = reader.page + 1, !.items = {}, !.at = next]
    BY <1>8 DEF NextPage
  <2>2. reader.page + 1 \in Nat
    BY <1>1 DEF Readers
  <2>3. /\ reader'.at = next /\ reader'.what = reader.what
        /\ reader'.session = reader.session /\ reader'.label = reader.label
        /\ reader'.present = reader.present /\ reader'.seen = reader.seen
        /\ reader'.page = reader.page + 1 /\ reader'.repeats = reader.repeats
        /\ reader'.left = reader.left /\ reader'.entered = reader.entered
    <3> HIDE DEF next
    <3> QED
      BY <1>1, <2>1 DEF Readers
  <2>4. CASE reader.what # "assessments"
    <3>1. next = "check"
      BY <2>4
    <3> QED
      BY <1>2, <2>3, <2>4, <3>1
  <2>5. CASE reader.what = "assessments"
    <3>1. Listing /\ next = "count"
      BY <2>1, <2>5 DEF Listing
    <3>2. Rows' = Rows
      <4>1. Rows' = Selected(reader', live, filled)
        BY <1>1 DEF Rows
      <4> QED
        BY <2>3, <4>1, SelectedSame DEF Rows
    <3>3. Front' = Front
      BY <2>1, <2>3, <3>1 DEF Front, Offset
    <3>4. Ahead' = Ahead /\ Passed' = Passed
      BY <1>1, <2>3, <3>2, <3>3 DEF Ahead, Passed, Missed
    <3>5. /\ reader'.at = "count" /\ reader'.present \subseteq Rows'
          /\ reader'.repeats + Cardinality(Ahead') <= reader'.entered
          /\ Cardinality(Passed') <= reader'.left
      BY <1>3, <2>3, <3>1, <3>2, <3>4
    <3> QED
      BY <3>5 DEF ListInv
  <2> QED
    BY <2>4, <2>5
<1>9. ASSUME NEW kind \in Kinds, NEW next \in Kinds \cup {"severities"},
             CountChildren(kind, next)
      PROVE  ListInv'
  <2>1. reader.what = "detail" /\ reader'.what = reader.what /\ reader'.at = next
    BY <1>1, <1>9 DEF CountChildren, Readers
  <2> QED
    BY <1>2, <2>1 DEF Kinds
<1>10. CASE SumSeverities
  <2>1. reader.what = "detail" /\ reader'.what = reader.what /\ reader'.at = "shown"
    BY <1>1, <1>10 DEF SumSeverities, Readers, StepsFit
  <2> QED
    BY <1>2, <2>1
<1>11. CASE Close
  BY <1>11 DEF Close, Idle, ListInv, Listing
<1> QED
  BY <1>4, <1>5, <1>6, <1>7, <1>8, <1>9, <1>10, <1>11 DEF ReaderStep, Kinds

LEMMA ListCorrect == Spec => [](TypeInv /\ RankInv /\ ListInv)
<1>1. Init => TypeInv
  BY TypeInit
<1>2. Init => RankInv
  <2>1. Init => Begun = {} /\ live = {}
    BY DEF Init, Begun
  <2> QED
    BY <2>1 DEF RankInv
<1>3. Init => ListInv
  BY DEF Init, Idle, ListInv, Listing
<1>4. TypeInv /\ RankInv /\ ListInv /\ [Next]_vars => TypeInv' /\ RankInv' /\ ListInv'
  <2> SUFFICES ASSUME TypeInv, RankInv, ListInv, [Next]_vars
               PROVE  TypeInv' /\ RankInv' /\ ListInv'
    OBVIOUS
  <2>1. TypeInv' /\ RankInv'
    BY TypeStep, RankStep
  <2>2. CASE UNCHANGED vars
    <3>1. Rows' = Rows /\ Front' = Front
      BY <2>2 DEF vars, Rows, Selected, Front, Offset
    <3> QED
      BY <2>1, <2>2, <3>1 DEF vars, ListInv, Listing, Ahead, Passed, Missed, HasNext, Offset
  <2> QED
    BY <2>1, <2>2, ListTable, ListReader, NextSplits
<1> QED
  BY <1>1, <1>2, <1>3, <1>4, PTL DEF Spec

\* Who reads all pages of the assessments misses no more of them than were deleted
\* meanwhile or came in between the last count and its page (MissedNeedDeletes).
THEOREM MissesAreAccountedFor == Spec => []MissedNeedDeletes
<1>1. TypeInv /\ RankInv /\ ListInv => MissedNeedDeletes
  BY DEF ListInv, Listing, Finished, MissedNeedDeletes
<1> QED
  BY <1>1, ListCorrect, PTL

\* An assessment comes again on a later page at most as often as imports were
\* committed meanwhile (RepeatsNeedImports).
THEOREM RepeatsAreAccountedFor == Spec => []RepeatsNeedImports
<1>1. TypeInv /\ RankInv /\ ListInv => RepeatsNeedImports
  <2> SUFFICES ASSUME TypeInv, RankInv, ListInv, reader.what = "assessments"
               PROVE  reader.repeats <= reader.entered
    BY DEF RepeatsNeedImports
  <2>1. CASE reader.at = "idle"
    BY <2>1 DEF ListInv, Idle
  <2>2. CASE reader.at # "idle"
    <3>1. Listing
      BY <2>2 DEF ListInv, Listing
    <3>2. /\ reader.repeats + Cardinality(Ahead) <= reader.entered
          /\ reader.repeats \in Nat /\ reader.entered \in Nat /\ Cardinality(Ahead) \in Nat
      BY <3>1, ListType DEF ListInv
    <3> QED
      BY <3>2
  <2> QED
    BY <2>1, <2>2
<1> QED
  BY <1>1, ListCorrect, PTL
===============================================================================
