------------------------------- MODULE Listings -------------------------------
(***************************************************************************)
(* Reading assessments while others upload and delete them: the lists of   *)
(* assessments/router.py, which the portal turns over page by page, and    *)
(* the detail of one assessment.                                           *)
(*                                                                         *)
(* A request is several statements at READ COMMITTED, each of which sees   *)
(* what is committed when it runs: for a list of an assessment's rows a    *)
(* check that the assessment is there, then a count, then the page; for    *)
(* the detail a check and four counts.  A count is kept as the set of the  *)
(* rows it counted.                                                        *)
(*                                                                         *)
(* created_at defaults to now(), the time at which a transaction began.    *)
(* An assessment can therefore appear behind others committed before it,   *)
(* and all findings and assets of an assessment have the same created_at:  *)
(* each query puts them in whatever order it likes.                        *)
(*                                                                         *)
(* Requests only read, so that one reader stands for any number of them.   *)
(***************************************************************************)
EXTENDS Naturals, FiniteSets

CONSTANTS
    Assessments,
    Children,      \* the rows that come with an assessment
    KindOf,        \* which of them are findings, assets and evidence
    LabelOf,       \* the severity, asset_type or collector_name of each
    Collected,     \* collected_at of evidence; the same for all other rows
    Limit,         \* rows on a page
    MaxChanges     \* bound: assessments that come or go during one reading

Kinds == {"findings", "assets", "evidence"}
Lists == Kinds \cup {"assessments"}
Labels == {LabelOf[c] : c \in Children} \cup {"any"}

ASSUME ListingsAssumption ==
    /\ KindOf \in [Children -> Kinds]
    /\ Collected \in [Children -> Nat]
    /\ \A c \in Children : LabelOf[c] # "any"
    /\ Limit \in Nat \ {0} /\ MaxChanges \in Nat
    /\ IsFiniteSet(Assessments) /\ IsFiniteSet(Children)
    /\ Assessments \cap Children = {} /\ "none" \notin Assessments

VARIABLES
    rank,      \* created_at of those whose import has begun: 1 is the oldest
    live,      \* the assessments that are committed
    filled,    \* the assessments whose children are in the tables
    deleting,  \* what requests have found deletable and go on to DELETE
    reader

vars == <<rank, live, filled, deleting, reader>>

\* what is read; at is the next statement of the request, or "shown" when it is
\* answered; seen and repeats tell what the pages so far brought; present, left
\* and entered compare the list with what it was when the reading began, and
\* squeezed counts what entered between a count and its page.
Idle == [at |-> "idle", what |-> "assessments", session |-> "none", label |-> "any",
         page |-> 0, counted |-> [k \in Lists \cup {"severities"} |-> {}], items |-> {},
         seen |-> {}, repeats |-> 0,
         present |-> {}, left |-> 0, entered |-> 0, squeezed |-> 0]

Row == Assessments \cup Children

Readers ==
    [at : {"idle", "check", "count", "rows", "shown", "missing", "severities"} \cup Kinds,
     what : Lists \cup {"detail"}, session : Assessments \cup {"none"}, label : Labels,
     page : Nat, counted : [Lists \cup {"severities"} -> SUBSET Row],
     items : SUBSET Row, seen : SUBSET Row, repeats : Nat, present : SUBSET Row,
     left : Nat, entered : Nat, squeezed : Nat]

TypeOK ==
    /\ rank \in [Assessments -> Nat]
    /\ live \subseteq Assessments /\ filled \subseteq Assessments
    /\ deleting \subseteq Assessments
    /\ reader \in Readers

Init ==
    /\ rank = [a \in Assessments |-> 0] /\ live = {} /\ filled = {} /\ deleting = {}
    /\ reader = Idle

-----------------------------------------------------------------------------
(* The tables *)

ChildrenOf(kind) == {c \in Children : KindOf[c] = kind}

\* An import writes assessments as "completed" only: a status filter gives all or
\* none of them.
AssessmentRows(assessments, label) == IF label = "any" THEN assessments ELSE {}

ChildRows(kind, session, parents, label) ==
    IF session \in parents
    THEN {c \in ChildrenOf(kind) : label \in {"any", LabelOf[c]}}
    ELSE {}

\* The rows that a reader's query selects from given tables.
Selected(r, assessments, parents) ==
    CASE r.what = "assessments" -> AssessmentRows(assessments, r.label)
      [] r.what \in Kinds -> ChildRows(r.what, r.session, parents, r.label)
      [] OTHER -> UNION {ChildRows(k, r.session, parents, "any") : k \in Kinds}

Reading == reader.at \in {"check", "count", "rows", "shown", "severities"} \cup Kinds

\* The tables become as given while a reader is at work.
Change(assessments, parents) ==
    LET before == Selected(reader, live, filled)
        after == Selected(reader, assessments, parents)
        came == Cardinality(after \ before)
        went == Cardinality(before \ after)
    IN  /\ live' = assessments /\ filled' = parents
        /\ IF Reading /\ before # after
           THEN /\ reader.left + reader.entered < MaxChanges
                /\ reader' = [reader EXCEPT !.present = @ \cap after,
                                 !.left = @ + went, !.entered = @ + came,
                                 !.squeezed = IF reader.at = "rows" THEN @ + came ELSE @]
           ELSE UNCHANGED reader

Begun == {a \in Assessments : rank[a] # 0}

\* The assessment a is no longer there.
Forget(a) ==
    rank' = [b \in Assessments |->
                IF b = a THEN 0 ELSE IF rank[b] > rank[a] THEN rank[b] - 1 ELSE rank[b]]

-----------------------------------------------------------------------------
(* import_assessment and delete_assessment *)

\* The transaction of an import begins.
BeginImport(a) ==
    /\ a \notin Begun
    /\ rank' = [rank EXCEPT ![a] = Cardinality(Begun) + 1]
    /\ UNCHANGED <<live, filled, deleting, reader>>

\* Mutant: the assessment is committed before its children.
CommitInParts(a) ==
    /\ a \in Begun \ filled
    /\ IF a \in live THEN Change(live, filled \cup {a})
       ELSE Change(live \cup {a}, filled)
    /\ UNCHANGED <<rank, deleting>>

\* The assessment and its children are committed.
CommitImport(a) ==
    /\ a \in Begun \ live
    /\ Change(live \cup {a}, filled \cup {a})
    /\ UNCHANGED <<rank, deleting>>

\* A failure rolls the import back.
AbortImport(a) ==
    /\ a \in Begun \ live
    /\ Forget(a)
    /\ UNCHANGED <<live, filled, deleting, reader>>

\* delete_assessment finds the assessment, and its status is not "running".
FindForDelete(a) ==
    /\ a \in live \ deleting
    /\ deleting' = deleting \cup {a}
    /\ UNCHANGED <<rank, live, filled, reader>>

\* Its DELETE takes the children with it, and does nothing when another one did.
Delete(a) ==
    /\ a \in deleting
    /\ deleting' = deleting \ {a}
    /\ Change(live \ {a}, IF a \in live THEN filled \ {a} ELSE filled)
    /\ IF a \in live THEN Forget(a) ELSE UNCHANGED rank

-----------------------------------------------------------------------------
(* The lists *)

\* The user opens a list at its first page, or the page of one assessment.
Open(what, session, label) ==
    /\ reader.at = "idle"
    /\ what = "assessments" <=> session = "none"
    /\ what = "detail" => label = "any"
    /\ LET opened == [Idle EXCEPT !.what = what, !.session = session, !.label = label,
                                  !.at = IF what = "assessments" THEN "count" ELSE "check"]
       IN  reader' = [opened EXCEPT !.present = Selected(opened, live, filled)]
    /\ UNCHANGED <<rank, live, filled, deleting>>

\* get_assessment: the assessment is there, or the answer is 404.
CheckAssessment ==
    /\ reader.at = "check"
    /\ reader' = [reader EXCEPT !.at = IF reader.session \notin live THEN "missing"
                                       ELSE IF reader.what = "detail" THEN "findings"
                                       ELSE "count"]
    /\ UNCHANGED <<rank, live, filled, deleting>>

\* SELECT count(*) of the query.
CountRows ==
    /\ reader.at = "count"
    /\ reader' = [reader EXCEPT !.at = "rows", !.squeezed = 0,
                     !.counted[reader.what] = Selected(reader, live, filled)]
    /\ UNCHANGED <<rank, live, filled, deleting>>

\* Mutant: the pages are not ordered.
NewerNever(x, y) == FALSE

\* created_at, or collected_at, of x is later than that of y.
Newer(x, y) ==
    IF x \in Assessments THEN rank[x] > rank[y] ELSE Collected[x] > Collected[y]

\* Mutant: pages overlap by a row.
OffsetShort(page) == IF page = 0 THEN 0 ELSE page * Limit - 1

Offset(page) == page * Limit

\* The sets of n rows with which the list of the given rows may begin.
Beginnings(rows, n) ==
    {s \in SUBSET rows :
        /\ Cardinality(s) = IF n < Cardinality(rows) THEN n ELSE Cardinality(rows)
        /\ \A x \in s, y \in rows \ s : ~Newer(y, x)}

\* What ORDER BY ... DESC OFFSET ... LIMIT may return.
Pages(rows, page) ==
    UNION {Beginnings(rows \ skipped, Limit) : skipped \in Beginnings(rows, Offset(page))}

FetchRows ==
    /\ reader.at = "rows"
    /\ \E items \in Pages(Selected(reader, live, filled), reader.page) :
          reader' = [reader EXCEPT !.at = "shown", !.items = items,
                        !.seen = @ \cup items,
                        !.repeats = @ + Cardinality(items \cap reader.seen)]
    /\ UNCHANGED <<rank, live, filled, deleting>>

\* Mutant: the last page is not offered.
HasNextEarly(r) == r.items # {} /\ Cardinality(r.counted[r.what]) > Offset(r.page + 2)

\* Pagination offers a next page: an empty one has no buttons at all.
HasNext(r) == r.items # {} /\ Cardinality(r.counted[r.what]) > Offset(r.page + 1)

NextPage ==
    /\ reader.at = "shown" /\ reader.what # "detail" /\ HasNext(reader)
    /\ reader' = [reader EXCEPT !.page = @ + 1, !.items = {},
                     !.at = IF reader.what = "assessments" THEN "count" ELSE "check"]
    /\ UNCHANGED <<rank, live, filled, deleting>>

-----------------------------------------------------------------------------
(* The detail of an assessment *)

\* get_child_counts counts one table after the other.
CountChildren(kind, next) ==
    /\ reader.at = kind /\ reader.what = "detail"
    /\ reader' = [reader EXCEPT !.at = next,
                     !.counted[kind] = ChildRows(kind, reader.session, filled, "any")]
    /\ UNCHANGED <<rank, live, filled, deleting>>

\* get_severity_summary counts the findings again, by severity.
SumSeverities ==
    /\ reader.at = "severities"
    /\ reader' = [reader EXCEPT !.at = "shown",
                     !.counted["severities"] =
                         ChildRows("findings", reader.session, filled, "any")]
    /\ UNCHANGED <<rank, live, filled, deleting>>

\* The user leaves the page.
Close ==
    /\ reader.at \in {"shown", "missing"}
    /\ reader' = Idle
    /\ UNCHANGED <<rank, live, filled, deleting>>

Next ==
    \/ \E a \in Assessments :
          \/ BeginImport(a) \/ CommitImport(a) \/ AbortImport(a)
          \/ FindForDelete(a) \/ Delete(a)
    \/ \E what \in Lists \cup {"detail"}, s \in Assessments \cup {"none"}, l \in Labels :
          Open(what, s, l)
    \/ CheckAssessment \/ CountRows \/ FetchRows \/ NextPage
    \/ CountChildren("findings", "assets") \/ CountChildren("assets", "evidence")
    \/ CountChildren("evidence", "severities") \/ SumSeverities
    \/ Close

Spec == Init /\ [][Next]_vars

-----------------------------------------------------------------------------
(* Properties *)

\* The list has been read to its end.
Finished == reader.at = "shown" /\ reader.what # "detail" /\ ~HasNext(reader)

\* What was in the list all the time and on none of the pages.
Missed == reader.present \ reader.seen

\* Whoever turns over all pages of the assessments misses at most as many as were
\* deleted meanwhile or were inserted between the count of the last page, which
\* decides that it is the last, and its rows.
MissedNeedDeletes ==
    Finished /\ reader.what = "assessments" =>
        Cardinality(Missed) <= reader.left + reader.squeezed

\* He meets an assessment again at most as often as an import was committed
\* meanwhile, wherever in the list the import's created_at puts it.
RepeatsNeedImports ==
    reader.what = "assessments" => reader.repeats <= reader.entered

\* The pages of findings, assets and evidence can repeat rows, for want of a total
\* order, while the assessment does not change: they then miss as many as they
\* repeat, so that a reading without a repeat is complete.
RepeatsHideRows ==
    Finished /\ reader.what \in Kinds /\ reader.left = 0 /\ reader.entered = 0 =>
        Cardinality(Missed) = reader.repeats

\* The four counts of a detail are those of the whole assessment, and its severities
\* add up to its findings, unless it was deleted while they were taken.
DetailAgrees ==
    reader.at = "shown" /\ reader.what = "detail" /\ reader.left = 0 =>
        /\ \A k \in Kinds : reader.counted[k] = ChildrenOf(k)
        /\ reader.counted["severities"] = ChildrenOf("findings")
=============================================================================
