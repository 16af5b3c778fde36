------------------------------ MODULE ReviewsView ------------------------------
(***************************************************************************)
(* The review queue on the screen, ReviewsView.tsx: a page of findings     *)
(* under filters, decisions on one or on several of them, exports, and the *)
(* viewer that leads from finding to finding.                              *)
(*                                                                         *)
(* screen.server is the status every finding has on the server.  Other     *)
(* reviewers change it too, analyses insert findings while the screen is   *)
(* open, and who deletes a case deletes its findings.  A decision is       *)
(* executed when its answer arrives, or when it fails to arrive.           *)
(***************************************************************************)
EXTENDS AppShell, SequencesExt

CONSTANTS Findings,    \* whatever is found while the screen is open
          Order,       \* the findings, as the server lists those it has
          CaseOf,      \* CaseOf[f]: the case of finding f
          Severity,    \* Severity[f]
          Description, \* Description[f]: what the viewer tells findings by
          Filters,     \* the status and the severity that the screen filters by
          pageSize, pageLimit, \* rows of a page of the list, and of an export
          NoFinding,
          MaxSettled   \* bound: findings decided or deleted when one more is

ASSUME FindingsAssumption ==
  /\ Order \in Seq(Findings) /\ IsInjective(Order) /\ Range(Order) = Findings
  /\ CaseOf \in [Findings -> Cases]
ASSUME PagesAssumption == pageSize \in Nat \ {0} /\ pageLimit \in Nat \ {0}

Statuses == {"OPEN", "APPROVED", "REJECTED", "RESOLVED"}
Gone     == {"absent", "deleted"}
Queries  == [case : Cases \cup {NoCase}, filter : Filters, page : Nat \ {0}]
Rows     == [finding : Findings, status : Statuses]
Actions  == {"approve", "reject", "resolve"}
Viewers  == [case : Cases, finding : Findings, index : Nat \ {0}]
Exports  == [state : {"none"}]
              \cup [state : {"paging", "whole", "cut"}, query : Queries, got : Seq(Findings),
                    began : SUBSET Findings, came : BOOLEAN, left : BOOLEAN]

(***************************************************************************)
(* buildReviewQuery, and what the server answers to it: the findings that  *)
(* match from an offset on, and how many match.                            *)
(***************************************************************************)
Query(s, c) == [case |-> c, filter |-> s.filter, page |-> s.page]

Matches(q, f, status) ==
  /\ status \notin Gone
  /\ q.case \in {NoCase, CaseOf[f]}
  /\ q.filter.status \in {"all", status}
  /\ q.filter.severity \in {"all", Severity[f]}

Matching(q, server) ==
  LET among[n \in 0..Len(Order)] ==   \* those among the first n
        IF n = 0 THEN <<>>
        ELSE IF Matches(q, Order[n], server[Order[n]])
             THEN Append(among[n - 1], Order[n])
             ELSE among[n - 1]
  IN  among[Len(Order)]

Window(list, limit, offset) == SubSeq(list, offset + 1, Min({offset + limit, Len(list)}))

NoViewer == [case |-> NoCase, finding |-> NoFinding, index |-> 0]
NoExport == [state |-> "none"]

ReviewsScreens ==
  [server : [Findings -> Statuses \cup Gone], filter : Filters, page : Nat \ {0}, rows : Seq(Rows),
   total : Nat, loading : BOOLEAN, loadError : BOOLEAN, lists : SUBSET Queries,
   decisions : SUBSET [ids : SUBSET Findings, action : Actions, batch : BOOLEAN, query : Queries],
   selected : SUBSET Findings, opening : SUBSET Viewers, viewer : Viewers \cup {NoViewer},
   export : Exports]

Initially == [status |-> "OPEN", severity |-> "all"]

ReviewsOpened(server) ==
  [server |-> server, filter |-> Initially, page |-> 1, rows |-> <<>>, total |-> 0,
   loading |-> FALSE, loadError |-> FALSE, lists |-> {}, decisions |-> {},
   selected |-> {}, opening |-> {}, viewer |-> NoViewer, export |-> NoExport]

------------------------------------------------------------------------------
(***************************************************************************)
(* fetchReviews, with the query of the rendering it was made in.           *)
(***************************************************************************)
fetchReviews(s, q) ==
  [s EXCEPT !.loading = TRUE, !.loadError = FALSE, !.lists = @ \cup {q}]

(***************************************************************************)
(* A mutant: the effect does not depend on the filters.                    *)
(***************************************************************************)
RefilteredByCase(s, c) ==
  IF c = activeCaseId /\ s.page = screen.page THEN s
  ELSE [fetchReviews(s, Query(s, c)) EXCEPT !.selected = {}]

(***************************************************************************)
(* The effect of a changed case, filter or page: the list is asked for,    *)
(* and the selection is reset.                                             *)
(***************************************************************************)
Refiltered(s, c) ==
  IF Query(s, c) = Query(screen, activeCaseId) THEN s
  ELSE [fetchReviews(s, Query(s, c)) EXCEPT !.selected = {}]

ReviewsMounted(server, c) ==
  LET s == ReviewsOpened(server) IN fetchReviews(s, Query(s, c))

(***************************************************************************)
(* A file that was exported is on disk, and forgotten by the screen.       *)
(***************************************************************************)
Show(s) == Become([s EXCEPT !.export = IF @ = screen.export /\ @.state # "paging"
                                       THEN NoExport ELSE @])

RowsShown == ~screen.loading /\ ~screen.loadError /\ screen.rows # <<>>
ListedIds == {screen.rows[i].finding : i \in DOMAIN screen.rows}

(***************************************************************************)
(* The requests of the screen in flight: MaxInFlight bounds them, MaxJobs  *)
(* those that are not for a list, which start, and have single rows        *)
(* selected for them, when no list is on its way.                          *)
(***************************************************************************)
Jobs ==
  Cardinality(screen.decisions) + Cardinality(screen.opening)
    + (IF screen.export.state = "paging" THEN 1 ELSE 0)
MayFetch == Jobs + Cardinality(screen.lists) < MaxInFlight
MayStart == screen.lists = {} /\ Jobs < MaxJobs

(***************************************************************************)
(* An answer of the list is shown whatever was asked for since.            *)
(***************************************************************************)
ListAnswer(q) ==
  LET s == [screen EXCEPT !.lists = @ \ {q}, !.loading = FALSE]
      list == Matching(q, screen.server)
      rows == Window(list, pageSize, (q.page - 1) * pageSize)
  IN  /\ q \in screen.lists
      /\ \/ Show([s EXCEPT !.total = Len(list),
                    !.rows = [i \in DOMAIN rows |->
                                [finding |-> rows[i], status |-> screen.server[rows[i]]]]])
         \/ Show([s EXCEPT !.rows = <<>>, !.total = 0, !.loadError = TRUE])

Retry ==
  /\ screen.loadError /\ ~screen.loading /\ MayFetch
  /\ Show(fetchReviews(screen, Query(screen, activeCaseId)))

FilterCase(c) ==
  /\ c # activeCaseId /\ MayFetch
  /\ BecomeWithCase(Refiltered([screen EXCEPT !.page = 1], c), c)

FilterRows(filter) ==
  /\ filter # screen.filter /\ MayFetch
  /\ Show(Refiltered([screen EXCEPT !.filter = filter, !.page = 1], activeCaseId))

totalPages == Max({1, (screen.total + pageSize - 1) \div pageSize})

TurnTo(page) ==
  /\ RowsShown /\ MayFetch
  /\ page \in {screen.page - 1, screen.page + 1} /\ page \in 1..Max({totalPages, screen.page})
  /\ Show(Refiltered([screen EXCEPT !.page = page], activeCaseId))

------------------------------------------------------------------------------
Result == [approve |-> "APPROVED", reject |-> "REJECTED", resolve |-> "RESOLVED"]

(***************************************************************************)
(* The buttons of a row.                                                   *)
(***************************************************************************)
Offered(status) == CASE status = "OPEN"     -> {"approve", "reject"}
                     [] status = "APPROVED" -> {"resolve"}
                     [] OTHER               -> {}

(***************************************************************************)
(* What was decided or deleted so far, a resolution counting twice.        *)
(***************************************************************************)
MaySettle ==
  Cardinality({f \in Findings : screen.server[f] \notin {"absent", "OPEN"}})
    + Cardinality({f \in Findings : screen.server[f] = "RESOLVED"}) < MaxSettled

decideReview(ids, action, batch) ==
  /\ MayStart /\ MaySettle
  /\ Show([screen EXCEPT !.decisions = @ \cup {[ids |-> ids, action |-> action, batch |-> batch,
                                                query |-> Query(screen, activeCaseId)]}])

handleAction(i, action) ==
  /\ RowsShown /\ action \in Offered(screen.rows[i].status)
  /\ decideReview({screen.rows[i].finding}, action, FALSE)

toggleSelectOne(f) ==
  /\ RowsShown /\ f \in ListedIds /\ MayStart
  /\ Show([screen EXCEPT !.selected = IF f \in @ THEN @ \ {f} ELSE @ \cup {f}])

(***************************************************************************)
(* The button is enabled while the list is loading: then the rows it takes *)
(* are those of the list before.                                           *)
(***************************************************************************)
toggleSelectAllVisible ==
  /\ screen.rows # <<>> /\ Jobs < MaxJobs
  /\ Show([screen EXCEPT !.selected = IF ListedIds \subseteq @ THEN @ \ ListedIds
                                                               ELSE @ \cup ListedIds])

clearSelection == screen.selected # {} /\ Show([screen EXCEPT !.selected = {}])

batchActionLoading == \E d \in screen.decisions : d.batch

handleBatchAction(action) ==
  screen.selected # {} /\ ~batchActionLoading /\ decideReview(screen.selected, action, TRUE)

(***************************************************************************)
(* The server decides what is OPEN, and resolves what is decided.          *)
(***************************************************************************)
Allowed(status, action) ==
  IF action = "resolve" THEN status \in {"APPROVED", "REJECTED"} ELSE status = "OPEN"

Executed(server, ids, action) ==
  [f \in Findings |-> IF f \in ids /\ Allowed(server[f], action) THEN Result[action] ELSE server[f]]

(***************************************************************************)
(* The server changes.  An export remembers whether a finding came that it *)
(* matches, or left, while it went on.                                     *)
(***************************************************************************)
Matched(q, server) == {f \in Findings : Matches(q, f, server[f])}

Disturbed(e, server, next) ==
  LET old == Matched(e.query, server)
      new == Matched(e.query, next)
  IN  [e EXCEPT !.came = @ \/ ~(new \subseteq old), !.left = @ \/ ~(old \subseteq new)]

Serve(s, server) ==
  [s EXCEPT !.server = server,
            !.export = IF @.state = "paging" THEN Disturbed(@, s.server, server) ELSE @]

(***************************************************************************)
(* The answer of a decision: the list is asked for again, with the query   *)
(* of the rendering the button was pressed in.  A batch answers even when  *)
(* all of it was refused; a single decision is an error then.  An answer   *)
(* that is lost may have been executed all the same.                       *)
(***************************************************************************)
DecisionAnswer(d) ==
  LET done == Executed(screen.server, d.ids, d.action)
      s == [screen EXCEPT !.decisions = @ \ {d}]
  IN  /\ d \in screen.decisions
      /\ \/ /\ d.batch \/ done # screen.server
            /\ Show([fetchReviews(Serve(s, done), d.query)
                       EXCEPT !.selected = IF d.batch THEN {} ELSE @])
         \/ Show(Serve(s, done))
         \/ Show(s)

OthersDecide(f, action) ==
  /\ MaySettle /\ Allowed(screen.server[f], action)
  /\ Show(Serve(screen, Executed(screen.server, {f}, action)))

(***************************************************************************)
(* ReviewService.create_many: an analysis of a case inserts its findings   *)
(* at once.  They are listed by when that began, before some that are      *)
(* there and after others.                                                 *)
(***************************************************************************)
AnalysisFinds(new) ==
  /\ new # {} /\ \A f \in new : screen.server[f] = "absent"
  /\ \A f, g \in new : CaseOf[f] = CaseOf[g]
  /\ Show(Serve(screen, [f \in Findings |-> IF f \in new THEN "OPEN" ELSE screen.server[f]]))

(***************************************************************************)
(* CaseService.delete: the findings are deleted with their case.           *)
(***************************************************************************)
CaseDeleted(c) ==
  LET lost == {f \in Findings : CaseOf[f] = c /\ screen.server[f] \notin Gone}
  IN  /\ lost # {} /\ MaySettle
      /\ Show(Serve(screen, [f \in Findings |-> IF f \in lost THEN "deleted" ELSE screen.server[f]]))

------------------------------------------------------------------------------
(***************************************************************************)
(* The viewer covers the screen.  Opening it, or going on to a finding of  *)
(* another case, asks for the documents of the case first; within the case *)
(* it is immediate.                                                        *)
(***************************************************************************)
ViewerOf(f, i) == [case |-> CaseOf[f], finding |-> f, index |-> i]
ViewerOpen == screen.viewer # NoViewer

handleOpenSplitForFinding(i) ==
  /\ RowsShown /\ MayStart
  /\ Show([screen EXCEPT !.opening = @ \cup {ViewerOf(screen.rows[i].finding, i)}])

(***************************************************************************)
(* A mutant: the documents are kept when the finding is of another case.   *)
(***************************************************************************)
handleNavigateFindingAnyCase(i) ==
  /\ i \in {screen.viewer.index - 1, screen.viewer.index + 1}
  /\ Show([screen EXCEPT !.viewer.finding = screen.rows[i].finding, !.viewer.index = i])

handleNavigateFinding(i) ==
  LET f == screen.rows[i].finding
  IN  /\ i \in {screen.viewer.index - 1, screen.viewer.index + 1}
      /\ IF CaseOf[f] = screen.viewer.case
         THEN Show([screen EXCEPT !.viewer.finding = f, !.viewer.index = i])
         ELSE MayStart /\ Show([screen EXCEPT !.opening = @ \cup {ViewerOf(f, i)}])

CaseAnswer(v) ==
  LET s == [screen EXCEPT !.opening = @ \ {v}]
  IN  /\ v \in screen.opening
      /\ Show([s EXCEPT !.viewer = v]) \/ Show([s EXCEPT !.loadError = TRUE])

CloseViewer == Show([screen EXCEPT !.viewer = NoViewer])

(***************************************************************************)
(* Approve and Reject of the viewer take the first row with its finding's  *)
(* description, and nothing when there is none any more.                   *)
(***************************************************************************)
DecideInViewer(action) ==
  LET alike == {i \in DOMAIN screen.rows :
                  Description[screen.rows[i].finding] = Description[screen.viewer.finding]}
  IN  /\ alike # {} /\ action # "resolve"
      /\ decideReview({screen.rows[Min(alike)].finding}, action, FALSE)

------------------------------------------------------------------------------
(***************************************************************************)
(* Exports.  With a selection, the selected rows of the page are written   *)
(* at once; otherwise everything the filters match is fetched page by page *)
(* first.  After an error the file has what had been fetched, or the page. *)
(***************************************************************************)
fetchAllFindingsForExport ==
  /\ screen.selected = {} /\ screen.export.state # "paging" /\ MayStart
  /\ Show([screen EXCEPT !.export = [state |-> "paging", query |-> Query(screen, activeCaseId),
                      got |-> <<>>, came |-> FALSE, left |-> FALSE,
                      began |-> Matched(Query(screen, activeCaseId), screen.server)]])

(***************************************************************************)
(* A mutant: a full page ends the export as well.                          *)
(***************************************************************************)
ExportAnswerFirstPage ==
  LET e == screen.export
      batch == Window(Matching(e.query, screen.server), pageLimit, 0)
  IN  /\ e.state = "paging"
      /\ Show([screen EXCEPT !.export.got = batch, !.export.state = "whole"])

(***************************************************************************)
(* A mutant: the last row that was fetched is fetched again.               *)
(***************************************************************************)
OffsetOfLast(e) == Max({0, Len(e.got) - 1})
Offset(e) == Len(e.got)

ExportAnswer ==
  LET e == screen.export
      list == Matching(e.query, screen.server)
      batch == Window(list, pageLimit, Offset(e))
      got == e.got \o batch
      ends == Len(batch) < pageLimit \/ Len(got) >= Len(list)
  IN  /\ e.state = "paging"
      /\ \/ Show([screen EXCEPT !.export.got = got, !.export.state = IF ends THEN "whole" ELSE @])
         \/ Show([screen EXCEPT !.loadError = TRUE, !.export.state = "cut",
                    !.export.got = IF @ # <<>> THEN @
                                   ELSE [i \in DOMAIN screen.rows |-> screen.rows[i].finding]])

ReviewsNext ==
  /\ currentTab = "reviews" /\ UNCHANGED <<currentTab, pending>>
  /\ \/ \E q \in screen.lists : ListAnswer(q)
     \/ \E d \in screen.decisions : DecisionAnswer(d)
     \/ \E v \in screen.opening : CaseAnswer(v)
     \/ ExportAnswer
     \/ \E f \in Findings, a \in Actions : OthersDecide(f, a)
     \/ \E new \in SUBSET Findings : AnalysisFinds(new)
     \/ \E c \in Cases : CaseDeleted(c)
     \/ /\ ViewerOpen
        /\ \/ CloseViewer
           \/ \E i \in DOMAIN screen.rows : handleNavigateFinding(i)
           \/ \E a \in Actions : DecideInViewer(a)
     \/ /\ ~ViewerOpen
        /\ \/ Retry
           \/ \E p \in 1..Cardinality(Findings) : TurnTo(p)
           \/ \E c \in Cases \cup {NoCase} : FilterCase(c)
           \/ \E filter \in Filters : FilterRows(filter)
           \/ \E i \in DOMAIN screen.rows :
                handleOpenSplitForFinding(i) \/ \E a \in Actions : handleAction(i, a)
           \/ \E f \in Findings : toggleSelectOne(f)
           \/ toggleSelectAllVisible \/ clearSelection
           \/ \E a \in Actions : handleBatchAction(a)
           \/ fetchAllFindingsForExport

------------------------------------------------------------------------------
(***************************************************************************)
(* The rows at rest are rows of the filters on display, unless an answer   *)
(* to an older query came last (ReviewsView.tsx:159-162): the effect asks  *)
(* again for every change of the case, the filters or the page.            *)
(***************************************************************************)
RowsFiltered ==
  currentTab = "reviews" /\ RowsShown /\ screen.lists = {} =>
    \A i \in DOMAIN screen.rows :
      Matches(Query(screen, activeCaseId), screen.rows[i].finding, screen.rows[i].status)

LateListsOnly ==
  [][RowsFiltered /\ ~RowsFiltered' =>
       \E q \in screen.lists \ screen'.lists : q # Query(screen, activeCaseId)]_vars

(***************************************************************************)
(* The viewer shows a finding with the documents of its own case, whatever *)
(* was asked for while the documents of another case were on their way     *)
(* (ReviewsView.tsx:100-117).                                              *)
(***************************************************************************)
ViewerOfOneCase ==
  currentTab = "reviews" /\ ViewerOpen => screen.viewer.case = CaseOf[screen.viewer.finding]

(***************************************************************************)
(* An export that meets no error has everything that matches, once and in  *)
(* order, when nothing that it matches came or left meanwhile: it pages    *)
(* through until the total is covered (the comment at                      *)
(* ReviewsView.tsx:270-272).                                               *)
(***************************************************************************)
ExportIsWhole ==
  currentTab = "reviews" /\ screen.export.state = "whole"
    /\ ~screen.export.came /\ ~screen.export.left =>
    screen.export.got = Matching(screen.export.query, screen.server)

(***************************************************************************)
(* The offset of the next page counts what has been fetched                *)
(* (ReviewsView.tsx:278-286): what leaves the list meanwhile makes the     *)
(* export pass over findings, but not repeat one, and what comes makes it  *)
(* repeat some, but not lose one that was there.                           *)
(***************************************************************************)
ExportsDrift ==
  LET e == screen.export
  IN  currentTab = "reviews" /\ e.state \in {"paging", "whole"} =>
        /\ ~e.came => IsInjective(e.got)
        /\ ~e.left /\ e.state = "whole" => e.began \subseteq Range(e.got)
===============================================================================
