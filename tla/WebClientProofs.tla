---------------------------- MODULE WebClientProofs ----------------------------
(***************************************************************************)
(* What the chat, the audit trail, the case screen and the review screen   *)
(* promise, whatever the user does on the other screens and in whatever    *)
(* order answers arrive: proofs for every number of cases, documents and   *)
(* findings, and without the bounds.                                       *)
(***************************************************************************)
EXTENDS WebClient, SequenceTheorems, WellFoundedInduction, TLAPS

LEMMA CasesKeepScope ==
  ASSUME activeCaseId \in Scopes, CasesNext
  PROVE  currentTab' = "cases" /\ activeCaseId' \in Scopes
<1> SUFFICES activeCaseId' \in Scopes
  BY DEF CasesNext
<1>2. ASSUME NEW g \in screen.gets, DetailAnswer(g) \/ RunAnswer(g) PROVE activeCaseId' \in Scopes
  BY <1>2 DEF DetailAnswer, RunAnswer, Become
<1>3. CASE PollAnswer BY <1>3 DEF PollAnswer, Become
<1>4. ASSUME NEW c, RefreshAnswer(c) PROVE activeCaseId' \in Scopes
  BY <1>4 DEF RefreshAnswer, Become
<1>5. ASSUME NEW c, DeleteAnswer(c) PROVE activeCaseId' \in Scopes
  BY <1>5 DEF DeleteAnswer, Become, BecomeWithCase, Scopes
<1>6. ASSUME NEW c \in Cases, OpenCase(c) \/ RunGoesOn(c) PROVE activeCaseId' \in Scopes
  BY <1>6 DEF OpenCase, RunGoesOn, Become, BecomeWithCase, Scopes
<1>7. CASE BackToCases \/ CreateAnswer
  BY <1>7 DEF BackToCases, CreateAnswer, Become, BecomeWithCase, Scopes
<1>8. CASE \/ DismissErrors \/ handleCreateCase \/ handleUploadPack \/ UploadAnswer
           \/ handleRunAnalysis \/ AnalysisAnswer \/ ConfirmDelete \/ handleDeleteCase
  BY <1>8 DEF DismissErrors, handleCreateCase, handleUploadPack, UploadAnswer, handleRunAnalysis,
              AnalysisAnswer, ConfirmDelete, handleDeleteCase, Become
<1> QED
  BY <1>2, <1>3, <1>4, <1>5, <1>6, <1>7, <1>8 DEF CasesNext

\* A step of others that changes the server of the review screen.
ServerMoves ==
  \/ \E f \in Findings, a \in Actions : OthersDecide(f, a)
  \/ \E new \in SUBSET Findings : AnalysisFinds(new)
  \/ \E c \in Cases : CaseDeleted(c)

LEMMA ServerMovesServe ==
  ASSUME ServerMoves
  PROVE  \E server : Show(Serve(screen, server))
BY DEF ServerMoves, OthersDecide, AnalysisFinds, CaseDeleted

LEMMA ReviewsKeepScope ==
  ASSUME activeCaseId \in Scopes, ReviewsNext
  PROVE  currentTab' = "reviews" /\ activeCaseId' \in Scopes
<1> SUFFICES activeCaseId' \in Scopes
  BY DEF ReviewsNext
<1>2. ASSUME NEW c \in Cases \cup {NoCase}, FilterCase(c) PROVE activeCaseId' \in Scopes
  BY <1>2 DEF FilterCase, BecomeWithCase, Scopes
<1>3. ASSUME NEW s, Show(s) PROVE activeCaseId' \in Scopes
  BY <1>3 DEF Show, Become
<1>4. CASE (\E q \in screen.lists : ListAnswer(q)) \/ ExportAnswer
  <2>1. CASE \E q \in screen.lists : ListAnswer(q)
    BY <1>3, <2>1 DEF ListAnswer
  <2>2. CASE ExportAnswer
    BY <1>3, <2>2, Zenon DEF ExportAnswer
  <2> QED BY <1>4, <2>1, <2>2
<1>5. CASE \E d \in screen.decisions : DecisionAnswer(d)
  BY <1>3, <1>5 DEF DecisionAnswer
<1>6. CASE \E v \in screen.opening : CaseAnswer(v)
  BY <1>3, <1>6 DEF CaseAnswer
<1>7. CASE ServerMoves
  BY <1>3, <1>7, ServerMovesServe
<1>8. CASE CloseViewer \/ (\E i \in DOMAIN screen.rows : handleNavigateFinding(i))
  BY <1>3, <1>8 DEF CloseViewer, handleNavigateFinding
<1>9. CASE \E a \in Actions : DecideInViewer(a) \/ handleBatchAction(a)
  BY <1>3, <1>9 DEF DecideInViewer, handleBatchAction, decideReview
<1>10. CASE Retry \/ (\E p \in 1..Cardinality(Findings) : TurnTo(p))
                  \/ (\E filter \in Filters : FilterRows(filter))
  BY <1>3, <1>10 DEF Retry, TurnTo, FilterRows
<1>11. CASE \E i \in DOMAIN screen.rows :
              handleOpenSplitForFinding(i) \/ \E a \in Actions : handleAction(i, a)
  BY <1>3, <1>11 DEF handleOpenSplitForFinding, handleAction, decideReview
<1>12. CASE \/ \E f \in Findings : toggleSelectOne(f)
            \/ toggleSelectAllVisible \/ clearSelection \/ fetchAllFindingsForExport
  BY <1>3, <1>12 DEF toggleSelectOne, toggleSelectAllVisible, clearSelection,
                     fetchAllFindingsForExport
<1> QED
  BY <1>2, <1>4, <1>5, <1>6, <1>7, <1>8, <1>9, <1>10, <1>11, <1>12
     DEF ReviewsNext, ServerMoves

LEMMA AuditTrailKeepsScope ==
  ASSUME activeCaseId \in Scopes, AuditTrailNext
  PROVE  currentTab' = "audit_trail" /\ activeCaseId' \in Scopes
<1> SUFFICES activeCaseId' \in Scopes
  BY DEF AuditTrailNext
<1>2. CASE \E q \in screen.fetches : TrailAnswer(q)
  BY <1>2 DEF TrailAnswer, Become
<1>3. CASE \E c \in Cases \cup {NoCase}, search \in Searches : FilterTrail(c, search)
  BY <1>3 DEF FilterTrail, Become
<1>4. CASE RefreshTrail \/ ToggleForm \/ handleCreateAttestation \/ AttestationAnswer
  BY <1>4 DEF RefreshTrail, ToggleForm, handleCreateAttestation, AttestationAnswer, Become
<1>5. CASE \E c \in Cases : ChooseSignOffCase(c)
  BY <1>5 DEF ChooseSignOffCase, Become
<1> QED
  BY <1>2, <1>3, <1>4, <1>5 DEF AuditTrailNext

(***************************************************************************)
(* A step of the shell mounts a screen anew, tells the mounted one about   *)
(* another active case, or leaves it alone.                                *)
(***************************************************************************)
ShellShows ==
  /\ currentTab' = "ask" =>
       screen' = AskOpened \/ (currentTab = "ask" /\ screen' = screen)
  /\ currentTab' = "audit_trail" =>
       \/ \E first \in Cases \cup {NoCase} : screen' = AuditTrailMounted(activeCaseId', first)
       \/ currentTab = "audit_trail" /\ screen' \in {screen, AuditTrailSelect(screen, activeCaseId')}
  /\ currentTab' = "reviews" =>
       \/ \E server \in InitialStatuses : screen' = ReviewsMounted(server, activeCaseId')
       \/ currentTab = "reviews" /\ screen' = Refiltered(screen, activeCaseId')
       \/ currentTab = "reviews" /\ UNCHANGED <<screen, activeCaseId>>
  /\ currentTab' = "cases" =>
       \/ \E server \in CaseServers : screen' = CasesMounted(server, activeCaseId')
       \/ /\ currentTab = "cases"
          /\ \/ screen' = CasesSelect(screen, activeCaseId')
             \/ \E e : screen' = CasesSelect([screen EXCEPT !.exists = e], activeCaseId')

LEMMA ShellStep ==
  ASSUME activeCaseId \in Scopes, ShellNext
  PROVE  activeCaseId' \in Scopes /\ ShellShows
<1>1. ASSUME NEW tab, NEW c \in Scopes, NEW remaining, GoTo(tab, c, remaining)
      PROVE  activeCaseId' \in Scopes /\ ShellShows
  <2>1. CASE tab = currentTab
    BY <1>1, <2>1 DEF GoTo, Told, ShellShows
  <2>2. CASE tab # currentTab
    BY <1>1, <2>2 DEF GoTo, Mounted, ShellShows
  <2> QED BY <2>1, <2>2
<1>2. CASE Navigate
  <2>1. PICK target \in SidebarTargets \cup PaletteTargets \cup HomeTargets
                           \cup CasesTargets \cup AuditTrailTargets :
          GoTo(target[1], target[2], pending)
    BY <1>2 DEF Navigate
  <2>2. target[2] \in Scopes
    BY <2>1 DEF SidebarTargets, PaletteTargets, HomeTargets, CasesTargets, AuditTrailTargets, Scopes
  <2> QED BY <1>1, <2>1, <2>2
<1>3. CASE SampleAnswer
  BY <1>1, <1>3 DEF SampleAnswer, Scopes
<1>4. ASSUME NEW c \in Cases, LateCreateAnswer(c) \/ LateDeleteAnswer(c)
      PROVE  activeCaseId' \in Scopes /\ ShellShows
  <2>1. PICK s : /\ s = screen \/ \E e : s = [screen EXCEPT !.exists = e]
                 /\ currentTab # "cases" => s = screen
                 /\ screen' = Told(s, activeCaseId') /\ currentTab' = currentTab
                 /\ activeCaseId' \in Scopes
    BY <1>4 DEF LateCreateAnswer, LateDeleteAnswer, LateSelection, Scopes
  <2> QED BY <2>1 DEF Told, ShellShows
<1>5. CASE handleTrySampleCase \/ \E request \in pending : LateFailure(request)
  <2>1. UNCHANGED <<currentTab, activeCaseId, screen>>
    BY <1>5 DEF handleTrySampleCase, LateFailure
  <2>2. CasesSelect(screen, activeCaseId') = screen
    BY <2>1 DEF CasesSelect
  <2> QED BY <2>1, <2>2 DEF ShellShows
<1>6. CASE Reload
  BY <1>6 DEF Reload, Scopes, ShellShows
<1> QED
  BY <1>2, <1>3, <1>4, <1>5, <1>6 DEF ShellNext

------------------------------------------------------------------------------
(***************************************************************************)
(* A pane: what it shows agrees with its selection, and only the load of   *)
(* its selection is not cancelled.                                         *)
(***************************************************************************)
PaneInv(pane) ==
  /\ pane \in Panes
  /\ ShowsSelection(pane)
  /\ \A l \in pane.loads : ~l.cancelled => l.doc = pane.sel /\ pane.loading

LEMMA OpenedPane ==
  ASSUME NEW d \in Documents
  PROVE  PaneInv(PaneOpened(d))
  BY DEF PaneInv, PaneOpened, Panes, Loads, ShowsSelection

LEMMA SelectedPane ==
  ASSUME NEW pane, PaneInv(pane), NEW d \in Documents
  PROVE  PaneInv(Selected(pane, d))
<1> CASE d = pane.sel BY DEF Selected
<1> CASE d # pane.sel
  <2> DEFINE loads == {[l EXCEPT !.cancelled = TRUE] : l \in pane.loads}
                         \cup {[doc |-> d, cancelled |-> FALSE]}
  <2>1. ASSUME NEW k \in loads PROVE k \in Loads /\ (~k.cancelled => k.doc = d)
    <3>1. CASE k = [doc |-> d, cancelled |-> FALSE]
      BY <3>1 DEF Loads
    <3>2. ASSUME NEW l \in pane.loads, k = [l EXCEPT !.cancelled = TRUE]
          PROVE  k \in Loads /\ k.cancelled
      <4>1. l \in Loads BY DEF PaneInv, Panes
      <4> QED BY <3>2, <4>1 DEF Loads
    <3> QED BY <3>1, <3>2
  <2> QED BY <2>1 DEF Selected, PaneInv, Panes, ShowsSelection
<1> QED OBVIOUS

LEMMA LoadedPane ==
  ASSUME NEW pane, PaneInv(pane), NEW l \in pane.loads, NEW ok \in BOOLEAN
  PROVE  PaneInv(Loaded(pane, l, ok))
<1> pane \in Panes /\ l \in Loads
  BY DEF PaneInv, Panes
<1> CASE l.cancelled BY DEF Loaded, PaneInv, Panes, ShowsSelection
<1> CASE ~l.cancelled
  <2>1. \A k \in pane.loads \ {l} : k.cancelled
    BY DEF PaneInv, Panes, Loads
  <2>2. l.doc = pane.sel /\ l.doc \in Documents /\ pane.loading /\ ~pane.error
    BY DEF PaneInv, ShowsSelection, Loads
  <2> QED BY <2>1, <2>2, NoDocumentAssumption DEF Loaded, PaneInv, Panes, ShowsSelection
<1> QED OBVIOUS

------------------------------------------------------------------------------
(***************************************************************************)
(* The conversation: questions and answers alternate, at most one question *)
(* waits, and when none does the last message is an answer.                *)
(***************************************************************************)
Alternates(m) ==
  \A i \in 1..Len(m) :
    IF i % 2 = 1 THEN m[i].role = "user"
    ELSE m[i].role = "assistant" /\ m[i].scope = m[i - 1].scope

Conversation(s) ==
  /\ Alternates(s.messages)
  /\ \A q \in s.questions :
       /\ Alternates(q.messages)
       /\ Len(q.messages) % 2 = 1 /\ q.messages[Len(q.messages)].scope = q.scope
  /\ \A p, q \in s.questions : p = q
  /\ ~s.loading => s.questions = {} /\ Len(s.messages) % 2 = 0

ChatInv(s) ==
  /\ s \in AskScreens
  /\ Conversation(s)
  /\ s.viewer # ClosedPanes => \A side \in Sides : PaneInv(s.viewer[side])

LEMMA AskOpenedInv == ChatInv(AskOpened)
<1>1. AskOpened \in AskScreens
  BY DEF AskOpened, AskScreens, Questions
<1> QED BY <1>1 DEF ChatInv, AskOpened, Conversation, Alternates

LEMMA ElsewhereInv ==
  ASSUME NEW s, NEW t, ChatInv(s), t \in AskScreens, t.messages = s.messages,
         t.loading = s.loading, t.questions = s.questions, t.viewer = s.viewer
  PROVE  ChatInv(t)
  BY DEF ChatInv, Conversation

(***************************************************************************)
(* A message in its place, and that what is appended moves no message.     *)
(***************************************************************************)
Placed(m, i) ==
  IF i % 2 = 1 THEN m[i].role = "user"
               ELSE m[i].role = "assistant" /\ m[i].scope = m[i - 1].scope

LEMMA AlternatesPlaced ==
  ASSUME NEW m
  PROVE  Alternates(m) <=> \A i \in 1..Len(m) : Placed(m, i)
  BY Zenon DEF Alternates, Placed

LEMMA PlacedAsBefore ==
  ASSUME NEW m, NEW n, NEW k \in Nat, Len(m) = k, Alternates(m),
         \A j \in 1..k : n[j] = m[j], NEW i \in 1..k
  PROVE  Placed(n, i)
<1>1. Placed(m, i) /\ n[i] = m[i] BY AlternatesPlaced
<1>2. CASE i % 2 = 1 BY <1>1, <1>2 DEF Placed
<1>3. CASE i % 2 # 1
  <2>1. i - 1 \in 1..k BY <1>3
  <2>2. n[i - 1] = m[i - 1] BY <2>1
  <2> QED BY <1>1, <1>3, <2>2 DEF Placed
<1> QED BY <1>2, <1>3

LEMMA QuestionAsked ==
  ASSUME NEW m \in Seq(Messages), Alternates(m), Len(m) % 2 = 0, NEW c \in Scopes
  PROVE  LET n == Append(m, [role |-> "user", scope |-> c])
         IN  n \in Seq(Messages) /\ Alternates(n) /\ Len(n) % 2 = 1 /\ n[Len(n)].scope = c
<1> DEFINE e == [role |-> "user", scope |-> c]
           n == Append(m, e)
<1>1. e \in Messages BY DEF Messages
<1>2. /\ n \in Seq(Messages) /\ Len(n) = Len(m) + 1 /\ n[Len(n)] = e
      /\ \A i \in 1..Len(m) : n[i] = m[i]
  BY <1>1
<1>3. Len(m) \in Nat OBVIOUS
<1> HIDE DEF n
<1>4. Len(n) % 2 = 1 BY <1>2, <1>3
<1>5. Alternates(n)
  <2> SUFFICES ASSUME NEW i \in 1..Len(n)
               PROVE  Placed(n, i)
    BY AlternatesPlaced
  <2>1. CASE i \in 1..Len(m)
    BY <2>1, <1>2, <1>3, PlacedAsBefore
  <2>2. CASE i = Len(m) + 1
    BY <2>2, <1>2, <1>4 DEF Placed, e
  <2> QED BY <2>1, <2>2, <1>2, <1>3
<1> QED BY <1>2, <1>4, <1>5 DEF n, e

LEMMA QuestionAnswered ==
  ASSUME NEW m \in Seq(Messages), Alternates(m), Len(m) % 2 = 1, NEW c \in Scopes,
         m[Len(m)].scope = c
  PROVE  LET n == Append(m, [role |-> "assistant", scope |-> c])
         IN  n \in Seq(Messages) /\ Alternates(n) /\ Len(n) % 2 = 0
<1> DEFINE e == [role |-> "assistant", scope |-> c]
           n == Append(m, e)
<1>1. e \in Messages BY DEF Messages
<1>2. /\ n \in Seq(Messages) /\ Len(n) = Len(m) + 1 /\ n[Len(n)] = e
      /\ \A i \in 1..Len(m) : n[i] = m[i]
  BY <1>1
<1>3. Len(m) \in Nat /\ Len(m) >= 1 OBVIOUS
<1> HIDE DEF n
<1>4. Len(n) % 2 = 0 BY <1>2, <1>3
<1>5. Alternates(n)
  <2> SUFFICES ASSUME NEW i \in 1..Len(n)
               PROVE  Placed(n, i)
    BY AlternatesPlaced
  <2>1. CASE i \in 1..Len(m)
    BY <2>1, <1>2, <1>3, PlacedAsBefore
  <2>2. CASE i = Len(m) + 1
    <3>1. n[i] = e /\ n[i - 1].scope = c
      BY <2>2, <1>2, <1>3
    <3>2. i % 2 = 0 BY <2>2, <1>2, <1>4
    <3> QED BY <3>1, <3>2 DEF Placed, e
  <2> QED BY <2>1, <2>2, <1>2, <1>3
<1> QED BY <1>2, <1>4, <1>5 DEF n

------------------------------------------------------------------------------
(***************************************************************************)
(* The actions of the chat.                                                *)
(***************************************************************************)
LEMMA SendKeepsInv ==
  ASSUME activeCaseId \in Scopes, ChatInv(screen), handleSendMessage
  PROVE  ChatInv(screen')
<1> DEFINE n == Append(screen.messages, [role |-> "user", scope |-> AskScope])
           q == [messages |-> n, scope |-> AskScope, inspectorOpen |-> screen.inspectorOpen]
<1>1. screen \in AskScreens /\ ~screen.loading /\ screen.questions = {}
  BY DEF ChatInv, Conversation, handleSendMessage
<1>2. AskScope \in Scopes
  BY DEF AskScope, Scopes
<1>3. n \in Seq(Messages) /\ Alternates(n) /\ Len(n) % 2 = 1 /\ n[Len(n)].scope = AskScope
  BY <1>1, <1>2, QuestionAsked DEF ChatInv, Conversation, AskScreens
<1> HIDE DEF n
<1>4. q \in Questions
  BY <1>1, <1>2, <1>3 DEF Questions, AskScreens
<1>5. screen' = [screen EXCEPT !.messages = n, !.loading = TRUE, !.questions = {q}]
  BY <1>1 DEF handleSendMessage, Become, n
<1>6. screen' \in AskScreens
  BY <1>1, <1>3, <1>4, <1>5 DEF AskScreens
<1>7. screen'.messages = n /\ screen'.loading /\ screen'.questions = {q}
      /\ screen'.viewer = screen.viewer
  BY <1>1, <1>5 DEF AskScreens
<1> QED BY <1>3, <1>6, <1>7 DEF ChatInv, Conversation

LEMMA AnswerKeepsInv ==
  ASSUME ChatInv(screen), NEW q \in screen.questions, QueryAnswer(q)
  PROVE  ChatInv(screen')
<1> DEFINE n == Append(q.messages, [role |-> "assistant", scope |-> q.scope])
<1>1. screen \in AskScreens /\ q \in Questions
  BY DEF ChatInv, AskScreens
<1>2. screen.questions \ {q} = {}
  BY DEF ChatInv, Conversation
<1>3. n \in Seq(Messages) /\ Alternates(n) /\ Len(n) % 2 = 0
  BY <1>1, QuestionAnswered DEF ChatInv, Conversation, Questions
<1> HIDE DEF n
<1>4. PICK cited \in BOOLEAN :
        screen' = [screen EXCEPT !.questions = {}, !.loading = FALSE, !.messages = n,
                     !.selectedCitation = @ \/ (cited /\ ~q.inspectorOpen)]
  BY <1>2 DEF QueryAnswer, Become, n
<1>5. screen' \in AskScreens
  BY <1>1, <1>3, <1>4 DEF AskScreens
<1>6. screen'.messages = n /\ ~screen'.loading /\ screen'.questions = {}
      /\ screen'.viewer = screen.viewer
  BY <1>1, <1>4 DEF AskScreens
<1> QED BY <1>3, <1>5, <1>6 DEF ChatInv, Conversation

LEMMA ClearKeepsInv ==
  ASSUME ChatInv(screen), ClearConversation
  PROVE  ChatInv(screen')
<1> DEFINE n == <<>>
<1>1. screen \in AskScreens BY DEF ChatInv
<1>2. n \in Seq(Messages) /\ Alternates(n) /\ Len(n) % 2 = 0
  BY DEF Alternates
<1>3. screen' = [screen EXCEPT !.messages = n, !.selectedCitation = FALSE]
  BY DEF ClearConversation, Become
<1> HIDE DEF n
<1>4. screen' \in AskScreens
  BY <1>1, <1>2, <1>3 DEF AskScreens
<1>5. /\ screen'.messages = n /\ screen'.loading = screen.loading
      /\ screen'.questions = screen.questions /\ screen'.viewer = screen.viewer
  BY <1>1, <1>3 DEF AskScreens
<1> QED BY <1>2, <1>4, <1>5 DEF ChatInv, Conversation

LEMMA InspectorKeepsInv ==
  ASSUME activeCaseId \in Scopes, ChatInv(screen),
         \/ SearchAllCases \/ \E c \in Scopes : SelectScope(c)
         \/ openCitationInInspector \/ \E i \in DOMAIN ActiveDocs : openDocInInspector(i)
         \/ ToggleInspector \/ \E d \in screen.previews : PreviewAnswer(d)
  PROVE  ChatInv(screen')
<1>1. screen \in AskScreens BY DEF ChatInv
<1>2. ActiveDocs \in Seq(Documents)
  BY DocsOfAssumption DEF ActiveDocs, Scopes
<1>3. CASE SearchAllCases \/ ToggleInspector \/ \E c \in Scopes : SelectScope(c)
  <2>1. /\ screen' \in AskScreens /\ screen'.messages = screen.messages
        /\ screen'.loading = screen.loading /\ screen'.questions = screen.questions
        /\ screen'.viewer = screen.viewer
    BY <1>1, <1>3 DEF SearchAllCases, ToggleInspector, SelectScope, Become, BecomeWithCase,
                      AskScreens
  <2> QED BY <2>1, ElsewhereInv
<1>4. CASE openCitationInInspector
  <2>1. /\ screen' \in AskScreens /\ screen'.messages = screen.messages
        /\ screen'.loading = screen.loading /\ screen'.questions = screen.questions
        /\ screen'.viewer = screen.viewer
    BY <1>1, <1>4 DEF openCitationInInspector, Become, AskScreens
  <2> QED BY <2>1, ElsewhereInv
<1>5. CASE \E i \in DOMAIN ActiveDocs : openDocInInspector(i)
  <2>1. PICK i \in DOMAIN ActiveDocs : openDocInInspector(i)
    BY <1>5
  <2>2. ActiveDocs[i] \in Documents
    BY <1>2
  <2>3. /\ screen' \in AskScreens /\ screen'.messages = screen.messages
        /\ screen'.loading = screen.loading /\ screen'.questions = screen.questions
        /\ screen'.viewer = screen.viewer
    BY <1>1, <2>1, <2>2 DEF openDocInInspector, Become, AskScreens
  <2> QED BY <2>3, ElsewhereInv
<1>6. CASE \E d \in screen.previews : PreviewAnswer(d)
  <2>1. /\ screen' \in AskScreens /\ screen'.messages = screen.messages
        /\ screen'.loading = screen.loading /\ screen'.questions = screen.questions
        /\ screen'.viewer = screen.viewer
    BY <1>1, <1>6 DEF PreviewAnswer, Become, AskScreens
  <2> QED BY <2>1, ElsewhereInv
<1> QED BY <1>3, <1>4, <1>5, <1>6

LEMMA ViewerKeepsInv ==
  ASSUME activeCaseId \in Scopes, ChatInv(screen),
         \/ OpenSplitViewer \/ CloseSplitViewer
         \/ /\ SplitViewerOpen
            /\ \/ SwapPanes
               \/ \E side \in Sides, d \in Documents : SelectInPane(side, d)
               \/ \E side \in Sides : \E l \in screen.viewer[side].loads : DocumentAnswer(side, l)
  PROVE  ChatInv(screen')
<1>1. screen \in AskScreens BY DEF ChatInv
<1>2. ASSUME NEW v, screen' = [screen EXCEPT !.viewer = v],
             v = ClosedPanes \/ (v \in [Sides -> Panes] /\ \A side \in Sides : PaneInv(v[side]))
      PROVE  ChatInv(screen')
  <2>1. screen' \in AskScreens
    BY <1>1, <1>2 DEF AskScreens
  <2>2. /\ screen'.messages = screen.messages /\ screen'.loading = screen.loading
        /\ screen'.questions = screen.questions /\ screen'.viewer = v
    BY <1>1, <1>2 DEF AskScreens
  <2> QED BY <1>2, <2>1, <2>2 DEF ChatInv, Conversation
<1>3. CASE OpenSplitViewer
  <2> DEFINE left == IF screen.selectedDocPreview # NoDocument
                     THEN screen.selectedDocPreview ELSE ActiveDocs[1]
             v == ViewerOpened(left, ActiveDocs[2])
  <2>1. ActiveDocs \in Seq(Documents) /\ Len(ActiveDocs) >= 2
    BY <1>3, DocsOfAssumption DEF OpenSplitViewer, ActiveDocs, Scopes
  <2>2. left \in Documents /\ ActiveDocs[2] \in Documents
    BY <1>1, <2>1 DEF AskScreens
  <2>3. v \in [Sides -> Panes] /\ \A side \in Sides : PaneInv(v[side])
    BY <2>2, OpenedPane DEF ViewerOpened, PaneInv
  <2>4. screen' = [screen EXCEPT !.viewer = v]
    BY <1>3 DEF OpenSplitViewer, Become
  <2> QED BY <1>2, <2>3, <2>4
<1>4. CASE CloseSplitViewer
  BY <1>2, <1>4 DEF CloseSplitViewer, Become
<1>5. CASE SplitViewerOpen
  <2>1. /\ screen.viewer \in [Sides -> Panes]
        /\ \A side \in Sides : PaneInv(screen.viewer[side])
    BY <1>1, <1>5 DEF SplitViewerOpen, ChatInv, AskScreens
  <2>2. CASE SwapPanes
    <3> DEFINE v == handleSwap(screen.viewer)
    <3>1. \A side \in Sides : screen.viewer[side].sel \in Documents
      BY <2>1 DEF Panes
    <3>2. v \in [Sides -> Panes] /\ \A side \in Sides : PaneInv(v[side])
      BY <2>1, <3>1, SelectedPane DEF handleSwap, PaneInv, Sides
    <3> QED BY <1>2, <2>2, <3>2 DEF SwapPanes, Become
  <2>3. ASSUME NEW side \in Sides, NEW p, PaneInv(p),
               screen' = [screen EXCEPT !.viewer[side] = p]
        PROVE  ChatInv(screen')
    <3> DEFINE v == [screen.viewer EXCEPT ![side] = p]
    <3>1. v \in [Sides -> Panes] /\ \A t \in Sides : PaneInv(v[t])
      BY <2>1, <2>3 DEF PaneInv
    <3>2. screen' = [screen EXCEPT !.viewer = v]
      BY <2>3
    <3> QED BY <1>2, <3>1, <3>2
  <2>4. ASSUME NEW side \in Sides, NEW d \in Documents, SelectInPane(side, d)
        PROVE  ChatInv(screen')
    <3>1. screen' = [screen EXCEPT !.viewer[side] = Selected(screen.viewer[side], d)]
      BY <1>1, <2>4 DEF SelectInPane, Become, AskScreens
    <3> QED BY <2>1, <2>3, <3>1, SelectedPane
  <2>5. ASSUME NEW side \in Sides, NEW l \in screen.viewer[side].loads, DocumentAnswer(side, l)
        PROVE  ChatInv(screen')
    <3>1. PICK ok \in BOOLEAN :
            screen' = [screen EXCEPT !.viewer[side] = Loaded(screen.viewer[side], l, ok)]
      BY <1>1, <2>5 DEF DocumentAnswer, Become, AskScreens
    <3> QED BY <2>1, <2>3, <3>1, LoadedPane
  <2> QED BY <1>2, <1>4, <1>5, <1>3, <2>2, <2>4, <2>5
<1> QED BY <1>3, <1>4, <1>5

------------------------------------------------------------------------------
(***************************************************************************)
(* The audit trail: the verdict on display is that of the answer on        *)
(* display, and without an answer the screen loads or shows an error.      *)
(***************************************************************************)
TrailInv(s) ==
  /\ s \in AuditTrailScreens
  /\ s.chainValid <=> s.entries = "valid"
  /\ s.entries = "none" => s.loading \/ s.loadError

LEMMA FetchedTrail ==
  ASSUME NEW s, TrailInv(s), NEW q \in TrailQueries
  PROVE  TrailInv(fetchAuditTrail(s, q))
BY DEF TrailInv, fetchAuditTrail, AuditTrailScreens

LEMMA MountedTrail ==
  ASSUME NEW c \in Scopes, NEW first \in Cases \cup {NoCase}
  PROVE  TrailInv(AuditTrailMounted(c, first))
<1> DEFINE s == [entries |-> "none", chainValid |-> FALSE, loading |-> TRUE, loadError |-> FALSE,
                 filterAction |-> "ALL", activeCaseFilter |-> c, fetches |-> {},
                 attestationModalOpen |-> FALSE, attestCaseId |-> IF c = NoCase THEN first ELSE c,
                 submitting |-> NoSignOff]
<1>1. NoSignOff \in [case : Cases \cup {NoCase}, query : TrailQueries] \cup {NoSignOff}
  OBVIOUS
<1>2. TrailInv(s)
  BY <1>1, SearchesAssumption DEF TrailInv, AuditTrailScreens, Scopes
<1>3. TrailQuery(s) \in TrailQueries
  BY SearchesAssumption DEF TrailQuery, TrailQueries, Scopes
<1> QED BY <1>2, <1>3, FetchedTrail DEF AuditTrailMounted

LEMMA FilteredTrail ==
  ASSUME NEW s, TrailInv(s)
  PROVE  TrailInv(TrailFiltered(s))
<1>1. TrailQuery(s) \in TrailQueries
  BY DEF TrailInv, AuditTrailScreens, TrailQuery, TrailQueries
<1> QED BY <1>1, FetchedTrail DEF TrailFiltered

LEMMA SelectedTrail ==
  ASSUME NEW s, TrailInv(s), NEW c \in Scopes
  PROVE  TrailInv(AuditTrailSelect(s, c))
<1>1. TrailInv([s EXCEPT !.activeCaseFilter = c, !.attestCaseId = c])
  BY DEF TrailInv, AuditTrailScreens, Scopes
<1> QED BY <1>1, FilteredTrail DEF AuditTrailSelect

LEMMA AuditTrailKeepsInv ==
  ASSUME TrailInv(screen), AuditTrailNext
  PROVE  TrailInv(screen')
<1>1. screen \in AuditTrailScreens BY DEF TrailInv
<1>2. TrailQuery(screen) \in TrailQueries
  BY <1>1 DEF AuditTrailScreens, TrailQuery, TrailQueries
<1>3. ASSUME NEW q \in screen.fetches, TrailAnswer(q) PROVE TrailInv(screen')
  <2> DEFINE s == [screen EXCEPT !.fetches = screen.fetches \ {q}, !.loading = FALSE]
  <2>1. s \in AuditTrailScreens /\ s.loading = FALSE /\ s.loadError = screen.loadError
    BY <1>1 DEF AuditTrailScreens
  <2>2. \/ \E valid \in BOOLEAN :
             screen' = [s EXCEPT !.entries = IF valid THEN "valid" ELSE "invalid",
                                 !.chainValid = valid]
        \/ screen' = [s EXCEPT !.entries = "none", !.chainValid = FALSE, !.loadError = TRUE]
    BY <1>3 DEF TrailAnswer, Become
  <2> HIDE DEF s
  <2>3. ASSUME NEW valid \in BOOLEAN,
               screen' = [s EXCEPT !.entries = IF valid THEN "valid" ELSE "invalid",
                                   !.chainValid = valid]
        PROVE  TrailInv(screen')
    BY <2>1, <2>3 DEF TrailInv, AuditTrailScreens
  <2>4. CASE screen' = [s EXCEPT !.entries = "none", !.chainValid = FALSE, !.loadError = TRUE]
    BY <2>1, <2>4 DEF TrailInv, AuditTrailScreens
  <2> QED BY <2>2, <2>3, <2>4
<1>4. ASSUME NEW c \in Cases \cup {NoCase}, NEW search \in Searches, FilterTrail(c, search)
      PROVE  TrailInv(screen')
  <2>1. TrailInv([screen EXCEPT !.activeCaseFilter = c, !.filterAction = search])
    BY DEF TrailInv, AuditTrailScreens
  <2> QED BY <1>4, <2>1, FilteredTrail DEF FilterTrail, Become
<1>5. CASE RefreshTrail
  BY <1>2, <1>5, FetchedTrail DEF RefreshTrail, Become
<1>6. CASE ToggleForm \/ \E c \in Cases : ChooseSignOffCase(c)
  BY <1>6 DEF ToggleForm, ChooseSignOffCase, Become, TrailInv, AuditTrailScreens
<1>7. CASE handleCreateAttestation
  BY <1>2, <1>7 DEF handleCreateAttestation, Become, TrailInv, AuditTrailScreens
<1>8. CASE AttestationAnswer
  <2> DEFINE s == [screen EXCEPT !.submitting = NoSignOff]
             t == [s EXCEPT !.attestationModalOpen = FALSE]
  <2>1. TrailInv(s) /\ TrailInv(t)
    BY DEF TrailInv, AuditTrailScreens
  <2>2. screen.submitting.query \in TrailQueries
    BY <1>1, <1>8 DEF AttestationAnswer, AuditTrailScreens
  <2>3. screen' = fetchAuditTrail(t, screen.submitting.query) \/ screen' = s
    BY <1>8 DEF AttestationAnswer, Become
  <2> QED BY <2>1, <2>2, <2>3, FetchedTrail
<1> QED BY <1>3, <1>4, <1>5, <1>6, <1>7, <1>8 DEF AuditTrailNext

------------------------------------------------------------------------------
(***************************************************************************)
(* The viewer of the review screen: whatever opens in it, and what is      *)
(* open, has the case of its finding.  Of the rest of the screen only its  *)
(* fields matter.                                                          *)
(***************************************************************************)
ReviewsFields ==
  {"server", "filter", "page", "rows", "total", "loading", "loadError", "lists", "decisions",
   "selected", "opening", "viewer", "export"}

OfItsCase(v) ==
  /\ v = [field \in {"case", "finding", "index"} |-> v[field]]
  /\ v.case = CaseOf[v.finding]

ViewerInv(s) ==
  /\ s = [field \in ReviewsFields |-> s[field]]
  /\ \A v \in s.opening : OfItsCase(v)
  /\ s.viewer = NoViewer \/ OfItsCase(s.viewer)

LEMMA FetchedReviews ==
  ASSUME NEW s, ViewerInv(s), NEW q
  PROVE  ViewerInv(fetchReviews(s, q))
BY DEF ViewerInv, fetchReviews, ReviewsFields

LEMMA MountedReviews ==
  ASSUME NEW server, NEW c
  PROVE  ViewerInv(ReviewsMounted(server, c))
<1>1. ViewerInv(ReviewsOpened(server))
  BY DEF ViewerInv, ReviewsOpened, ReviewsFields
<1> QED BY <1>1, FetchedReviews DEF ReviewsMounted

LEMMA RefilteredReviews ==
  ASSUME NEW s, ViewerInv(s), NEW c
  PROVE  ViewerInv(Refiltered(s, c))
<1> DEFINE t == fetchReviews(s, Query(s, c))
<1>1. ViewerInv(t)
  BY FetchedReviews
<1> HIDE DEF t
<1>2. ViewerInv([t EXCEPT !.selected = {}])
  BY <1>1 DEF ViewerInv, ReviewsFields
<1> QED BY <1>2 DEF Refiltered, t

LEMMA ShownReviews ==
  ASSUME NEW s, ViewerInv(s), Show(s)
  PROVE  ViewerInv(screen')
<1>1. PICK e : screen' = [s EXCEPT !.export = e]
  BY DEF Show, Become
<1> QED BY <1>1 DEF ViewerInv, ReviewsFields

LEMMA ServedReviews ==
  ASSUME NEW s, ViewerInv(s), NEW server
  PROVE  ViewerInv(Serve(s, server))
<1> DEFINE e == IF s.export.state = "paging" THEN Disturbed(s.export, s.server, server)
                ELSE s.export
<1>1. Serve(s, server) = [s EXCEPT !.server = server, !.export = e]
  BY DEF Serve
<1> HIDE DEF e
<1> QED BY <1>1 DEF ViewerInv, ReviewsFields

LEMMA AnotherFinding ==
  ASSUME NEW v, OfItsCase(v), NEW f, CaseOf[f] = v.case, NEW i
  PROVE  OfItsCase([v EXCEPT !.finding = f, !.index = i])
BY DEF OfItsCase

LEMMA ReviewsKeepInv ==
  ASSUME ViewerInv(screen), ReviewsNext
  PROVE  ViewerInv(screen')
<1> USE ShownReviews
<1>1. ASSUME NEW q \in screen.lists, ListAnswer(q) PROVE ViewerInv(screen')
  <2> DEFINE s == [screen EXCEPT !.lists = screen.lists \ {q}, !.loading = FALSE]
  <2>1. ViewerInv(s)
    BY DEF ViewerInv, ReviewsFields
  <2>2. \/ \E n, r : Show([s EXCEPT !.total = n, !.rows = r])
        \/ Show([s EXCEPT !.rows = <<>>, !.total = 0, !.loadError = TRUE])
    BY <1>1 DEF ListAnswer
  <2> HIDE DEF s
  <2>3. ASSUME NEW n, NEW r
        PROVE  ViewerInv([s EXCEPT !.total = n, !.rows = r])
    BY <2>1 DEF ViewerInv, ReviewsFields
  <2>4. ViewerInv([s EXCEPT !.rows = <<>>, !.total = 0, !.loadError = TRUE])
    BY <2>1 DEF ViewerInv, ReviewsFields
  <2> QED BY <2>2, <2>3, <2>4
<1>2. ASSUME NEW d \in screen.decisions, DecisionAnswer(d) PROVE ViewerInv(screen')
  <2> DEFINE s == [screen EXCEPT !.decisions = screen.decisions \ {d}]
             t == Serve(s, Executed(screen.server, d.ids, d.action))
  <2>1. ViewerInv(s)
    BY DEF ViewerInv, ReviewsFields
  <2>2. ViewerInv(t) /\ ViewerInv(fetchReviews(t, d.query))
    BY <2>1, ServedReviews, FetchedReviews
  <2>3. \/ \E e : Show([fetchReviews(t, d.query) EXCEPT !.selected = e])
        \/ Show(t) \/ Show(s)
    BY <1>2 DEF DecisionAnswer
  <2> HIDE DEF s, t
  <2>4. ASSUME NEW e PROVE ViewerInv([fetchReviews(t, d.query) EXCEPT !.selected = e])
    BY <2>2 DEF ViewerInv, ReviewsFields
  <2> QED BY <2>1, <2>2, <2>3, <2>4
<1>3. ASSUME NEW v \in screen.opening, CaseAnswer(v) PROVE ViewerInv(screen')
  <2> DEFINE s == [screen EXCEPT !.opening = screen.opening \ {v}]
  <2>1. ViewerInv(s) /\ OfItsCase(v)
    BY DEF ViewerInv, ReviewsFields
  <2>2. Show([s EXCEPT !.viewer = v]) \/ Show([s EXCEPT !.loadError = TRUE])
    BY <1>3 DEF CaseAnswer
  <2> HIDE DEF s
  <2>3. ViewerInv([s EXCEPT !.viewer = v]) /\ ViewerInv([s EXCEPT !.loadError = TRUE])
    BY <2>1 DEF ViewerInv, ReviewsFields
  <2> QED BY <2>2, <2>3
<1>4. CASE ExportAnswer
  <2>1. ASSUME NEW e PROVE ViewerInv([screen EXCEPT !.export = e])
    BY DEF ViewerInv, ReviewsFields
  <2>2. ASSUME NEW got, NEW state
        PROVE  ViewerInv([screen EXCEPT !.export.got = got, !.export.state = state])
    <3>1. [screen EXCEPT !.export.got = got, !.export.state = state]
            = [screen EXCEPT !.export = [screen.export EXCEPT !.got = got, !.state = state]]
      BY DEF ViewerInv, ReviewsFields
    <3> QED BY <2>1, <3>1
  <2>3. ASSUME NEW got, NEW state
        PROVE  ViewerInv([screen EXCEPT !.loadError = TRUE, !.export.state = state,
                                        !.export.got = got])
    <3>1. [screen EXCEPT !.loadError = TRUE, !.export.state = state, !.export.got = got]
            = [screen EXCEPT !.loadError = TRUE,
                 !.export = [screen.export EXCEPT !.state = state, !.got = got]]
      BY DEF ViewerInv, ReviewsFields
    <3> QED BY <3>1 DEF ViewerInv, ReviewsFields
  <2>4. \E got, state :
          \/ Show([screen EXCEPT !.export.got = got, !.export.state = state])
          \/ Show([screen EXCEPT !.loadError = TRUE, !.export.state = state, !.export.got = got])
    BY <1>4, Zenon DEF ExportAnswer
  <2> QED BY <2>2, <2>3, <2>4
<1>5. CASE ServerMoves
  BY <1>5, ServedReviews, ServerMovesServe
<1>6. CASE CloseViewer
  <2>1. ViewerInv([screen EXCEPT !.viewer = NoViewer])
    BY DEF ViewerInv, ReviewsFields
  <2> QED BY <1>6, <2>1 DEF CloseViewer
<1>7. ASSUME NEW v, OfItsCase(v), Show([screen EXCEPT !.opening = screen.opening \cup {v}])
      PROVE  ViewerInv(screen')
  <2>1. ViewerInv([screen EXCEPT !.opening = screen.opening \cup {v}])
    BY <1>7 DEF ViewerInv, ReviewsFields
  <2> QED BY <1>7, <2>1
<1>8. ASSUME NEW f, NEW i PROVE OfItsCase(ViewerOf(f, i))
  BY DEF OfItsCase, ViewerOf
<1>9. ASSUME NEW i, ViewerOpen, handleNavigateFinding(i) PROVE ViewerInv(screen')
  <2> DEFINE f == screen.rows[i].finding
             v == [screen.viewer EXCEPT !.finding = f, !.index = i]
  <2>1. CASE CaseOf[f] = screen.viewer.case
    <3>1. OfItsCase(v)
      BY <1>9, <2>1, AnotherFinding DEF ViewerOpen, ViewerInv
    <3>2. ViewerInv([screen EXCEPT !.viewer = v])
      BY <3>1 DEF ViewerInv, ReviewsFields
    <3>3. [screen EXCEPT !.viewer.finding = f, !.viewer.index = i] = [screen EXCEPT !.viewer = v]
      BY DEF ViewerInv, ReviewsFields
    <3>4. Show([screen EXCEPT !.viewer.finding = f, !.viewer.index = i])
      BY <1>9, <2>1 DEF handleNavigateFinding
    <3> QED BY <3>2, <3>3, <3>4
  <2>2. CASE CaseOf[f] # screen.viewer.case
    BY <1>7, <1>8, <1>9, <2>2 DEF handleNavigateFinding
  <2> QED BY <2>1, <2>2
<1>10. ASSUME NEW ids, NEW a, NEW batch, decideReview(ids, a, batch) PROVE ViewerInv(screen')
  <2>1. PICK e : Show([screen EXCEPT !.decisions = e])
    BY <1>10 DEF decideReview
  <2>2. ViewerInv([screen EXCEPT !.decisions = e])
    BY DEF ViewerInv, ReviewsFields
  <2> QED BY <2>1, <2>2
<1>11. CASE \E a \in Actions : DecideInViewer(a) \/ handleBatchAction(a)
  BY <1>10, <1>11 DEF DecideInViewer, handleBatchAction
<1>12. CASE \E i \in DOMAIN screen.rows :
              handleOpenSplitForFinding(i) \/ \E a \in Actions : handleAction(i, a)
  BY <1>7, <1>8, <1>10, <1>12 DEF handleOpenSplitForFinding, handleAction
<1>13. CASE Retry
  BY <1>13, FetchedReviews DEF Retry
<1>14. ASSUME NEW p, TurnTo(p) PROVE ViewerInv(screen')
  <2>1. ViewerInv([screen EXCEPT !.page = p])
    BY DEF ViewerInv, ReviewsFields
  <2> QED BY <1>14, <2>1, RefilteredReviews DEF TurnTo
<1>15. ASSUME NEW c, FilterCase(c) PROVE ViewerInv(screen')
  <2>1. ViewerInv([screen EXCEPT !.page = 1])
    BY DEF ViewerInv, ReviewsFields
  <2> QED BY <1>15, <2>1, RefilteredReviews DEF FilterCase, BecomeWithCase
<1>16. ASSUME NEW filter, FilterRows(filter) PROVE ViewerInv(screen')
  <2>1. ViewerInv([screen EXCEPT !.filter = filter, !.page = 1])
    BY DEF ViewerInv, ReviewsFields
  <2> QED BY <1>16, <2>1, RefilteredReviews DEF FilterRows
<1>17. ASSUME NEW e, Show([screen EXCEPT !.selected = e]) PROVE ViewerInv(screen')
  <2>1. ViewerInv([screen EXCEPT !.selected = e])
    BY DEF ViewerInv, ReviewsFields
  <2> QED BY <1>17, <2>1
<1>18. CASE toggleSelectAllVisible \/ clearSelection \/ \E f \in Findings : toggleSelectOne(f)
  BY <1>17, <1>18 DEF toggleSelectAllVisible, clearSelection, toggleSelectOne
<1>19. CASE fetchAllFindingsForExport
  <2>1. PICK e : Show([screen EXCEPT !.export = e])
    BY <1>19 DEF fetchAllFindingsForExport
  <2>2. ViewerInv([screen EXCEPT !.export = e])
    BY DEF ViewerInv, ReviewsFields
  <2> QED BY <2>1, <2>2
<1> QED
  BY <1>1, <1>2, <1>3, <1>4, <1>5, <1>6, <1>9, <1>11, <1>12, <1>13, <1>14, <1>15, <1>16,
     <1>18, <1>19 DEF ReviewsNext, ServerMoves

------------------------------------------------------------------------------
(***************************************************************************)
(* What the server lists: findings that match, in its order.               *)
(***************************************************************************)
LEMMA LeastNumber ==
  ASSUME NEW K \in SUBSET Nat, K # {}
  PROVE  \E k \in K : \A l \in K : k <= l
<1> DEFINE lt == {p \in Nat \X Nat : p[1] < p[2]}
<1>1. IsWellFoundedOn(lt, Nat)
  BY NatLessThanWellFounded DEF OpToRel
<1> HIDE DEF lt
<1>2. PICK k \in K : \A l \in K : ~(<<l, k>> \in lt)
  BY <1>1, WFMin
<1>3. ASSUME NEW l \in K PROVE k <= l
  <2>1. k \in Nat /\ l \in Nat /\ <<l, k>> \notin lt
    BY <1>2
  <2>2. ~(l < k)
    BY <2>1 DEF lt
  <2> QED
    BY <2>1, <2>2
<1> QED BY <1>3

\* The findings that match among the first n, from those among the first n - 1.
AmongFirst(q, server, among, n) ==
  IF n = 0 THEN <<>>
  ELSE IF Matches(q, Order[n], server[Order[n]])
       THEN Append(among[n - 1], Order[n])
       ELSE among[n - 1]

LEMMA AmongExists ==
  ASSUME NEW q, NEW server, NEW n \in Nat
  PROVE  \E among : among = [i \in 0..n |-> AmongFirst(q, server, among, i)]
<1> DEFINE Counts(among, m) == among = [i \in 0..m |-> AmongFirst(q, server, among, i)]
           without == {m \in Nat : ~ \E among : Counts(among, m)}
<1>1. SUFFICES ASSUME without # {} PROVE FALSE
  OBVIOUS
<1>2. PICK m \in without : \A l \in without : m <= l
  <2> HIDE DEF Counts
  <2> QED BY <1>1, LeastNumber
<1>3. CASE m = 0
  <2> DEFINE among == [i \in 0..0 |-> <<>>]
  <2>1. Counts(among, 0)
    BY DEF AmongFirst
  <2> QED BY <1>2, <1>3, <2>1
<1>4. CASE m # 0
  <2>1. m - 1 \in Nat /\ m - 1 \notin without /\ m \in Nat
    BY <1>2, <1>4
  <2>2. PICK before : Counts(before, m - 1)
    BY <2>1
  <2> DEFINE among == [i \in 0..m |-> IF i = m THEN AmongFirst(q, server, before, m) ELSE before[i]]
  <2>3. ASSUME NEW i \in 0..m PROVE among[i] = AmongFirst(q, server, among, i)
    <3>1. CASE i = m
      <4>1. among[m - 1] = before[m - 1] /\ m - 1 \in 0..m
        BY <2>1
      <4> QED BY <3>1, <4>1, <2>1 DEF AmongFirst
    <3>2. CASE i # m
      <4>1. i \in 0..(m - 1) /\ among[i] = before[i]
        BY <2>1, <3>2
      <4>2. before[i] = AmongFirst(q, server, before, i)
        BY <2>2, <4>1
      <4>3. i # 0 => i - 1 \in 0..m /\ i - 1 # m /\ among[i - 1] = before[i - 1]
        BY <2>1, <4>1
      <4> QED BY <4>1, <4>2, <4>3 DEF AmongFirst
    <3> QED BY <3>1, <3>2
  <2>4. Counts(among, m)
    BY <2>3
  <2> HIDE DEF Counts, among
  <2> QED BY <1>2, <2>4
<1> QED BY <1>3, <1>4

LEMMA MatchingIs ==
  ASSUME NEW q, NEW server
  PROVE  \E among : /\ among = [i \in 0..Len(Order) |-> AmongFirst(q, server, among, i)]
                    /\ Matching(q, server) = among[Len(Order)]
<1> DEFINE among == CHOOSE a : a = [i \in 0..Len(Order) |-> AmongFirst(q, server, a, i)]
<1>1. Len(Order) \in Nat
  BY FindingsAssumption, LenProperties
<1>2. \E a : a = [i \in 0..Len(Order) |-> AmongFirst(q, server, a, i)]
  BY <1>1, AmongExists
<1>3. among = [i \in 0..Len(Order) |-> AmongFirst(q, server, among, i)]
  BY <1>2, Zenon
<1>4. Matching(q, server) = among[Len(Order)]
  BY Zenon DEF Matching, AmongFirst
<1> QED BY <1>3, <1>4, Zenon

LEMMA MatchingMatches ==
  ASSUME NEW q, NEW server
  PROVE  LET list == Matching(q, server)
         IN  /\ list \in Seq(Findings)
             /\ \A i \in 1..Len(list) : Matches(q, list[i], server[list[i]])
<1> DEFINE Fits(list) == /\ list \in Seq(Findings)
                         /\ \A i \in 1..Len(list) : Matches(q, list[i], server[list[i]])
<1>1. /\ Len(Order) \in Nat
      /\ \A n \in 1..Len(Order) : Order[n] \in Findings
  BY FindingsAssumption, LenProperties
<1>2. PICK among : /\ among = [i \in 0..Len(Order) |-> AmongFirst(q, server, among, i)]
                   /\ Matching(q, server) = among[Len(Order)]
  BY MatchingIs
<1> DEFINE wrong == {n \in 0..Len(Order) : ~Fits(among[n])}
<1>3. SUFFICES ASSUME wrong # {} PROVE FALSE
  <2>1. Len(Order) \in 0..Len(Order)
    BY <1>1
  <2>2. wrong = {} => Fits(among[Len(Order)])
    BY <2>1
  <2>3. Fits(among[Len(Order)]) => Fits(Matching(q, server))
    BY <1>2
  <2> HIDE DEF wrong
  <2> QED BY <2>2, <2>3
<1>4. PICK n \in wrong : \A l \in wrong : n <= l
  <2>1. wrong \in SUBSET Nat
    BY <1>1
  <2> HIDE DEF wrong
  <2> QED BY <1>3, <2>1, LeastNumber
<1>5. n \in 0..Len(Order) /\ n \in Nat /\ ~Fits(among[n])
  BY <1>1, <1>4
<1>6. among[n] = AmongFirst(q, server, among, n)
  BY <1>2, <1>5
<1>7. CASE n = 0
  <2>1. among[n] = <<>>
    BY <1>6, <1>7 DEF AmongFirst
  <2>2. Fits(<<>>)
    BY EmptySeq
  <2> HIDE DEF Fits
  <2> QED BY <1>5, <2>1, <2>2
<1>8. CASE n # 0
  <2>1. n - 1 \in 0..Len(Order) /\ ~(n <= n - 1) /\ n \in 1..Len(Order)
    BY <1>1, <1>5, <1>8
  <2>2. Fits(among[n - 1])
    BY <1>4, <2>1
  <2>3. ASSUME NEW list, Fits(list), Matches(q, Order[n], server[Order[n]])
        PROVE  Fits(Append(list, Order[n]))
    <3>1. /\ Append(list, Order[n]) \in Seq(Findings)
          /\ Len(list) \in Nat /\ Len(Append(list, Order[n])) = Len(list) + 1
          /\ \A i \in 1..Len(list) : Append(list, Order[n])[i] = list[i]
          /\ Append(list, Order[n])[Len(list) + 1] = Order[n]
      BY <1>1, <2>1, <2>3, AppendProperties, LenProperties
    <3> QED BY <2>3, <3>1
  <2> HIDE DEF Fits
  <2> QED BY <1>5, <1>6, <1>8, <2>2, <2>3 DEF AmongFirst
<1> QED BY <1>7, <1>8

(***************************************************************************)
(* Where a list has its findings: place[m] counts those among the first m  *)
(* findings that match, so it is the place of the m-th when that matches.  *)
(***************************************************************************)
MatchesAt(q, server, m) == Matches(q, Order[m], server[Order[m]])

Places(q, server, place) ==
  LET list == Matching(q, server)
  IN  /\ place \in [0..Len(Order) -> Nat]
      /\ place[0] = 0 /\ place[Len(Order)] = Len(list)
      /\ \A m \in 1..Len(Order) :
           place[m] = IF MatchesAt(q, server, m) THEN place[m - 1] + 1 ELSE place[m - 1]
      /\ \A m \in 1..Len(Order) :
           MatchesAt(q, server, m) => place[m] \in 1..Len(list) /\ list[place[m]] = Order[m]
      /\ \A i \in 1..Len(list) :
           \E m \in 1..Len(Order) : MatchesAt(q, server, m) /\ place[m] = i

LEMMA PlacesExist ==
  ASSUME NEW q, NEW server
  PROVE  \E place : Places(q, server, place)
<1>1. /\ Len(Order) \in Nat
      /\ \A m \in 1..Len(Order) : Order[m] \in Findings
  BY FindingsAssumption, LenProperties
<1>2. PICK among : /\ among = [i \in 0..Len(Order) |-> AmongFirst(q, server, among, i)]
                   /\ Matching(q, server) = among[Len(Order)]
  BY MatchingIs
<1> DEFINE Listed(m) == MatchesAt(q, server, m)
           Right(n) ==
             /\ among[n] \in Seq(Findings)
             /\ \A m \in 1..n : Listed(m) => /\ Len(among[m]) \in 1..Len(among[n])
                                             /\ among[n][Len(among[m])] = Order[m]
             /\ \A i \in 1..Len(among[n]) : \E m \in 1..n : Listed(m) /\ Len(among[m]) = i
           wrong == {n \in 0..Len(Order) : ~Right(n)}
<1>3. among[0] = <<>>
  BY <1>1, <1>2 DEF AmongFirst
<1>4. ASSUME NEW m \in 1..Len(Order)
      PROVE  /\ m \in 0..Len(Order) /\ m - 1 \in 0..Len(Order)
             /\ among[m] = IF Listed(m) THEN Append(among[m - 1], Order[m]) ELSE among[m - 1]
  <2>1. m \in 0..Len(Order) /\ m - 1 \in 0..Len(Order) /\ m # 0
    BY <1>1
  <2>2. among[m] = AmongFirst(q, server, among, m)
    BY <1>2, <2>1
  <2> QED BY <2>1, <2>2 DEF AmongFirst, MatchesAt
<1> HIDE DEF Listed
<1>5. wrong = {}
  <2>1. SUFFICES ASSUME wrong # {} PROVE FALSE
    OBVIOUS
  <2>2. PICK n \in wrong : \A l \in wrong : n <= l
    <3>1. wrong \in SUBSET Nat
      BY <1>1
    <3> HIDE DEF wrong
    <3> QED BY <2>1, <3>1, LeastNumber
  <2>3. n # 0
    <3>1. Len(<<>>) = 0 /\ <<>> \in Seq(Findings)
      BY EmptySeq
    <3>2. Right(0)
      BY <1>3, <3>1
    <3> HIDE DEF Right
    <3> QED BY <2>2, <3>2
  <2>4. n \in 1..Len(Order) /\ n \in Nat /\ n - 1 \in 0..Len(Order) /\ Right(n - 1) /\ ~Right(n)
    <3> HIDE DEF Right
    <3>1. n \in 1..Len(Order) /\ n \in Nat /\ n - 1 \in 0..Len(Order) /\ ~(n <= n - 1) /\ ~Right(n)
      BY <1>1, <2>2, <2>3
    <3> QED BY <2>2, <3>1
  <2> DEFINE old == among[n - 1]
  <2>5. old \in Seq(Findings) /\ Len(old) \in Nat
    BY <2>4, LenProperties
  <2>6. CASE ~Listed(n)
    <3>1. among[n] = old
      BY <1>4, <2>4, <2>6
    <3>2. \A m \in 1..n : Listed(m) => m \in 1..(n - 1)
      BY <2>4, <2>6
    <3>3. \A m \in 1..(n - 1) : m \in 1..n
      BY <2>4
    <3>4. Right(n)
      BY <2>4, <3>1, <3>2, <3>3
    <3> HIDE DEF Right
    <3> QED BY <2>4, <3>4
  <2>7. CASE Listed(n)
    <3>1. /\ among[n] = Append(old, Order[n]) /\ among[n] \in Seq(Findings)
          /\ Len(among[n]) = Len(old) + 1
          /\ \A i \in 1..Len(old) : among[n][i] = old[i]
          /\ among[n][Len(old) + 1] = Order[n]
      <4>1. among[n] = Append(old, Order[n]) /\ Order[n] \in Findings
        BY <1>1, <1>4, <2>4, <2>7
      <4> QED BY <2>5, <4>1, AppendProperties
    <3> HIDE DEF old
    <3>2. ASSUME NEW m \in 1..n, Listed(m)
          PROVE  Len(among[m]) \in 1..Len(among[n]) /\ among[n][Len(among[m])] = Order[m]
      <4>1. CASE m = n
        BY <2>5, <3>1, <4>1
      <4>2. CASE m # n
        <5>1. m \in 1..(n - 1)
          BY <2>4, <4>2
        <5>2. Len(among[m]) \in 1..Len(old) /\ old[Len(among[m])] = Order[m]
          BY <2>4, <3>2, <5>1 DEF old
        <5> QED BY <2>5, <3>1, <5>2
      <4> QED BY <4>1, <4>2
    <3>3. ASSUME NEW i \in 1..Len(among[n])
          PROVE  \E m \in 1..n : Listed(m) /\ Len(among[m]) = i
      <4>1. CASE i = Len(old) + 1
        BY <2>4, <2>7, <3>1, <4>1
      <4>2. CASE i # Len(old) + 1
        <5>1. i \in 1..Len(old)
          BY <2>5, <3>1, <4>2
        <5>2. PICK m \in 1..(n - 1) : Listed(m) /\ Len(among[m]) = i
          BY <2>4, <5>1 DEF old
        <5>3. m \in 1..n
          BY <2>4
        <5> QED BY <5>2, <5>3
      <4> QED BY <4>1, <4>2
    <3>4. Right(n)
      BY <3>1, <3>2, <3>3
    <3> HIDE DEF Right
    <3> QED BY <2>4, <3>4
  <2> QED BY <2>6, <2>7
<1>6. \A n \in 0..Len(Order) : Right(n)
  <2> HIDE DEF Right
  <2> QED BY <1>5
<1> DEFINE place == [n \in 0..Len(Order) |-> Len(among[n])]
<1>7. \A n \in 0..Len(Order) : among[n] \in Seq(Findings) /\ Len(among[n]) \in Nat
  BY <1>6, LenProperties
<1>8. /\ place \in [0..Len(Order) -> Nat]
      /\ place[0] = 0 /\ place[Len(Order)] = Len(Matching(q, server))
  <2>1. 0 \in 0..Len(Order) /\ Len(Order) \in 0..Len(Order) /\ Len(<<>>) = 0
    BY <1>1, EmptySeq
  <2> QED BY <1>2, <1>3, <1>7, <2>1
<1>9. ASSUME NEW m \in 1..Len(Order)
      PROVE  place[m] = IF Listed(m) THEN place[m - 1] + 1 ELSE place[m - 1]
  <2>1. /\ place[m] = Len(among[m]) /\ place[m - 1] = Len(among[m - 1])
        /\ among[m - 1] \in Seq(Findings) /\ Order[m] \in Findings
    BY <1>1, <1>4, <1>7
  <2>2. Len(Append(among[m - 1], Order[m])) = Len(among[m - 1]) + 1
    BY <2>1, AppendProperties
  <2> QED BY <1>4, <2>1, <2>2
<1>10. Right(Len(Order)) /\ Len(Order) \in 0..Len(Order)
  <2> HIDE DEF Right
  <2> QED BY <1>1, <1>6
<1>11. \A m \in 1..Len(Order) : place[m] = Len(among[m])
  BY <1>4
<1> HIDE DEF place
<1>12. \A m \in 1..Len(Order) :
         Listed(m) => /\ place[m] \in 1..Len(Matching(q, server))
                      /\ Matching(q, server)[place[m]] = Order[m]
  BY <1>2, <1>10, <1>11
<1>13. \A i \in 1..Len(Matching(q, server)) : \E m \in 1..Len(Order) : Listed(m) /\ place[m] = i
  <2>1. \A i \in 1..Len(Matching(q, server)) :
          \E m \in 1..Len(Order) : Listed(m) /\ Len(among[m]) = i
    BY <1>2, <1>10
  <2> QED BY <1>11, <2>1
<1> HIDE DEF Right, wrong
<1>14. Places(q, server, place)
  BY <1>8, <1>9, <1>12, <1>13 DEF Places, Listed
<1> QED BY <1>14

Keeps(q, old, new) == Matched(q, old) \subseteq Matched(q, new)

LEMMA PlacesGrow ==
  ASSUME NEW q, NEW old, NEW new, Keeps(q, old, new),
         NEW before, Places(q, old, before), NEW after, Places(q, new, after)
  PROVE  \A n \in 0..Len(Order) : before[n] <= after[n]
<1>1. /\ Len(Order) \in Nat
      /\ \A m \in 1..Len(Order) : Order[m] \in Findings
  BY FindingsAssumption, LenProperties
<1>2. /\ \A n \in 0..Len(Order) : before[n] \in Nat /\ after[n] \in Nat
      /\ before[0] = 0 /\ after[0] = 0
  BY DEF Places
<1>3. ASSUME NEW m \in 1..Len(Order)
      PROVE  /\ before[m] = IF MatchesAt(q, old, m) THEN before[m - 1] + 1 ELSE before[m - 1]
             /\ after[m] = IF MatchesAt(q, new, m) THEN after[m - 1] + 1 ELSE after[m - 1]
             /\ MatchesAt(q, old, m) => MatchesAt(q, new, m)
  BY <1>1 DEF Places, MatchesAt, Matched, Keeps
<1> DEFINE wrong == {n \in 0..Len(Order) : ~(before[n] <= after[n])}
<1>4. SUFFICES ASSUME wrong # {} PROVE FALSE
  OBVIOUS
<1>5. PICK n \in wrong : \A l \in wrong : n <= l
  <2>1. wrong \in SUBSET Nat
    BY <1>1
  <2> HIDE DEF wrong
  <2> QED BY <1>4, <2>1, LeastNumber
<1>6. n \in 1..Len(Order) /\ ~(before[n] <= after[n])
  BY <1>1, <1>2, <1>5
<1>7. n - 1 \in 0..Len(Order) /\ before[n - 1] <= after[n - 1]
  <2>1. n - 1 \in 0..Len(Order) /\ ~(n <= n - 1)
    BY <1>1, <1>6
  <2> QED BY <1>5, <2>1
<1>8. n \in 0..Len(Order)
  BY <1>1, <1>6
<1>9. /\ before[n - 1] \in Nat /\ after[n - 1] \in Nat
      /\ before[n] \in Nat /\ after[n] \in Nat
  BY <1>2, <1>7, <1>8
<1> HIDE DEF wrong
<1> QED BY <1>3, <1>6, <1>7, <1>9

(***************************************************************************)
(* A list has what matches, each finding once.                             *)
(***************************************************************************)
LEMMA MatchingOnce ==
  ASSUME NEW q, NEW server
  PROVE  LET list == Matching(q, server)
         IN  /\ \A i, j \in 1..Len(list) : list[i] = list[j] => i = j
             /\ \A f \in Matched(q, server) : \E i \in 1..Len(list) : list[i] = f
<1> DEFINE list == Matching(q, server)
<1>1. PICK place : Places(q, server, place)
  BY PlacesExist
<1>2. /\ Len(Order) \in Nat /\ DOMAIN Order = 1..Len(Order)
      /\ \A m, n \in 1..Len(Order) : Order[m] = Order[n] => m = n
      /\ \A f \in Findings : \E m \in 1..Len(Order) : Order[m] = f
  BY FindingsAssumption, LenProperties DEF IsInjective, Range
<1>3. /\ \A m \in 1..Len(Order) :
           MatchesAt(q, server, m) => place[m] \in 1..Len(list) /\ list[place[m]] = Order[m]
      /\ \A i \in 1..Len(list) :
           \E m \in 1..Len(Order) : MatchesAt(q, server, m) /\ place[m] = i
  BY <1>1 DEF Places
<1> HIDE DEF list
<1>4. ASSUME NEW i \in 1..Len(list), NEW j \in 1..Len(list), list[i] = list[j] PROVE i = j
  <2>1. PICK m \in 1..Len(Order) : MatchesAt(q, server, m) /\ place[m] = i
    BY <1>3
  <2>2. PICK n \in 1..Len(Order) : MatchesAt(q, server, n) /\ place[n] = j
    BY <1>3
  <2>3. list[i] = Order[m] /\ list[j] = Order[n]
    BY <1>3, <2>1, <2>2
  <2>4. m = n
    BY <1>2, <1>4, <2>3
  <2> QED BY <2>1, <2>2, <2>4
<1>5. ASSUME NEW f \in Matched(q, server) PROVE \E i \in 1..Len(list) : list[i] = f
  <2>1. f \in Findings /\ Matches(q, f, server[f])
    BY DEF Matched
  <2>2. PICK m \in 1..Len(Order) : Order[m] = f
    BY <1>2, <2>1
  <2>3. MatchesAt(q, server, m)
    BY <2>1, <2>2 DEF MatchesAt
  <2> QED BY <1>3, <2>2, <2>3
<1> QED BY <1>4, <1>5 DEF list

(***************************************************************************)
(* When nothing that matches leaves, no finding moves towards the front.   *)
(***************************************************************************)
LEMMA PlacesKept ==
  ASSUME NEW q, NEW old, NEW new, Keeps(q, old, new),
         NEW i \in 1..Len(Matching(q, old))
  PROVE  \E j \in 1..Len(Matching(q, new)) :
           i <= j /\ Matching(q, new)[j] = Matching(q, old)[i]
<1>1. PICK before : Places(q, old, before)
  BY PlacesExist
<1>2. PICK after : Places(q, new, after)
  BY PlacesExist
<1>3. PICK m \in 1..Len(Order) : MatchesAt(q, old, m) /\ before[m] = i
  BY <1>1 DEF Places
<1>4. Len(Order) \in Nat /\ \A n \in 1..Len(Order) : Order[n] \in Findings
  BY FindingsAssumption, LenProperties
<1>5. MatchesAt(q, new, m) /\ m \in 0..Len(Order)
  BY <1>3, <1>4 DEF Matched, MatchesAt, Keeps
<1>6. Matching(q, old)[i] = Order[m]
  BY <1>1, <1>3 DEF Places
<1>7. after[m] \in 1..Len(Matching(q, new)) /\ Matching(q, new)[after[m]] = Order[m]
  BY <1>2, <1>5 DEF Places
<1>8. before[m] <= after[m]
  BY <1>1, <1>2, <1>5, PlacesGrow
<1> QED BY <1>3, <1>6, <1>7, <1>8

LEMMA MatchingSame ==
  ASSUME NEW q, NEW old, NEW new, Matched(q, old) = Matched(q, new)
  PROVE  Matching(q, old) = Matching(q, new)
<1>1. PICK before : Places(q, old, before)
  BY PlacesExist
<1>2. PICK after : Places(q, new, after)
  BY PlacesExist
<1>3. Len(Order) \in Nat /\ \A n \in 1..Len(Order) : Order[n] \in Findings
  BY FindingsAssumption, LenProperties
<1>4. ASSUME NEW n \in 0..Len(Order) PROVE before[n] = after[n]
  <2>1. before[n] \in Nat /\ after[n] \in Nat
    BY <1>1, <1>2 DEF Places
  <2>2. before[n] <= after[n]
    BY <1>1, <1>2, PlacesGrow DEF Keeps
  <2>3. after[n] <= before[n]
    BY <1>1, <1>2, PlacesGrow DEF Keeps
  <2> QED BY <2>1, <2>2, <2>3
<1>5. /\ Matching(q, old) \in Seq(Findings) /\ Matching(q, new) \in Seq(Findings)
      /\ Len(Matching(q, old)) = Len(Matching(q, new))
  <2>1. Len(Order) \in 0..Len(Order)
    BY <1>3
  <2>2. /\ before[Len(Order)] = Len(Matching(q, old))
        /\ after[Len(Order)] = Len(Matching(q, new))
    BY <1>1, <1>2 DEF Places
  <2> QED BY <1>4, <2>1, <2>2, MatchingMatches
<1>6. ASSUME NEW i \in 1..Len(Matching(q, old)) PROVE Matching(q, old)[i] = Matching(q, new)[i]
  <2>1. PICK m \in 1..Len(Order) : MatchesAt(q, old, m) /\ before[m] = i
    BY <1>1 DEF Places
  <2>2. MatchesAt(q, new, m) /\ m \in 0..Len(Order)
    BY <1>3, <2>1 DEF Matched, MatchesAt
  <2>3. Matching(q, old)[i] = Order[m]
    BY <1>1, <2>1 DEF Places
  <2>4. Matching(q, new)[after[m]] = Order[m]
    BY <1>2, <2>2 DEF Places
  <2> QED BY <1>4, <2>1, <2>2, <2>3, <2>4
<1> QED BY <1>5, <1>6, SeqEqual

LEMMA WindowIs ==
  ASSUME NEW list \in Seq(Findings), NEW limit \in Nat, NEW offset \in Nat
  PROVE  LET window == Window(list, limit, offset)
             last   == Min({offset + limit, Len(list)})
         IN  /\ last \in Nat /\ last \in {offset + limit, Len(list)}
             /\ last <= offset + limit /\ last <= Len(list)
             /\ window = SubSeq(list, offset + 1, last)
             /\ window \in Seq(Findings)
             /\ Len(window) = IF offset < last THEN last - offset ELSE 0
             /\ \A i \in DOMAIN window : \E k \in 1..Len(list) : window[i] = list[k]
<1> DEFINE last == Min({offset + limit, Len(list)})
           window == SubSeq(list, offset + 1, last)
<1>1. Len(list) \in Nat /\ \A k \in 1..Len(list) : list[k] \in Findings
  BY LenProperties
<1>2. /\ last \in Nat /\ last \in {offset + limit, Len(list)}
      /\ last <= offset + limit /\ last <= Len(list)
  <2>1. \E x \in {offset + limit, Len(list)} : \A y \in {offset + limit, Len(list)} : x <= y
    BY <1>1
  <2>2. last \in {offset + limit, Len(list)} /\ \A y \in {offset + limit, Len(list)} : last <= y
    BY <2>1 DEF Min
  <2> QED BY <1>1, <2>2
<1> HIDE DEF last
<1>3. \A k \in (offset + 1)..last : k \in 1..Len(list) /\ list[k] \in Findings
  BY <1>1, <1>2
<1>4. /\ window \in Seq(Findings)
      /\ Len(window) = IF offset + 1 <= last THEN last - (offset + 1) + 1 ELSE 0
      /\ \A i \in 1..(last - (offset + 1) + 1) : window[i] = list[(offset + 1) + i - 1]
  BY <1>2, <1>3, SubSeqProperties
<1>5. DOMAIN window = 1..Len(window)
  BY <1>4, LenProperties
<1>6. ASSUME NEW i \in DOMAIN window PROVE \E k \in 1..Len(list) : window[i] = list[k]
  <2> HIDE DEF window
  <2>1. /\ i \in 1..(last - (offset + 1) + 1)
        /\ (offset + 1) + i - 1 \in 1..Len(list)
    BY <1>1, <1>2, <1>4, <1>5
  <2> QED BY <1>4, <2>1
<1>7. Len(window) = IF offset < last THEN last - offset ELSE 0
  <2> HIDE DEF window
  <2> QED BY <1>2, <1>4
<1> QED BY <1>2, <1>4, <1>6, <1>7 DEF last, Window

LEMMA WindowAt ==
  ASSUME NEW list \in Seq(Findings), NEW limit \in Nat, NEW offset \in Nat,
         NEW i \in 1..Len(Window(list, limit, offset))
  PROVE  Window(list, limit, offset)[i] = list[offset + i]
<1> DEFINE last == Min({offset + limit, Len(list)})
           window == SubSeq(list, offset + 1, last)
<1>1. /\ last \in Nat /\ last <= Len(list) /\ window = Window(list, limit, offset)
      /\ Len(window) = IF offset < last THEN last - offset ELSE 0
  <2>1. /\ last \in Nat /\ last <= Len(list)
        /\ Len(Window(list, limit, offset)) = IF offset < last THEN last - offset ELSE 0
    BY WindowIs
  <2> QED BY <2>1 DEF Window
<1> HIDE DEF last
<1>2. Len(list) \in Nat /\ \A k \in 1..Len(list) : list[k] \in Findings
  BY LenProperties
<1>3. \A k \in (offset + 1)..last : list[k] \in Findings
  BY <1>1, <1>2
<1>4. \A k \in 1..(last - (offset + 1) + 1) : window[k] = list[(offset + 1) + k - 1]
  BY <1>1, <1>3, SubSeqProperties
<1> HIDE DEF window
<1>5. i \in 1..(last - (offset + 1) + 1) /\ (offset + 1) + i - 1 = offset + i
  BY <1>1
<1> QED BY <1>1, <1>4, <1>5

------------------------------------------------------------------------------
(***************************************************************************)
(* An export fetches the findings from where it got to.  When nothing came *)
(* that it matches, none of those was fetched before; when nothing left,   *)
(* none that was there when it began was passed over.  When neither, it    *)
(* has a beginning of the list.                                            *)
(***************************************************************************)
ExportFields == {"state", "query", "got", "began", "came", "left"}

Fresh(got, list) == \A i \in 1..Len(list) : i > Len(got) => list[i] \notin Range(got)

Ahead(f, got, list) ==
  f \in Range(got) \/ \E i \in 1..Len(list) : i > Len(got) /\ list[i] = f

Fetches(e, server) ==
  LET list == Matching(e.query, server)
  IN  /\ e = [field \in ExportFields |-> e[field]]
      /\ e.state \in {"paging", "whole"} => e.got \in Seq(Findings)
      /\ ~e.came /\ ~e.left /\ e.state = "paging" =>
           \E n \in 0..Len(list) : e.got = SubSeq(list, 1, n)
      /\ ~e.came /\ ~e.left /\ e.state = "whole" => e.got = list
      /\ ~e.came /\ e.state \in {"paging", "whole"} => IsInjective(e.got)
      /\ ~e.came /\ e.state = "paging" => Fresh(e.got, list)
      /\ ~e.left /\ e.state = "paging" => \A f \in e.began : Ahead(f, e.got, list)
      /\ ~e.left /\ e.state = "whole" => e.began \subseteq Range(e.got)

PositiveNumbers == Nat \ {0}

ListsInv(s) ==
  /\ s.export = NoExport \/ Fetches(s.export, s.server)
  /\ s.page \in PositiveNumbers
  /\ \A q \in s.lists : q.page \in PositiveNumbers
  /\ \A d \in s.decisions : d.query.page \in PositiveNumbers

\* A step from s, where the case c is filtered by, to t, where d is: the rows and
\* their query stay, or a list is on its way, or an error shows, or the rows are those
\* of an answer.
KeepsRows(s, c, t, d) ==
  /\ t.rows = s.rows /\ t.loading = s.loading
  /\ s.loadError => t.loadError
  /\ t.lists = s.lists
  /\ Query(t, d) = Query(s, c)

RowsStep(s, c, t, d) ==
  \/ KeepsRows(s, c, t, d)
  \/ t.lists # {}
  \/ t.loadError
  \/ \E q \in s.lists :
       /\ t.lists = s.lists \ {q}
       /\ Query(t, d) = Query(s, c)
       /\ \A i \in DOMAIN t.rows : Matches(q, t.rows[i].finding, t.rows[i].status)

LEMMA ShownLists ==
  ASSUME NEW s, ViewerInv(s), ListsInv(s), RowsStep(screen, activeCaseId, s, activeCaseId),
         Show(s)
  PROVE  ListsInv(screen') /\ RowsStep(screen, activeCaseId, screen', activeCaseId')
<1> DEFINE e == IF s.export = screen.export /\ s.export.state # "paging" THEN NoExport
                ELSE s.export
<1>1. screen' = [s EXCEPT !.export = e] /\ activeCaseId' = activeCaseId
  BY DEF Show, Become
<1>2. e \in {s.export, NoExport}
  OBVIOUS
<1> HIDE DEF e
<1> DEFINE t == [s EXCEPT !.export = e]
<1>3. /\ t.export = e /\ t.server = s.server /\ t.page = s.page /\ t.filter = s.filter
      /\ t.lists = s.lists /\ t.decisions = s.decisions
      /\ t.rows = s.rows /\ t.loading = s.loading /\ t.loadError = s.loadError
  BY DEF ViewerInv, ReviewsFields
<1> HIDE DEF t
<1>4. ListsInv(t)
  BY <1>2, <1>3 DEF ListsInv
<1>5. RowsStep(screen, activeCaseId, t, activeCaseId)
  BY <1>3 DEF RowsStep, KeepsRows, Query
<1> QED BY <1>1, <1>4, <1>5 DEF t

LEMMA FetchedLists ==
  ASSUME NEW s, ViewerInv(s), ListsInv(s), NEW q, q.page \in PositiveNumbers
  PROVE  ListsInv(fetchReviews(s, q)) /\ fetchReviews(s, q).lists # {}
<1> DEFINE t == fetchReviews(s, q)
<1>1. /\ t.export = s.export /\ t.server = s.server /\ t.page = s.page
      /\ t.lists = s.lists \cup {q} /\ t.decisions = s.decisions
  BY DEF ViewerInv, ReviewsFields, fetchReviews
<1> QED BY <1>1 DEF ListsInv

LEMMA RefilteredLists ==
  ASSUME NEW s, ViewerInv(s), ListsInv(s), s.rows = screen.rows, s.loading = screen.loading,
         s.loadError = screen.loadError, s.lists = screen.lists, NEW c
  PROVE  ListsInv(Refiltered(s, c)) /\ RowsStep(screen, activeCaseId, Refiltered(s, c), c)
<1> DEFINE q == Query(s, c)
           t == fetchReviews(s, q)
<1>1. q.page \in PositiveNumbers
  BY DEF Query, ListsInv
<1>2. ListsInv(t) /\ ViewerInv(t) /\ t.lists # {}
  BY <1>1, FetchedLists, FetchedReviews
<1>3. CASE q = Query(screen, activeCaseId)
  BY <1>3 DEF Refiltered, RowsStep, KeepsRows
<1>4. CASE q # Query(screen, activeCaseId)
  <2> HIDE DEF t
  <2> DEFINE u == [t EXCEPT !.selected = {}]
  <2>1. Refiltered(s, c) = u
    BY <1>4 DEF Refiltered, t
  <2>2. /\ u.export = t.export /\ u.server = t.server /\ u.page = t.page
        /\ u.lists = t.lists /\ u.decisions = t.decisions
    BY <1>2 DEF ViewerInv, ReviewsFields
  <2> HIDE DEF u
  <2>3. ListsInv(u) /\ RowsStep(screen, activeCaseId, u, c)
    BY <1>2, <2>2 DEF ListsInv, RowsStep
  <2> QED BY <2>1, <2>3
<1> QED BY <1>3, <1>4

LEMMA MountedLists ==
  ASSUME NEW server, NEW c
  PROVE  ListsInv(ReviewsMounted(server, c)) /\ ReviewsMounted(server, c).lists # {}
<1>1. ViewerInv(ReviewsOpened(server))
  BY DEF ViewerInv, ReviewsOpened, ReviewsFields
<1>2. ListsInv(ReviewsOpened(server))
  BY DEF ListsInv, ReviewsOpened, PositiveNumbers
<1>3. Query(ReviewsOpened(server), c).page \in PositiveNumbers
  BY DEF Query, ReviewsOpened, PositiveNumbers
<1> QED BY <1>1, <1>2, <1>3, FetchedLists DEF ReviewsMounted

LEMMA PageFollows ==
  ASSUME NEW list \in Seq(Findings), NEW n \in 0..Len(list),
         NEW fetched, fetched = SubSeq(list, 1, n)
  PROVE  LET batch == Window(list, pageLimit, Len(fetched))
             got   == fetched \o batch
         IN  /\ \E m \in 0..Len(list) : got = SubSeq(list, 1, m)
             /\ Len(batch) < pageLimit \/ Len(got) >= Len(list) => got = list
<1> DEFINE batch == Window(list, pageLimit, n)
           got   == fetched \o batch
           last  == Min({n + pageLimit, Len(list)})
<1>1. /\ Len(list) \in Nat /\ pageLimit \in Nat /\ pageLimit > 0 /\ n \in Nat
      /\ \A i \in 1..Len(list) : list[i] \in Findings
  BY LenProperties, PagesAssumption
<1>2. ASSUME NEW m \in 0..Len(list) PROVE Len(SubSeq(list, 1, m)) = m
  <2>1. m \in Int /\ \A i \in 1..m : list[i] \in Findings
    BY <1>1
  <2>2. Len(SubSeq(list, 1, m)) = IF 1 <= m THEN m - 1 + 1 ELSE 0
    BY <2>1, SubSeqProperties
  <2> QED BY <1>1, <2>2
<1>3. /\ last \in Nat /\ last \in {n + pageLimit, Len(list)}
      /\ last <= n + pageLimit /\ last <= Len(list)
      /\ batch = SubSeq(list, n + 1, last)
      /\ Len(batch) = IF n < last THEN last - n ELSE 0
  BY <1>1, WindowIs
<1> HIDE DEF last, batch
<1>4. n <= last /\ last \in 0..Len(list)
  BY <1>1, <1>3
<1>5. got = SubSeq(list, 1, last)
  <2>1. n \in (1 - 1)..Len(list) /\ last \in n..Len(list) /\ 1 \in 1..(Len(list) + 1)
    BY <1>1, <1>3, <1>4
  <2> QED BY <1>3, <2>1, ConcatAdjacentSubSeq
<1> HIDE DEF got
<1>6. ASSUME Len(batch) < pageLimit \/ Len(got) >= Len(list) PROVE got = list
  <2>1. Len(got) = last
    BY <1>2, <1>4, <1>5
  <2>2. last = Len(list)
    BY <1>1, <1>3, <1>4, <1>6, <2>1
  <2> QED BY <1>5, <2>2, SubSeqFull
<1>7. Len(fetched) = n
  BY <1>2
<1> QED BY <1>4, <1>5, <1>6, <1>7 DEF got, batch

(***************************************************************************)
(* The page that is fetched next, whatever had been fetched.               *)
(***************************************************************************)
LEMMA PageDrifts ==
  ASSUME NEW list \in Seq(Findings), NEW fetched \in Seq(Findings),
         \A i, j \in 1..Len(list) : list[i] = list[j] => i = j
  PROVE  LET batch == Window(list, pageLimit, Len(fetched))
             got   == fetched \o batch
         IN  /\ got \in Seq(Findings)
             /\ IsInjective(fetched) /\ Fresh(fetched, list) =>
                  IsInjective(got) /\ Fresh(got, list)
             /\ \A f : Ahead(f, fetched, list) =>
                  /\ Ahead(f, got, list)
                  /\ Len(batch) < pageLimit \/ Len(got) >= Len(list) => f \in Range(got)
<1> DEFINE n     == Len(fetched)
           batch == Window(list, pageLimit, n)
           got   == fetched \o batch
           last  == Min({n + pageLimit, Len(list)})
<1>1. /\ Len(list) \in Nat /\ pageLimit \in Nat /\ pageLimit > 0 /\ n \in Nat
      /\ DOMAIN fetched = 1..n
  BY LenProperties, PagesAssumption
<1> HIDE DEF n
<1>2. /\ last \in Nat /\ last \in {n + pageLimit, Len(list)}
      /\ last <= n + pageLimit /\ last <= Len(list)
      /\ batch \in Seq(Findings)
      /\ Len(batch) = IF n < last THEN last - n ELSE 0
      /\ \A i \in 1..Len(batch) : batch[i] = list[n + i]
  <2>1. /\ last \in Nat /\ last \in {n + pageLimit, Len(list)}
        /\ last <= n + pageLimit /\ last <= Len(list)
    BY <1>1, WindowIs, Zenon
  <2>2. batch \in Seq(Findings)
    BY <1>1, WindowIs, Zenon
  <2>3. \A i \in 1..Len(batch) : batch[i] = list[n + i]
    BY <1>1, WindowAt
  <2>4. Len(batch) = IF n < last THEN last - n ELSE 0
    <3>1. pageLimit \in Nat /\ n \in Nat
      BY <1>1
    <3> QED BY <3>1, WindowIs
  <2> HIDE DEF batch, last
  <2> QED BY <2>1, <2>2, <2>3, <2>4
<1>3. /\ got \in Seq(Findings) /\ Len(got) = n + Len(batch) /\ DOMAIN got = 1..Len(got)
      /\ \A i \in 1..n : got[i] = fetched[i]
      /\ \A i \in 1..Len(got) : i > n => got[i] = batch[i - n]
  <2> HIDE DEF batch
  <2>1. /\ got \in Seq(Findings) /\ Len(got) = n + Len(batch)
        /\ \A i \in 1..Len(got) : got[i] = IF i <= n THEN fetched[i] ELSE batch[i - n]
    <3>1. batch \in Seq(Findings)
      BY <1>2
    <3>2. /\ fetched \o batch \in Seq(Findings)
          /\ Len(fetched \o batch) = Len(fetched) + Len(batch)
          /\ \A i \in 1..Len(fetched) + Len(batch) :
               (fetched \o batch)[i] = IF i <= Len(fetched) THEN fetched[i]
                                       ELSE batch[i - Len(fetched)]
      BY <3>1, ConcatProperties
    <3> QED BY <3>2, Zenon DEF got, n
  <2> HIDE DEF got
  <2>2. DOMAIN got = 1..Len(got)
    BY <2>1, LenProperties
  <2>3. Len(batch) \in Nat
    BY <1>2, LenProperties
  <2>4. \A i \in 1..n : i \in 1..Len(got) /\ i <= n
    BY <1>1, <2>1, <2>3
  <2>5. \A i \in 1..Len(got) : i > n => ~(i <= n)
    BY <1>1, <2>1, <2>3
  <2> QED BY <2>1, <2>2, <2>4, <2>5
<1> HIDE DEF got, batch, last
<1>4. Len(got) \in Nat /\ n <= Len(got) /\ \A i \in 1..Len(got) : i > n => i <= Len(list)
  BY <1>1, <1>2, <1>3
<1>5. ASSUME NEW i \in 1..Len(got), i > n PROVE i \in 1..Len(list) /\ got[i] = list[i]
  <2>1. i - n \in 1..Len(batch) /\ n + (i - n) = i /\ i \in 1..Len(list)
    BY <1>1, <1>2, <1>3, <1>4, <1>5
  <2> QED BY <1>2, <1>3, <1>5, <2>1
<1>6. Len(batch) < pageLimit \/ Len(got) >= Len(list) => Len(got) >= Len(list)
  BY <1>1, <1>2, <1>3
<1>7. ASSUME NEW f PROVE f \in Range(fetched) <=> \E i \in 1..n : fetched[i] = f
  BY <1>1 DEF Range
<1>8. ASSUME NEW f
      PROVE  f \in Range(got) <=> \E i \in 1..Len(got) : got[i] = f
  BY <1>3 DEF Range
<1>9. ASSUME IsInjective(fetched), Fresh(fetched, list)
      PROVE  IsInjective(got) /\ Fresh(got, list)
  <2>1. \A i \in 1..Len(list) : i > n => \A k \in 1..n : list[i] # fetched[k]
    BY <1>7, <1>9 DEF Fresh, n
  <2>2. ASSUME NEW i \in 1..Len(got), NEW k \in 1..Len(list), got[i] = list[k], k > n
        PROVE  i = k
    <3>1. i > n
      <4>1. SUFFICES ASSUME i <= n PROVE FALSE
        BY <1>1, <1>4
      <4>2. i \in 1..n /\ got[i] = fetched[i]
        BY <1>1, <1>3, <4>1
      <4> QED BY <2>1, <2>2, <4>2
    <3>2. i \in 1..Len(list) /\ got[i] = list[i]
      BY <1>5, <3>1
    <3> QED BY <2>2, <3>2
  <2>3. ASSUME NEW i \in 1..Len(got), NEW k \in 1..Len(got), got[i] = got[k]
        PROVE  i = k
    <3>1. CASE k > n
      BY <1>5, <2>2, <2>3, <3>1
    <3>2. CASE i > n
      BY <1>5, <2>2, <2>3, <3>2
    <3>3. CASE ~(k > n) /\ ~(i > n)
      <4>1. /\ i \in 1..n /\ k \in 1..n /\ got[i] = fetched[i] /\ got[k] = fetched[k]
        BY <1>1, <1>3, <1>4, <3>3
      <4> QED BY <1>1, <1>9, <2>3, <4>1 DEF IsInjective
    <3> QED BY <3>1, <3>2, <3>3
  <2>4. IsInjective(got)
    BY <1>3, <2>3 DEF IsInjective
  <2>5. ASSUME NEW k \in 1..Len(list), k > Len(got) PROVE list[k] \notin Range(got)
    <3>1. k > n
      BY <1>1, <1>4, <2>5
    <3>2. \A i \in 1..Len(got) : i # k
      BY <1>4, <2>5
    <3>3. \A i \in 1..Len(got) : got[i] # list[k]
      BY <2>2, <3>1, <3>2
    <3> QED BY <1>8, <3>3
  <2> QED BY <2>4, <2>5 DEF Fresh
<1>10. ASSUME NEW f, Ahead(f, fetched, list)
       PROVE  /\ Ahead(f, got, list)
              /\ Len(batch) < pageLimit \/ Len(got) >= Len(list) => f \in Range(got)
  <2>1. CASE f \in Range(fetched)
    <3>1. PICK i \in 1..n : fetched[i] = f
      BY <1>7, <2>1
    <3>2. i \in 1..Len(got) /\ got[i] = f
      BY <1>1, <1>3, <1>4, <3>1
    <3> QED BY <1>8, <3>2 DEF Ahead
  <2>2. CASE f \notin Range(fetched)
    <3>1. PICK i \in 1..Len(list) : i > n /\ list[i] = f
      BY <1>10, <2>2 DEF Ahead, n
    <3>2. CASE i <= Len(got)
      <4>1. i \in 1..Len(got)
        BY <1>1, <1>4, <3>1, <3>2
      <4>2. got[i] = f
        BY <1>5, <3>1, <4>1
      <4> QED BY <1>8, <4>1, <4>2 DEF Ahead
    <3>3. CASE ~(i <= Len(got))
      <4>1. i > Len(got) /\ ~(Len(got) >= Len(list))
        BY <1>1, <1>4, <3>1, <3>3
      <4> QED BY <1>6, <3>1, <4>1 DEF Ahead
    <3> QED BY <3>2, <3>3
  <2> QED BY <2>1, <2>2
<1> QED BY <1>3, <1>9, <1>10 DEF got, batch, n

LEMMA ExportedLists ==
  ASSUME NEW e, NEW server, Fetches(e, server), e.state = "paging"
  PROVE  LET list  == Matching(e.query, server)
             batch == Window(list, pageLimit, Offset(e))
             got   == e.got \o batch
             ends  == Len(batch) < pageLimit \/ Len(got) >= Len(list)
         IN  Fetches([e EXCEPT !.got = got, !.state = IF ends THEN "whole" ELSE "paging"], server)
<1> DEFINE list  == Matching(e.query, server)
           batch == Window(list, pageLimit, Len(e.got))
           got   == e.got \o batch
           ends  == Len(batch) < pageLimit \/ Len(got) >= Len(list)
           state == IF ends THEN "whole" ELSE "paging"
           f     == [e EXCEPT !.got = got, !.state = state]
<1>1. /\ list \in Seq(Findings) /\ e.got \in Seq(Findings)
      /\ \A i, j \in 1..Len(list) : list[i] = list[j] => i = j
  BY MatchingMatches, MatchingOnce DEF Fetches
<1>2. ~e.came /\ ~e.left => /\ \E m \in 0..Len(list) : got = SubSeq(list, 1, m)
                            /\ ends => got = list
  <2>1. ~e.came /\ ~e.left => \E n \in 0..Len(list) : e.got = SubSeq(list, 1, n)
    BY DEF Fetches
  <2> HIDE DEF list
  <2> QED BY <1>1, <2>1, PageFollows
<1>3. /\ ~e.came => IsInjective(e.got) /\ Fresh(e.got, list)
      /\ ~e.left => \A x \in e.began : Ahead(x, e.got, list)
  BY DEF Fetches
<1> SUFFICES Fetches(f, server)
  BY DEF Offset
<1> HIDE DEF list
<1>4. /\ got \in Seq(Findings)
      /\ ~e.came => IsInjective(got) /\ Fresh(got, list)
      /\ ~e.left => \A x \in e.began : Ahead(x, got, list) /\ (ends => x \in Range(got))
  BY <1>1, <1>3, PageDrifts
<1> HIDE DEF batch, got, ends
<1>5. state \in {"whole", "paging"} /\ (state = "whole" => ends)
  OBVIOUS
<1> HIDE DEF state
<1>6. /\ f = [field \in ExportFields |-> f[field]]
      /\ f.query = e.query /\ f.came = e.came /\ f.left = e.left /\ f.began = e.began
      /\ f.got = got /\ f.state = state
  BY DEF Fetches, ExportFields
<1> HIDE DEF f
<1> QED BY <1>2, <1>4, <1>5, <1>6 DEF Fetches, list

(***************************************************************************)
(* The server changes under an export.                                     *)
(***************************************************************************)
LEMMA DisturbedFetches ==
  ASSUME NEW e, NEW old, NEW new, Fetches(e, old), e.state = "paging"
  PROVE  Fetches(Disturbed(e, old, new), new) /\ Disturbed(e, old, new).state = "paging"
<1> DEFINE f == Disturbed(e, old, new)
           before == Matching(e.query, old)
           after  == Matching(e.query, new)
           came == ~Keeps(e.query, new, old)
           left == ~Keeps(e.query, old, new)
<1>1. f = [e EXCEPT !.came = e.came \/ came, !.left = e.left \/ left]
  BY DEF Disturbed, Keeps
<1>2. e = [field \in ExportFields |-> e[field]]
  BY DEF Fetches
<1> HIDE DEF f
<1>3. /\ f = [field \in ExportFields |-> f[field]]
      /\ f.query = e.query /\ f.got = e.got /\ f.state = e.state /\ f.began = e.began
      /\ f.came = (e.came \/ came) /\ f.left = (e.left \/ left)
  <2> HIDE DEF came, left
  <2> QED BY <1>1, <1>2 DEF ExportFields
<1>4. e.got \in Seq(Findings)
  BY DEF Fetches
<1>5. ASSUME ~f.came PROVE IsInjective(e.got) /\ Fresh(e.got, after)
  <2>1. ~e.came /\ Keeps(e.query, new, old)
    BY <1>3, <1>5
  <2>2. IsInjective(e.got) /\ Fresh(e.got, before)
    BY <2>1 DEF Fetches
  <2>3. ASSUME NEW i \in 1..Len(after), i > Len(e.got) PROVE after[i] \notin Range(e.got)
    <3>1. PICK j \in 1..Len(before) : i <= j /\ before[j] = after[i]
      BY <2>1, PlacesKept
    <3>2. j > Len(e.got)
      <4>1. Len(e.got) \in Nat /\ Len(before) \in Nat /\ Len(after) \in Nat
        BY <1>4, MatchingMatches, LenProperties
      <4> HIDE DEF before, after
      <4> QED BY <2>3, <3>1, <4>1
    <3> HIDE DEF before, after
    <3> QED BY <2>2, <3>1, <3>2 DEF Fresh
  <2> QED BY <2>2, <2>3 DEF Fresh
<1>6. ASSUME ~f.left, NEW x \in e.began PROVE Ahead(x, e.got, after)
  <2>1. ~e.left /\ Keeps(e.query, old, new)
    BY <1>3, <1>6
  <2>2. Ahead(x, e.got, before)
    BY <2>1 DEF Fetches
  <2>3. ASSUME NEW i \in 1..Len(before), i > Len(e.got), before[i] = x
        PROVE  \E j \in 1..Len(after) : j > Len(e.got) /\ after[j] = x
    <3>1. PICK j \in 1..Len(after) : i <= j /\ after[j] = before[i]
      BY <2>1, PlacesKept
    <3>2. j > Len(e.got)
      <4>1. Len(e.got) \in Nat /\ Len(before) \in Nat /\ Len(after) \in Nat
        BY <1>4, MatchingMatches, LenProperties
      <4> HIDE DEF before, after
      <4> QED BY <2>3, <3>1, <4>1
    <3> HIDE DEF before, after
    <3> QED BY <2>3, <3>1, <3>2
  <2> HIDE DEF before, after
  <2> QED BY <2>2, <2>3 DEF Ahead
<1>7. ASSUME ~f.came, ~f.left PROVE \E n \in 0..Len(after) : e.got = SubSeq(after, 1, n)
  <2>1. ~e.came /\ ~e.left /\ Matched(e.query, old) = Matched(e.query, new)
    BY <1>3, <1>7 DEF Keeps
  <2>2. after = before
    BY <2>1, MatchingSame
  <2> QED BY <2>1, <2>2 DEF Fetches
<1> HIDE DEF before, came, left
<1> QED BY <1>3, <1>4, <1>5, <1>6, <1>7 DEF Fetches, f, after

------------------------------------------------------------------------------
\* A step after which the server has these statuses: a file that was written is
\* forgotten, and an export that goes on remembers a change.
LEMMA ServedLists ==
  ASSUME ListsInv(screen), ViewerInv(screen), NEW s, ViewerInv(s),
         s.export = Serve(screen, s.server).export, s.page \in PositiveNumbers,
         \A q \in s.lists : q.page \in PositiveNumbers,
         \A d \in s.decisions : d.query.page \in PositiveNumbers,
         RowsStep(screen, activeCaseId, s, activeCaseId), Show(s)
  PROVE  ListsInv(screen') /\ RowsStep(screen, activeCaseId, screen', activeCaseId')
<1> DEFINE f == IF screen.export.state = "paging"
                THEN Disturbed(screen.export, screen.server, s.server) ELSE screen.export
           e == IF s.export = screen.export /\ s.export.state # "paging" THEN NoExport
                ELSE s.export
           t == [s EXCEPT !.export = e]
<1>1. s.export = f
  <2> DEFINE u == [screen EXCEPT !.server = s.server, !.export = f]
  <2>1. Serve(screen, s.server) = u
    BY DEF Serve
  <2>2. u.export = f
    <3> HIDE DEF f
    <3> QED BY DEF ViewerInv, ReviewsFields
  <2> HIDE DEF f, u
  <2> QED BY <2>1, <2>2
<1>2. e = NoExport \/ Fetches(e, s.server)
  <2>1. CASE screen.export.state # "paging"
    BY <1>1, <2>1
  <2>2. CASE screen.export.state = "paging"
    <3>1. Fetches(screen.export, screen.server)
      BY <2>2 DEF ListsInv, NoExport
    <3>2. Fetches(f, s.server) /\ f.state = "paging"
      BY <2>2, <3>1, DisturbedFetches
    <3> HIDE DEF f
    <3>3. e = f
      BY <1>1, <3>2
    <3> QED BY <3>2, <3>3
  <2> QED BY <2>1, <2>2
<1> HIDE DEF f
<1>3. screen' = t /\ activeCaseId' = activeCaseId
  BY DEF Show, Become
<1> HIDE DEF e
<1>4. /\ t.export = e /\ t.server = s.server /\ t.page = s.page /\ t.filter = s.filter
      /\ t.lists = s.lists /\ t.decisions = s.decisions
      /\ t.rows = s.rows /\ t.loading = s.loading /\ t.loadError = s.loadError
  BY DEF ViewerInv, ReviewsFields
<1> HIDE DEF t
<1>5. ListsInv(t)
  BY <1>2, <1>4 DEF ListsInv
<1>6. RowsStep(screen, activeCaseId, t, activeCaseId)
  BY <1>4 DEF RowsStep, KeepsRows, Query
<1> QED BY <1>3, <1>5, <1>6

\* A step that leaves the list, its query and the export alone.
SameLists(s) ==
  /\ s.server = screen.server /\ s.page = screen.page /\ s.filter = screen.filter
  /\ s.lists = screen.lists /\ s.rows = screen.rows /\ s.loading = screen.loading
  /\ screen.loadError => s.loadError

LEMMA KeptLists ==
  ASSUME ListsInv(screen), NEW s, ViewerInv(s), SameLists(s),
         s.export = NoExport \/ Fetches(s.export, s.server),
         \A d \in s.decisions : d.query.page \in PositiveNumbers, Show(s)
  PROVE  ListsInv(screen') /\ RowsStep(screen, activeCaseId, screen', activeCaseId')
<1>1. ListsInv(s)
  BY DEF ListsInv, SameLists
<1>2. RowsStep(screen, activeCaseId, s, activeCaseId)
  BY DEF RowsStep, KeepsRows, SameLists, Query
<1> QED BY <1>1, <1>2, ShownLists

LEMMA ReviewsKeepLists ==
  ASSUME ViewerInv(screen), ListsInv(screen), ReviewsNext
  PROVE  ListsInv(screen') /\ RowsStep(screen, activeCaseId, screen', activeCaseId')
<1> DEFINE Goal == ListsInv(screen') /\ RowsStep(screen, activeCaseId, screen', activeCaseId')
<1> SUFFICES Goal
  OBVIOUS
<1>1. ASSUME NEW q \in screen.lists, ListAnswer(q) PROVE Goal
  <2> DEFINE list == Matching(q, screen.server)
             rows == Window(list, pageSize, (q.page - 1) * pageSize)
             shown == [i \in DOMAIN rows |->
                        [finding |-> rows[i], status |-> screen.server[rows[i]]]]
             s == [screen EXCEPT !.lists = screen.lists \ {q}, !.loading = FALSE]
             t == [s EXCEPT !.total = Len(list), !.rows = shown]
             u == [s EXCEPT !.rows = <<>>, !.total = 0, !.loadError = TRUE]
  <2>1. Show(t) \/ Show(u)
    BY <1>1 DEF ListAnswer
  <2>2. /\ list \in Seq(Findings)
        /\ \A k \in 1..Len(list) : Matches(q, list[k], screen.server[list[k]])
    BY MatchingMatches
  <2>3. \A i \in DOMAIN rows : \E k \in 1..Len(list) : rows[i] = list[k]
    <3>1. (q.page - 1) * pageSize \in Nat /\ pageSize \in Nat
      <4>1. q.page \in Nat /\ q.page > 0 /\ pageSize \in Nat
        BY PagesAssumption DEF ListsInv, PositiveNumbers
      <4>2. q.page - 1 \in Nat
        BY <4>1
      <4> HIDE DEF s
      <4>3. \A a, b \in Nat : a * b \in Nat
        OBVIOUS
      <4> QED BY <4>1, <4>2, <4>3
    <3> HIDE DEF list
    <3> QED BY <2>2, <3>1, WindowIs
  <2>4. \A i \in DOMAIN shown : Matches(q, shown[i].finding, shown[i].status)
    <3> HIDE DEF list, rows
    <3>1. ASSUME NEW i \in DOMAIN shown
          PROVE  Matches(q, shown[i].finding, shown[i].status)
      <4>1. /\ i \in DOMAIN rows /\ shown[i].finding = rows[i]
            /\ shown[i].status = screen.server[rows[i]]
        OBVIOUS
      <4>2. Matches(q, rows[i], screen.server[rows[i]])
        BY <2>2, <2>3, <4>1
      <4> QED BY <4>1, <4>2
    <3> QED BY <3>1
  <2> HIDE DEF list, rows, shown
  <2>5. /\ ViewerInv(t) /\ t.lists = screen.lists \ {q} /\ t.rows = shown
        /\ t.server = screen.server /\ t.page = screen.page /\ t.filter = screen.filter
        /\ t.decisions = screen.decisions /\ t.export = screen.export
    BY DEF ViewerInv, ReviewsFields
  <2>6. /\ ViewerInv(u) /\ u.lists = screen.lists \ {q} /\ u.loadError
        /\ u.server = screen.server /\ u.page = screen.page
        /\ u.decisions = screen.decisions /\ u.export = screen.export
    BY DEF ViewerInv, ReviewsFields
  <2> HIDE DEF s, t, u
  <2>7. ListsInv(t) /\ ListsInv(u)
    BY <2>5, <2>6 DEF ListsInv
  <2>8. RowsStep(screen, activeCaseId, t, activeCaseId)
    BY <2>4, <2>5 DEF RowsStep, Query
  <2>9. RowsStep(screen, activeCaseId, u, activeCaseId)
    BY <2>6 DEF RowsStep
  <2> QED BY <2>1, <2>5, <2>6, <2>7, <2>8, <2>9, ShownLists
<1>2. ASSUME NEW d \in screen.decisions, DecisionAnswer(d) PROVE Goal
  <2> DEFINE s == [screen EXCEPT !.decisions = screen.decisions \ {d}]
             done == Executed(screen.server, d.ids, d.action)
             t == Serve(s, done)
             u == fetchReviews(t, d.query)
             v == IF d.batch THEN {} ELSE u.selected
             w == [u EXCEPT !.selected = v]
  <2>1. Show(w) \/ Show(t) \/ Show(s)
    BY <1>2 DEF DecisionAnswer
  <2>2. /\ ViewerInv(s) /\ SameLists(s) /\ s.export = screen.export
        /\ s.decisions \subseteq screen.decisions
    BY DEF ViewerInv, ReviewsFields, SameLists
  <2> HIDE DEF s, done
  <2>3. ViewerInv(t)
    BY <2>2, ServedReviews
  <2>4. /\ t.export = Serve(screen, t.server).export
        /\ t.page = screen.page /\ t.filter = screen.filter /\ t.lists = screen.lists
        /\ t.rows = screen.rows /\ t.loading = screen.loading
        /\ screen.loadError => t.loadError
        /\ t.decisions = s.decisions
    <3> DEFINE f(e) == IF e.state = "paging" THEN Disturbed(e, screen.server, done) ELSE e
    <3>0. s.server = screen.server
      BY <2>2 DEF SameLists
    <3>1. /\ t = [s EXCEPT !.server = done, !.export = f(s.export)]
          /\ Serve(screen, done) = [screen EXCEPT !.server = done, !.export = f(screen.export)]
      BY <3>0 DEF Serve
    <3> HIDE DEF f, t
    <3>2. /\ t.server = done /\ t.export = f(s.export) /\ t.page = s.page
          /\ t.filter = s.filter /\ t.lists = s.lists /\ t.rows = s.rows
          /\ t.loading = s.loading /\ t.loadError = s.loadError /\ t.decisions = s.decisions
          /\ Serve(screen, done).export = f(screen.export)
      BY <2>2, <3>1 DEF ViewerInv, ReviewsFields
    <3> QED BY <2>2, <3>2 DEF SameLists
  <2> HIDE DEF t
  <2>5. /\ t.page \in PositiveNumbers /\ \A q \in t.lists : q.page \in PositiveNumbers
        /\ \A e \in t.decisions : e.query.page \in PositiveNumbers
        /\ d.query.page \in PositiveNumbers
    BY <2>2, <2>4 DEF ListsInv
  <2>6. CASE Show(t)
    <3>1. RowsStep(screen, activeCaseId, t, activeCaseId)
      BY <2>4 DEF RowsStep, KeepsRows, Query
    <3> QED BY <2>3, <2>4, <2>5, <2>6, <3>1, ServedLists
  <2>7. CASE Show(w)
    <3>1. ViewerInv(u)
      BY <2>3, FetchedReviews
    <3>2. /\ u.lists = t.lists \cup {d.query} /\ u.server = t.server /\ u.page = t.page
          /\ u.export = t.export /\ u.decisions = t.decisions
      BY <2>3 DEF ViewerInv, ReviewsFields, fetchReviews
    <3> HIDE DEF u, v
    <3>3. /\ ViewerInv(w) /\ w.lists = u.lists /\ w.server = u.server /\ w.page = u.page
          /\ w.export = u.export /\ w.decisions = u.decisions
      BY <3>1 DEF ViewerInv, ReviewsFields
    <3> HIDE DEF w
    <3>4. RowsStep(screen, activeCaseId, w, activeCaseId)
      BY <3>2, <3>3 DEF RowsStep
    <3> QED BY <2>4, <2>5, <2>7, <3>2, <3>3, <3>4, ServedLists
  <2>8. CASE Show(s)
    BY <2>2, <2>8, KeptLists DEF ListsInv, SameLists
  <2> QED BY <2>1, <2>6, <2>7, <2>8
<1>3. ASSUME NEW s, ViewerInv(s), SameLists(s), s.export = screen.export,
             s.decisions = screen.decisions, Show(s)
      PROVE  Goal
  BY <1>3, KeptLists DEF ListsInv, SameLists
<1>4. ASSUME NEW v \in screen.opening, CaseAnswer(v) PROVE Goal
  <2> DEFINE s == [screen EXCEPT !.opening = screen.opening \ {v}]
             t == [s EXCEPT !.viewer = v]
             u == [s EXCEPT !.loadError = TRUE]
  <2>1. Show(t) \/ Show(u)
    BY <1>4 DEF CaseAnswer
  <2>2. /\ ViewerInv(s) /\ SameLists(s) /\ s.export = screen.export
        /\ s.decisions = screen.decisions /\ OfItsCase(v)
    BY DEF ViewerInv, ReviewsFields, SameLists
  <2> HIDE DEF s
  <2>3. /\ ViewerInv(t) /\ SameLists(t) /\ t.export = screen.export
        /\ t.decisions = screen.decisions
    BY <2>2 DEF ViewerInv, ReviewsFields, SameLists
  <2>4. /\ ViewerInv(u) /\ SameLists(u) /\ u.export = screen.export
        /\ u.decisions = screen.decisions
    BY <2>2 DEF ViewerInv, ReviewsFields, SameLists
  <2> HIDE DEF t, u
  <2> QED BY <1>3, <2>1, <2>3, <2>4
<1>5. CASE ExportAnswer
  <2> DEFINE e == screen.export
             list == Matching(e.query, screen.server)
             batch == Window(list, pageLimit, Offset(e))
             got == e.got \o batch
             ends == Len(batch) < pageLimit \/ Len(got) >= Len(list)
             state == IF ends THEN "whole" ELSE "paging"
             page == IF e.got # <<>> THEN e.got
                     ELSE [i \in DOMAIN screen.rows |-> screen.rows[i].finding]
             t == [screen EXCEPT !.export = [e EXCEPT !.got = got, !.state = state]]
             u == [screen EXCEPT !.loadError = TRUE,
                                 !.export = [e EXCEPT !.state = "cut", !.got = page]]
  <2>1. e.state = "paging" /\ Fetches(e, screen.server)
    BY <1>5 DEF ExportAnswer, ListsInv, NoExport
  <2>2. Show(t) \/ Show(u)
    <3>1. \/ Show([screen EXCEPT !.export.got = got,
                                 !.export.state = IF ends THEN "whole" ELSE e.state])
          \/ Show([screen EXCEPT !.loadError = TRUE, !.export.state = "cut",
                                 !.export.got = page])
      BY <1>5 DEF ExportAnswer, ViewerInv, ReviewsFields
    <3> HIDE DEF got, ends, page
    <3>2. [screen EXCEPT !.export.got = got, !.export.state = IF ends THEN "whole" ELSE e.state] = t
      BY <2>1 DEF ViewerInv, ReviewsFields
    <3>3. [screen EXCEPT !.loadError = TRUE, !.export.state = "cut", !.export.got = page] = u
      BY DEF ViewerInv, ReviewsFields
    <3> QED BY <3>1, <3>2, <3>3
  <2>3. Fetches([e EXCEPT !.got = got, !.state = state], screen.server)
    BY <2>1, ExportedLists, Zenon
  <2> HIDE DEF got, state, page
  <2>4. Fetches([e EXCEPT !.state = "cut", !.got = page], screen.server)
    <3> DEFINE f == [e EXCEPT !.state = "cut", !.got = page]
    <3>1. f = [field \in ExportFields |-> f[field]] /\ f.state = "cut"
      BY <2>1 DEF Fetches, ExportFields
    <3> HIDE DEF f
    <3> QED BY <3>1 DEF Fetches, f
  <2>5. ASSUME NEW f, Fetches(f, screen.server), NEW s,
               \/ s = [screen EXCEPT !.export = f]
               \/ s = [screen EXCEPT !.loadError = TRUE, !.export = f],
               Show(s)
        PROVE  Goal
    <3>1. /\ ViewerInv(s) /\ SameLists(s) /\ s.export = f
          /\ s.decisions = screen.decisions
      BY <2>5 DEF ViewerInv, ReviewsFields, SameLists
    <3>2. Fetches(s.export, s.server)
      BY <2>5, <3>1 DEF SameLists
    <3>3. \A d \in s.decisions : d.query.page \in PositiveNumbers
      BY <3>1 DEF ListsInv
    <3> QED BY <2>5, <3>1, <3>2, <3>3, KeptLists
  <2> QED BY <2>2, <2>3, <2>4, <2>5
<1>6. CASE ServerMoves
  <2>0. PICK done : Show(Serve(screen, done))
    BY <1>6, ServerMovesServe
  <2> DEFINE s == Serve(screen, done)
  <2>1. Show(s) /\ ViewerInv(s)
    BY <2>0, ServedReviews
  <2>2. /\ s.server = done /\ s.page = screen.page /\ s.filter = screen.filter
        /\ s.lists = screen.lists /\ s.rows = screen.rows /\ s.loading = screen.loading
        /\ s.loadError = screen.loadError /\ s.decisions = screen.decisions
    <3> DEFINE e == IF screen.export.state = "paging"
                    THEN Disturbed(screen.export, screen.server, done) ELSE screen.export
    <3>1. s = [screen EXCEPT !.server = done, !.export = e]
      BY DEF Serve
    <3> HIDE DEF s, e
    <3> QED BY <3>1 DEF ViewerInv, ReviewsFields
  <2>3. s.export = Serve(screen, s.server).export
    BY <2>2
  <2> HIDE DEF s
  <2>4. RowsStep(screen, activeCaseId, s, activeCaseId)
    BY <2>2 DEF RowsStep, KeepsRows, Query
  <2>5. /\ s.page \in PositiveNumbers /\ \A q \in s.lists : q.page \in PositiveNumbers
        /\ \A d \in s.decisions : d.query.page \in PositiveNumbers
    BY <2>2 DEF ListsInv
  <2> QED BY <2>1, <2>3, <2>4, <2>5, ServedLists
<1>7. ASSUME NEW s, ViewerInv(s), s.server = screen.server, s.page \in PositiveNumbers,
             s.lists = screen.lists, s.rows = screen.rows, s.loading = screen.loading,
             s.loadError = screen.loadError, s.decisions = screen.decisions,
             s.export = screen.export, Show(Refiltered(s, activeCaseId))
      PROVE  Goal
  <2>1. ListsInv(s)
    BY <1>7 DEF ListsInv
  <2>2. /\ ListsInv(Refiltered(s, activeCaseId)) /\ ViewerInv(Refiltered(s, activeCaseId))
        /\ RowsStep(screen, activeCaseId, Refiltered(s, activeCaseId), activeCaseId)
    BY <1>7, <2>1, RefilteredLists, RefilteredReviews
  <2> QED BY <1>7, <2>2, ShownLists
<1>8. ASSUME NEW p \in 1..Cardinality(Findings), TurnTo(p) PROVE Goal
  <2> DEFINE s == [screen EXCEPT !.page = p]
  <2>1. p \in PositiveNumbers
    BY FindingsAssumption, LenProperties DEF PositiveNumbers
  <2>2. Show(Refiltered(s, activeCaseId))
    BY <1>8 DEF TurnTo
  <2>3. /\ ViewerInv(s) /\ s.server = screen.server /\ s.page = p
        /\ s.lists = screen.lists /\ s.rows = screen.rows /\ s.loading = screen.loading
        /\ s.loadError = screen.loadError /\ s.decisions = screen.decisions
        /\ s.export = screen.export
    BY DEF ViewerInv, ReviewsFields
  <2> HIDE DEF s
  <2> QED BY <1>7, <2>1, <2>2, <2>3
<1>9. ASSUME NEW filter, FilterRows(filter) PROVE Goal
  <2> DEFINE s == [screen EXCEPT !.filter = filter, !.page = 1]
  <2>1. Show(Refiltered(s, activeCaseId))
    BY <1>9 DEF FilterRows
  <2>2. /\ ViewerInv(s) /\ s.server = screen.server /\ s.page = 1
        /\ s.lists = screen.lists /\ s.rows = screen.rows /\ s.loading = screen.loading
        /\ s.loadError = screen.loadError /\ s.decisions = screen.decisions
        /\ s.export = screen.export
    BY DEF ViewerInv, ReviewsFields
  <2>3. 1 \in PositiveNumbers
    BY DEF PositiveNumbers
  <2> HIDE DEF s
  <2> QED BY <1>7, <2>1, <2>2, <2>3
<1>10. ASSUME NEW c, FilterCase(c) PROVE Goal
  <2> DEFINE s == [screen EXCEPT !.page = 1]
  <2>1. screen' = Refiltered(s, c) /\ activeCaseId' = c
    BY <1>10 DEF FilterCase, BecomeWithCase
  <2>2. /\ ViewerInv(s) /\ s.server = screen.server /\ s.page = 1
        /\ s.lists = screen.lists /\ s.rows = screen.rows /\ s.loading = screen.loading
        /\ s.loadError = screen.loadError /\ s.decisions = screen.decisions
        /\ s.export = screen.export
    BY DEF ViewerInv, ReviewsFields
  <2> HIDE DEF s
  <2>3. ListsInv(s)
    BY <2>2 DEF ListsInv, PositiveNumbers
  <2>4. ListsInv(Refiltered(s, c)) /\ RowsStep(screen, activeCaseId, Refiltered(s, c), c)
    BY <2>2, <2>3, RefilteredLists
  <2> QED BY <2>1, <2>4
<1>11. CASE Retry
  <2> DEFINE q == Query(screen, activeCaseId)
             s == fetchReviews(screen, q)
  <2>1. q.page \in PositiveNumbers
    BY DEF Query, ListsInv
  <2>2. Show(s)
    BY <1>11 DEF Retry
  <2>3. ViewerInv(s) /\ ListsInv(s) /\ s.lists # {}
    BY <2>1, FetchedReviews, FetchedLists
  <2> HIDE DEF s
  <2>4. RowsStep(screen, activeCaseId, s, activeCaseId)
    BY <2>3 DEF RowsStep
  <2> QED BY <2>2, <2>3, <2>4, ShownLists
<1>12. ASSUME NEW ids, NEW a, NEW batch, decideReview(ids, a, batch) PROVE Goal
  <2> DEFINE q == Query(screen, activeCaseId)
             d == [ids |-> ids, action |-> a, batch |-> batch, query |-> q]
             s == [screen EXCEPT !.decisions = screen.decisions \cup {d}]
  <2>1. d.query.page \in PositiveNumbers
    BY DEF Query, ListsInv
  <2>2. Show(s)
    BY <1>12 DEF decideReview
  <2> HIDE DEF d
  <2>3. /\ ViewerInv(s) /\ SameLists(s) /\ s.export = screen.export
        /\ s.decisions = screen.decisions \cup {d}
    BY DEF ViewerInv, ReviewsFields, SameLists
  <2> HIDE DEF s
  <2>4. /\ s.export = NoExport \/ Fetches(s.export, s.server)
        /\ \A e \in s.decisions : e.query.page \in PositiveNumbers
    BY <2>1, <2>3 DEF ListsInv, SameLists
  <2> QED BY <2>2, <2>3, <2>4, KeptLists
<1>13. CASE \E a \in Actions : DecideInViewer(a) \/ handleBatchAction(a)
  BY <1>12, <1>13 DEF DecideInViewer, handleBatchAction
<1>14. ASSUME NEW v, OfItsCase(v), Show([screen EXCEPT !.opening = screen.opening \cup {v}])
       PROVE  Goal
  <2> DEFINE s == [screen EXCEPT !.opening = screen.opening \cup {v}]
  <2>1. /\ ViewerInv(s) /\ SameLists(s) /\ s.export = screen.export
        /\ s.decisions = screen.decisions
    BY <1>14 DEF ViewerInv, ReviewsFields, SameLists
  <2> HIDE DEF s
  <2> QED BY <1>3, <1>14, <2>1 DEF s
<1>15. ASSUME NEW f, NEW i PROVE OfItsCase(ViewerOf(f, i))
  BY DEF OfItsCase, ViewerOf
<1>16. CASE \E i \in DOMAIN screen.rows :
              handleOpenSplitForFinding(i) \/ \E a \in Actions : handleAction(i, a)
  BY <1>12, <1>14, <1>15, <1>16 DEF handleOpenSplitForFinding, handleAction
<1>17. ASSUME NEW v, v = NoViewer \/ OfItsCase(v), Show([screen EXCEPT !.viewer = v])
       PROVE  Goal
  <2> DEFINE s == [screen EXCEPT !.viewer = v]
  <2>1. /\ ViewerInv(s) /\ SameLists(s) /\ s.export = screen.export
        /\ s.decisions = screen.decisions
    BY <1>17 DEF ViewerInv, ReviewsFields, SameLists
  <2> HIDE DEF s
  <2> QED BY <1>3, <1>17, <2>1 DEF s
<1>18. CASE CloseViewer
  BY <1>17, <1>18 DEF CloseViewer
<1>19. ASSUME NEW i, ViewerOpen, handleNavigateFinding(i) PROVE Goal
  <2> DEFINE f == screen.rows[i].finding
             v == [screen.viewer EXCEPT !.finding = f, !.index = i]
  <2>1. CASE CaseOf[f] = screen.viewer.case
    <3>1. OfItsCase(v)
      BY <1>19, <2>1, AnotherFinding DEF ViewerOpen, ViewerInv
    <3>2. [screen EXCEPT !.viewer.finding = f, !.viewer.index = i] = [screen EXCEPT !.viewer = v]
      BY DEF ViewerInv, ReviewsFields
    <3>3. Show([screen EXCEPT !.viewer.finding = f, !.viewer.index = i])
      BY <1>19, <2>1 DEF handleNavigateFinding
    <3> QED BY <1>17, <3>1, <3>2, <3>3
  <2>2. CASE CaseOf[f] # screen.viewer.case
    BY <1>14, <1>15, <1>19, <2>2 DEF handleNavigateFinding
  <2> QED BY <2>1, <2>2
<1>20. ASSUME NEW e, Show([screen EXCEPT !.selected = e]) PROVE Goal
  <2> DEFINE s == [screen EXCEPT !.selected = e]
  <2>1. /\ ViewerInv(s) /\ SameLists(s) /\ s.export = screen.export
        /\ s.decisions = screen.decisions
    BY DEF ViewerInv, ReviewsFields, SameLists
  <2> HIDE DEF s
  <2> QED BY <1>3, <1>20, <2>1 DEF s
<1>21. CASE toggleSelectAllVisible \/ clearSelection \/ \E f \in Findings : toggleSelectOne(f)
  BY <1>20, <1>21 DEF toggleSelectAllVisible, clearSelection, toggleSelectOne
<1>22. CASE fetchAllFindingsForExport
  <2> DEFINE q == Query(screen, activeCaseId)
             e == [state |-> "paging", query |-> q, got |-> <<>>,
                   came |-> FALSE, left |-> FALSE, began |-> Matched(q, screen.server)]
             s == [screen EXCEPT !.export = e]
  <2>1. Show(s)
    BY <1>22 DEF fetchAllFindingsForExport
  <2>2. Fetches(e, screen.server)
    <3> DEFINE list == Matching(q, screen.server)
    <3>1. /\ list \in Seq(Findings)
          /\ \A f \in Matched(q, screen.server) : \E i \in 1..Len(list) : list[i] = f
      BY MatchingMatches, MatchingOnce
    <3>2. /\ e = [field \in ExportFields |-> e[field]] /\ e.got = <<>> /\ e.state = "paging"
          /\ e.query = q /\ e.began = Matched(q, screen.server)
      BY DEF ExportFields
    <3> HIDE DEF e, list, q
    <3>3. 0 \in 0..Len(list) /\ SubSeq(list, 1, 0) = <<>>
      BY <3>1, LenProperties, SubSeqEmpty
    <3>4. /\ <<>> \in Seq(Findings) /\ Len(<<>>) = 0 /\ IsInjective(<<>>) /\ Range(<<>>) = {}
          /\ \A i \in 1..Len(list) : i > 0
      BY <3>1, EmptySeq, LenProperties DEF IsInjective, Range
    <3>5. Fresh(<<>>, list) /\ \A f \in e.began : Ahead(f, <<>>, list)
      BY <3>1, <3>2, <3>4 DEF Fresh, Ahead
    <3> QED BY <3>2, <3>3, <3>4, <3>5 DEF Fetches, list
  <2> HIDE DEF e
  <2>3. ViewerInv(s) /\ SameLists(s) /\ s.export = e /\ s.decisions = screen.decisions
    BY DEF ViewerInv, ReviewsFields, SameLists
  <2> HIDE DEF s
  <2>4. /\ Fetches(s.export, s.server)
        /\ \A d \in s.decisions : d.query.page \in PositiveNumbers
    BY <2>2, <2>3 DEF ListsInv, SameLists
  <2> QED BY <2>1, <2>3, <2>4, KeptLists
<1> HIDE DEF Goal
<1> QED
  BY <1>1, <1>2, <1>4, <1>5, <1>6, <1>8, <1>9, <1>10, <1>11, <1>13, <1>16, <1>18, <1>19,
     <1>21, <1>22 DEF ReviewsNext, ServerMoves

------------------------------------------------------------------------------
(***************************************************************************)
(* The case screen.  A polling interval polls the run on display; a run is *)
(* asked for only when the detail of its case has come, and a selection    *)
(* cancels what was asked for the case before.                             *)
(***************************************************************************)
CasesFields ==
  {"exists", "latest", "caseDetail", "activeWorkflow", "detailError", "gets", "interval",
   "refreshes", "uploading", "uploaded", "analyzing", "creating", "deleteConfirm", "deleting"}

DetailOf(c) == [case |-> c, n |-> 0]

CasesInv(s, c) ==
  /\ s = [field \in CasesFields |-> s[field]]
  /\ \A g \in s.gets : g = [case |-> g.case, n |-> g.n]
  /\ s.interval = NoPoll \/ s.interval.case = s.activeWorkflow.case
  /\ NoCase \notin s.refreshes
  /\ c # NoCase => \A g \in s.gets : g.case = c /\ g.n # 0 =>
       s.caseDetail # NoCase /\ DetailOf(c) \notin s.gets

\* What the three action properties say of a state s with the active case c.
Polled(s) ==
  s.activeWorkflow.status \in ActiveStatuses =>
    s.interval.case = s.activeWorkflow.case /\ s.interval.n = s.activeWorkflow.n

Agree(s, c) ==
  c # NoCase =>
    /\ DetailOf(c) \in s.gets \/ s.caseDetail \in {NoCase, c}
    /\ (\E g \in s.gets : g.case = c) \/ s.activeWorkflow.case \in {NoCase, c}

Mute(s, c) ==
  c # NoCase /\ s.caseDetail = NoCase /\ ~s.detailError /\ \A g \in s.gets : g.case # c

Stranger(s, t, c) ==
  \/ \E d \in s.refreshes \ t.refreshes : d # c
  \/ \E k \in {"uploading", "analyzing"} : s[k] \notin {NoCase, c} /\ t[k] = NoCase
  \/ /\ \E g \in s.gets \ t.gets : g.case = c /\ g.n = 0
     /\ t.detailError /\ t.caseDetail = NoCase

\* A step from s, where c is active, to t, where d is.
CasesStep(s, c, t, d) ==
  /\ CasesInv(t, d)
  /\ Polled(s) /\ ~Polled(t) => t = [s EXCEPT !.interval = NoPoll]
  /\ Agree(s, c) /\ ~Agree(t, d) => Stranger(s, t, c)
  /\ ~Mute(s, c) /\ Mute(t, d) => s.detailError

\* The part of the screen these are about.
Alike(s, t) ==
  /\ t = [field \in CasesFields |-> t[field]]
  /\ t.caseDetail = s.caseDetail /\ t.activeWorkflow = s.activeWorkflow
  /\ t.detailError = s.detailError /\ t.gets = s.gets /\ t.interval = s.interval
  /\ t.refreshes = s.refreshes

LEMMA AlikeStep ==
  ASSUME NEW s, NEW c, CasesInv(s, c), NEW t, Alike(s, t)
  PROVE  CasesStep(s, c, t, c)
<1>1. CasesInv(t, c)
  BY DEF CasesInv, Alike
<1>2. Polled(s) => Polled(t)
  BY DEF Polled, Alike
<1>3. Agree(s, c) => Agree(t, c)
  BY DEF Agree, Alike
<1>4. Mute(t, c) => Mute(s, c)
  BY DEF Mute, Alike
<1> QED BY <1>1, <1>2, <1>3, <1>4 DEF CasesStep

\* What setActiveWorkflow and the polling effect do to a screen.
LEMMA WorkflowSet ==
  ASSUME NEW s, s = [field \in CasesFields |-> s[field]], NEW r, NEW c,
         s.interval = NoPoll \/ s.interval.case = s.activeWorkflow.case
  PROVE  LET t == WithWorkflow(s, r, c)
         IN  /\ t = [field \in CasesFields |-> t[field]]
             /\ \A field \in CasesFields \ {"activeWorkflow", "interval"} : t[field] = s[field]
             /\ t.activeWorkflow = r
             /\ t.interval = NoPoll \/ t.interval.case = r.case
             /\ Polled(s) => Polled(t)
<1> DEFINE i == IF r = s.activeWorkflow THEN s.interval
                ELSE IF r.status \notin ActiveStatuses THEN NoPoll
                ELSE [case |-> r.case, n |-> r.n, from |-> c]
           t == WithWorkflow(s, r, c)
<1>1. t = [s EXCEPT !.activeWorkflow = r, !.interval = i]
  BY DEF WithWorkflow
<1>2. CASE r = s.activeWorkflow
  <2>1. i = s.interval
    BY <1>2
  <2> HIDE DEF i, t
  <2> QED BY <1>1, <1>2, <2>1 DEF Polled, CasesFields, t
<1>3. CASE r # s.activeWorkflow /\ r.status \notin ActiveStatuses
  <2>1. i = NoPoll
    BY <1>3
  <2> HIDE DEF i, t
  <2> QED BY <1>1, <1>3, <2>1 DEF Polled, CasesFields, t
<1>4. CASE r # s.activeWorkflow /\ r.status \in ActiveStatuses
  <2>1. i = [case |-> r.case, n |-> r.n, from |-> c]
    BY <1>4
  <2>2. i.case = r.case /\ i.n = r.n
    BY <2>1
  <2> HIDE DEF i, t
  <2> QED BY <1>1, <1>4, <2>2 DEF Polled, CasesFields, t
<1> QED BY <1>2, <1>3, <1>4

\* The steps of the screen.
StepsOn == CasesStep(screen, activeCaseId, screen', activeCaseId')

LEMMA KeepsOn ==
  ASSUME CasesInv(screen, activeCaseId), NEW s, Alike(screen, s), Become(s)
  PROVE  StepsOn
BY AlikeStep DEF Become, StepsOn

LEMMA SelectsOn ==
  ASSUME CasesInv(screen, activeCaseId), NEW s, Alike(screen, s), NEW c,
         screen' = CasesSelect(s, c), activeCaseId' = c
  PROVE  StepsOn
<1>1. CASE c = activeCaseId
  BY <1>1, AlikeStep DEF CasesSelect, StepsOn
<1>2. CASE c # activeCaseId /\ c = NoCase
  <2> DEFINE u == [s EXCEPT !.caseDetail = NoCase, !.detailError = FALSE]
             t == WithWorkflow(u, NoRun, c)
  <2>1. screen' = t
    BY <1>2 DEF CasesSelect
  <2>2. /\ u = [field \in CasesFields |-> u[field]]
        /\ u.interval = screen.interval /\ u.activeWorkflow = screen.activeWorkflow
        /\ u.gets = screen.gets /\ u.refreshes = screen.refreshes
    BY DEF Alike, CasesFields
  <2> HIDE DEF u
  <2>3. /\ t = [field \in CasesFields |-> t[field]]
        /\ \A field \in CasesFields \ {"activeWorkflow", "interval"} : t[field] = u[field]
        /\ t.activeWorkflow = NoRun
        /\ t.interval = NoPoll \/ t.interval.case = NoRun.case
        /\ Polled(u) => Polled(t)
    BY <2>2, WorkflowSet DEF CasesInv
  <2> HIDE DEF t
  <2>4. t.gets = screen.gets /\ t.refreshes = screen.refreshes
    BY <2>2, <2>3 DEF CasesFields
  <2>5. CasesInv(t, c)
    BY <1>2, <2>3, <2>4 DEF CasesInv
  <2>6. Polled(screen) => Polled(t)
    BY <2>2, <2>3 DEF Polled
  <2> QED BY <1>2, <2>1, <2>5, <2>6 DEF StepsOn, CasesStep, Agree, Mute
<1>3. CASE c # activeCaseId /\ c # NoCase
  <2> DEFINE t == [s EXCEPT !.detailError = FALSE,
                            !.gets = {g \in s.gets : g.case # c} \cup {[case |-> c, n |-> 0]}]
  <2>1. screen' = t
    BY <1>3 DEF CasesSelect
  <2>2. /\ t = [field \in CasesFields |-> t[field]]
        /\ t.gets = {g \in screen.gets : g.case # c} \cup {DetailOf(c)}
        /\ t.interval = screen.interval /\ t.activeWorkflow = screen.activeWorkflow
        /\ t.refreshes = screen.refreshes
    BY DEF Alike, CasesFields, DetailOf
  <2> HIDE DEF t
  <2>3. DetailOf(c).case = c /\ DetailOf(c).n = 0 /\ DetailOf(c) = [case |-> c, n |-> 0]
    BY DEF DetailOf
  <2>4. DetailOf(c) \in t.gets /\ \A g \in t.gets : g.case = c => g = DetailOf(c)
    BY <2>2
  <2>5. CasesInv(t, c)
    BY <2>2, <2>3, <2>4 DEF CasesInv
  <2>6. Polled(screen) => Polled(t)
    BY <2>2 DEF Polled
  <2>7. Agree(t, c) /\ ~Mute(t, c)
    BY <2>3, <2>4 DEF Agree, Mute
  <2> QED BY <1>3, <2>1, <2>5, <2>6, <2>7 DEF StepsOn, CasesStep
<1> QED BY <1>1, <1>2, <1>3

\* A step that changes what is shown of the run of a case.
LEMMA WorkflowOn ==
  ASSUME CasesInv(screen, activeCaseId), NEW s, s = [field \in CasesFields |-> s[field]],
         s.interval = screen.interval, s.activeWorkflow = screen.activeWorkflow,
         NoCase \notin s.refreshes, s.gets \subseteq screen.gets,
         activeCaseId # NoCase => s.caseDetail # NoCase \/ s.caseDetail = screen.caseDetail,
         NEW r, Become(WithWorkflow(s, r, activeCaseId)),
         /\ activeCaseId # NoCase
         /\ Agree(screen, activeCaseId) /\ ~Stranger(screen, screen', activeCaseId)
         => /\ DetailOf(activeCaseId) \in s.gets \/ s.caseDetail \in {NoCase, activeCaseId}
            /\ \/ \E g \in s.gets : g.case = activeCaseId
               \/ r.case \in {NoCase, activeCaseId},
         ~Mute(screen, activeCaseId) /\ Mute(s, activeCaseId) => screen.detailError
  PROVE  StepsOn
<1> DEFINE t == WithWorkflow(s, r, activeCaseId)
<1>1. screen' = t /\ activeCaseId' = activeCaseId
  BY DEF Become
<1>2. /\ t = [field \in CasesFields |-> t[field]]
      /\ \A field \in CasesFields \ {"activeWorkflow", "interval"} : t[field] = s[field]
      /\ t.activeWorkflow = r
      /\ t.interval = NoPoll \/ t.interval.case = r.case
      /\ Polled(s) => Polled(t)
  BY WorkflowSet DEF CasesInv
<1> HIDE DEF t
<1>3. /\ t.gets = s.gets /\ t.caseDetail = s.caseDetail /\ t.detailError = s.detailError
      /\ t.refreshes = s.refreshes
  BY <1>2 DEF CasesFields
<1>4. CasesInv(t, activeCaseId)
  BY <1>2, <1>3 DEF CasesInv
<1>5. Polled(screen) => Polled(t)
  BY <1>2 DEF Polled
<1>6. Agree(screen, activeCaseId) /\ ~Agree(t, activeCaseId) => Stranger(screen, t, activeCaseId)
  BY <1>1, <1>2, <1>3 DEF Agree
<1>7. Mute(t, activeCaseId) => Mute(s, activeCaseId)
  BY <1>3 DEF Mute
<1> QED BY <1>1, <1>4, <1>5, <1>6, <1>7 DEF StepsOn, CasesStep

\* The answer of a request that was cancelled.
LEMMA CancelledOn ==
  ASSUME CasesInv(screen, activeCaseId), NEW g \in screen.gets, ~Live(g),
         Become([screen EXCEPT !.gets = screen.gets \ {g}])
  PROVE  StepsOn
<1> DEFINE s == [screen EXCEPT !.gets = screen.gets \ {g}]
<1>1. screen' = s /\ activeCaseId' = activeCaseId /\ g.case # activeCaseId
  BY DEF Become, Live
<1>2. /\ s = [field \in CasesFields |-> s[field]] /\ s.gets = screen.gets \ {g}
      /\ s.interval = screen.interval /\ s.activeWorkflow = screen.activeWorkflow
      /\ s.refreshes = screen.refreshes /\ s.caseDetail = screen.caseDetail
      /\ s.detailError = screen.detailError
  BY DEF CasesInv, CasesFields
<1> HIDE DEF s
<1>3. CasesInv(s, activeCaseId)
  BY <1>2 DEF CasesInv
<1>4. Polled(screen) => Polled(s)
  BY <1>2 DEF Polled
<1>5. DetailOf(activeCaseId).case = activeCaseId
  BY DEF DetailOf
<1>6. Agree(screen, activeCaseId) => Agree(s, activeCaseId)
  BY <1>1, <1>2, <1>5 DEF Agree
<1>7. Mute(s, activeCaseId) => Mute(screen, activeCaseId)
  BY <1>1, <1>2 DEF Mute
<1> QED BY <1>1, <1>3, <1>4, <1>6, <1>7 DEF StepsOn, CasesStep

LEMMA DetailOn ==
  ASSUME CasesInv(screen, activeCaseId), NEW g \in screen.gets, DetailAnswer(g)
  PROVE  StepsOn
<1> DEFINE s == [screen EXCEPT !.gets = screen.gets \ {g}]
           n == screen.latest[g.case].n
           failed == [s EXCEPT !.caseDetail = NoCase, !.detailError = TRUE]
           found == [s EXCEPT !.caseDetail = g.case]
           asked == [s EXCEPT !.caseDetail = g.case,
                              !.gets = s.gets \cup {[case |-> g.case, n |-> n]}]
<1>1. g.n = 0 /\ g = DetailOf(g.case) /\ DetailOf(g.case).case = g.case
  BY DEF DetailAnswer, CasesInv, DetailOf
<1>2. /\ s = [field \in CasesFields |-> s[field]] /\ s.gets = screen.gets \ {g}
      /\ s.interval = screen.interval /\ s.activeWorkflow = screen.activeWorkflow
      /\ s.refreshes = screen.refreshes /\ s.caseDetail = screen.caseDetail
      /\ s.detailError = screen.detailError
  BY DEF CasesInv, CasesFields
<1> HIDE DEF s
<1>3. CASE ~Live(g) /\ Become(s)
  BY <1>3, CancelledOn DEF s
<1>4. CASE Live(g) /\ n = 0 /\ Become(WithWorkflow(found, NoRun, activeCaseId))
  <2>1. /\ found = [field \in CasesFields |-> found[field]] /\ found.gets = s.gets
        /\ found.interval = screen.interval /\ found.activeWorkflow = screen.activeWorkflow
        /\ found.refreshes = screen.refreshes /\ found.caseDetail = activeCaseId
    BY <1>2, <1>4 DEF CasesFields, Live
  <2> HIDE DEF found
  <2>2. found.gets \subseteq screen.gets /\ NoCase \notin found.refreshes
    BY <1>2, <2>1 DEF CasesInv
  <2>4. ~Mute(found, activeCaseId)
    BY <2>1 DEF Mute
  <2>5. NoRun.case = NoCase
    BY DEF NoRun
  <2> QED BY <1>4, <2>1, <2>2, <2>4, <2>5, WorkflowOn
<1>5. CASE Live(g) /\ n # 0 /\ Become(asked)
  <2>1. screen' = asked /\ activeCaseId' = activeCaseId /\ g.case = activeCaseId
    BY <1>5 DEF Become, Live
  <2> DEFINE h == [case |-> g.case, n |-> n]
  <2>2. h.case = activeCaseId /\ h.n # 0 /\ h = [case |-> h.case, n |-> h.n]
    BY <1>5, <2>1
  <2>3. /\ asked = [field \in CasesFields |-> asked[field]] /\ asked.gets = s.gets \cup {h}
        /\ asked.interval = screen.interval /\ asked.activeWorkflow = screen.activeWorkflow
        /\ asked.refreshes = screen.refreshes /\ asked.caseDetail = activeCaseId
    BY <1>2, <2>1 DEF CasesFields
  <2> HIDE DEF asked, h, n
  <2>4. DetailOf(activeCaseId) \notin asked.gets
    BY <1>1, <1>2, <2>1, <2>2, <2>3 DEF DetailOf
  <2>5. CasesInv(asked, activeCaseId)
    BY <1>2, <2>2, <2>3, <2>4 DEF CasesInv
  <2>6. Polled(screen) => Polled(asked)
    BY <2>3 DEF Polled
  <2>7. Agree(asked, activeCaseId) /\ ~Mute(asked, activeCaseId)
    BY <2>2, <2>3 DEF Agree, Mute
  <2> QED BY <2>1, <2>5, <2>6, <2>7 DEF StepsOn, CasesStep
<1>6. CASE Live(g) /\ Become(failed)
  <2>1. screen' = failed /\ activeCaseId' = activeCaseId /\ g.case = activeCaseId
    BY <1>6 DEF Become, Live
  <2>2. /\ failed = [field \in CasesFields |-> failed[field]] /\ failed.gets = screen.gets \ {g}
        /\ failed.interval = screen.interval /\ failed.activeWorkflow = screen.activeWorkflow
        /\ failed.refreshes = screen.refreshes /\ failed.caseDetail = NoCase
        /\ failed.detailError = TRUE
    BY <1>2 DEF CasesFields
  <2> HIDE DEF failed
  <2>3. CasesInv(failed, activeCaseId)
    BY <1>1, <2>1, <2>2 DEF CasesInv
  <2>4. Polled(screen) => Polled(failed)
    BY <2>2 DEF Polled
  <2>5. Stranger(screen, failed, activeCaseId)
    BY <1>1, <2>1, <2>2 DEF Stranger
  <2>6. ~Mute(failed, activeCaseId)
    BY <2>2 DEF Mute
  <2> QED BY <2>1, <2>3, <2>4, <2>5, <2>6 DEF StepsOn, CasesStep
<1> QED BY <1>3, <1>4, <1>5, <1>6 DEF DetailAnswer, s

LEMMA RunOn ==
  ASSUME CasesInv(screen, activeCaseId), NEW g \in screen.gets, RunAnswer(g)
  PROVE  StepsOn
<1> DEFINE s == [screen EXCEPT !.gets = screen.gets \ {g}]
           failed == [s EXCEPT !.detailError = TRUE]
           r == Served(g.case, g.n)
<1>1. g.n # 0 /\ DetailOf(activeCaseId).n = 0 /\ r.case = g.case /\ NoRun.case = NoCase
  BY DEF RunAnswer, DetailOf, Served, NoRun
<1>2. /\ s = [field \in CasesFields |-> s[field]] /\ s.gets = screen.gets \ {g}
      /\ s.interval = screen.interval /\ s.activeWorkflow = screen.activeWorkflow
      /\ s.refreshes = screen.refreshes /\ s.caseDetail = screen.caseDetail
      /\ s.detailError = screen.detailError
  BY DEF CasesInv, CasesFields
<1>3. CASE ~Live(g) /\ Become(s)
  BY <1>3, CancelledOn
<1> HIDE DEF s, r
<1>4. /\ failed = [field \in CasesFields |-> failed[field]] /\ failed.gets = s.gets
      /\ failed.interval = screen.interval /\ failed.activeWorkflow = screen.activeWorkflow
      /\ failed.refreshes = screen.refreshes /\ failed.caseDetail = screen.caseDetail
      /\ failed.detailError = TRUE
  BY <1>2 DEF CasesFields
<1> HIDE DEF failed
<1>5. s.gets \subseteq screen.gets /\ NoCase \notin s.refreshes
  BY <1>2 DEF CasesInv
<1>6. CASE Live(g) /\ Become(WithWorkflow(s, r, activeCaseId))
  <2>1. r.case = activeCaseId /\ g.case = activeCaseId
    BY <1>1, <1>6 DEF Live
  <2>2. activeCaseId # NoCase => screen.caseDetail # NoCase
    BY <1>1, <2>1 DEF CasesInv
  <2>3. ~Mute(s, activeCaseId)
    BY <1>2, <2>2 DEF Mute
  <2>4. Agree(screen, activeCaseId) /\ activeCaseId # NoCase =>
          DetailOf(activeCaseId) \in s.gets \/ s.caseDetail \in {NoCase, activeCaseId}
    BY <1>1, <1>2 DEF Agree
  <2> QED BY <1>2, <1>5, <1>6, <2>1, <2>3, <2>4, WorkflowOn
<1>7. CASE Become(WithWorkflow(failed, NoRun, activeCaseId))
  <2>1. ~Mute(failed, activeCaseId)
    BY <1>4 DEF Mute
  <2>2. Agree(screen, activeCaseId) /\ activeCaseId # NoCase =>
          DetailOf(activeCaseId) \in failed.gets \/ failed.caseDetail \in {NoCase, activeCaseId}
    BY <1>1, <1>2, <1>4 DEF Agree
  <2>3. failed.gets \subseteq screen.gets /\ NoCase \notin failed.refreshes
    BY <1>2, <1>4, <1>5
  <2> QED BY <1>1, <1>4, <1>7, <2>1, <2>2, <2>3, WorkflowOn
<1> QED BY <1>3, <1>6, <1>7 DEF RunAnswer, s, failed, r

LEMMA PollOn ==
  ASSUME CasesInv(screen, activeCaseId), PollAnswer
  PROVE  StepsOn
<1> DEFINE p == screen.interval
           r == Served(p.case, p.n)
           asking == [screen EXCEPT !.refreshes = screen.refreshes \cup ({p.from} \ {NoCase})]
           stopped == [screen EXCEPT !.interval = NoPoll]
<1>1. p # NoPoll /\ r.case = p.case /\ r.case = screen.activeWorkflow.case
  <2>1. p # NoPoll
    BY DEF PollAnswer
  <2>2. r.case = p.case
    BY DEF Served
  <2> QED BY <2>1, <2>2 DEF CasesInv
<1>2. screen = [field \in CasesFields |-> screen[field]] /\ NoCase \notin screen.refreshes
  BY DEF CasesInv
<1>3. /\ asking = [field \in CasesFields |-> asking[field]] /\ asking.gets = screen.gets
      /\ asking.interval = screen.interval /\ asking.activeWorkflow = screen.activeWorkflow
      /\ NoCase \notin asking.refreshes /\ asking.caseDetail = screen.caseDetail
      /\ asking.detailError = screen.detailError
  BY <1>2 DEF CasesFields
<1>4. [WithWorkflow(screen, r, activeCaseId)
         EXCEPT !.refreshes = screen.refreshes \cup ({p.from} \ {NoCase})]
        = WithWorkflow(asking, r, activeCaseId)
  BY <1>2 DEF WithWorkflow, CasesFields
<1>5. WithWorkflow(screen, r, activeCaseId).refreshes = screen.refreshes
  BY <1>2 DEF WithWorkflow, CasesFields
<1>6. \/ Become(WithWorkflow(screen, r, activeCaseId))
      \/ Become(WithWorkflow(asking, r, activeCaseId))
      \/ Become(stopped)
  BY <1>4, <1>5 DEF PollAnswer
<1> HIDE DEF asking, r
<1>7. CASE Become(WithWorkflow(screen, r, activeCaseId))
  BY <1>1, <1>2, <1>7, WorkflowOn DEF Agree
<1>8. CASE Become(WithWorkflow(asking, r, activeCaseId))
  <2>1. Mute(asking, activeCaseId) => Mute(screen, activeCaseId)
    BY <1>3 DEF Mute
  <2>2. Agree(screen, activeCaseId) /\ activeCaseId # NoCase =>
          /\ DetailOf(activeCaseId) \in asking.gets \/ asking.caseDetail \in {NoCase, activeCaseId}
          /\ (\E g \in asking.gets : g.case = activeCaseId) \/ r.case \in {NoCase, activeCaseId}
    BY <1>1, <1>3 DEF Agree
  <2> QED BY <1>3, <1>8, <2>1, <2>2, WorkflowOn
<1>9. CASE Become(stopped)
  <2>1. screen' = stopped /\ activeCaseId' = activeCaseId
    BY <1>9 DEF Become
  <2>2. /\ stopped = [field \in CasesFields |-> stopped[field]] /\ stopped.gets = screen.gets
        /\ stopped.interval = NoPoll /\ stopped.activeWorkflow = screen.activeWorkflow
        /\ stopped.refreshes = screen.refreshes /\ stopped.caseDetail = screen.caseDetail
        /\ stopped.detailError = screen.detailError
    BY <1>2 DEF CasesFields
  <2>3. stopped = [screen EXCEPT !.interval = NoPoll]
    OBVIOUS
  <2> HIDE DEF stopped
  <2>4. CasesInv(stopped, activeCaseId)
    BY <2>2 DEF CasesInv
  <2>5. Agree(screen, activeCaseId) => Agree(stopped, activeCaseId)
    BY <2>2 DEF Agree
  <2>6. Mute(stopped, activeCaseId) => Mute(screen, activeCaseId)
    BY <2>2 DEF Mute
  <2> QED BY <2>1, <2>3, <2>4, <2>5, <2>6 DEF StepsOn, CasesStep
<1> QED BY <1>6, <1>7, <1>8, <1>9

\* A case that is shown because a refresh or an upload asked for it.
LEMMA ShownOn ==
  ASSUME CasesInv(screen, activeCaseId), NEW t, t = [field \in CasesFields |-> t[field]],
         Become(t), NEW c, c # NoCase, t.caseDetail = c, t.gets = screen.gets,
         t.interval = screen.interval, t.activeWorkflow = screen.activeWorkflow,
         NoCase \notin t.refreshes, c = activeCaseId \/ Stranger(screen, t, activeCaseId)
  PROVE  StepsOn
<1>1. screen' = t /\ activeCaseId' = activeCaseId
  BY DEF Become
<1>2. CasesInv(t, activeCaseId)
  BY DEF CasesInv
<1>3. Polled(screen) => Polled(t)
  BY DEF Polled
<1>4. Agree(screen, activeCaseId) /\ c = activeCaseId => Agree(t, activeCaseId)
  BY DEF Agree
<1>5. ~Mute(t, activeCaseId)
  BY DEF Mute
<1> QED BY <1>1, <1>2, <1>3, <1>4, <1>5 DEF StepsOn, CasesStep

LEMMA RefreshOn ==
  ASSUME CasesInv(screen, activeCaseId), NEW c \in screen.refreshes, RefreshAnswer(c)
  PROVE  StepsOn
<1> DEFINE s == [screen EXCEPT !.refreshes = screen.refreshes \ {c}]
           found == [s EXCEPT !.caseDetail = c]
           failed == [s EXCEPT !.detailError = TRUE]
<1>1. c # NoCase /\ NoCase \notin screen.refreshes /\ s.refreshes = screen.refreshes \ {c}
  BY DEF CasesInv, CasesFields
<1>2. CASE Become(found)
  <2>1. /\ found = [field \in CasesFields |-> found[field]] /\ found.gets = screen.gets
        /\ found.interval = screen.interval /\ found.activeWorkflow = screen.activeWorkflow
        /\ found.refreshes = screen.refreshes \ {c} /\ found.caseDetail = c
    BY DEF CasesInv, CasesFields
  <2> HIDE DEF found
  <2>2. c = activeCaseId \/ Stranger(screen, found, activeCaseId)
    BY <2>1 DEF Stranger
  <2>3. NoCase \notin found.refreshes
    BY <1>1, <2>1
  <2> QED BY <1>1, <1>2, <2>1, <2>2, <2>3, ShownOn
<1>3. CASE Become(failed)
  <2>1. screen' = failed /\ activeCaseId' = activeCaseId
    BY <1>3 DEF Become
  <2>2. /\ failed = [field \in CasesFields |-> failed[field]] /\ failed.gets = screen.gets
        /\ failed.interval = screen.interval /\ failed.activeWorkflow = screen.activeWorkflow
        /\ failed.refreshes = screen.refreshes \ {c} /\ failed.caseDetail = screen.caseDetail
        /\ failed.detailError = TRUE
    BY DEF CasesInv, CasesFields
  <2> HIDE DEF failed
  <2>3. CasesInv(failed, activeCaseId)
    BY <1>1, <2>2 DEF CasesInv
  <2>4. Polled(screen) => Polled(failed)
    BY <2>2 DEF Polled
  <2>5. Agree(screen, activeCaseId) => Agree(failed, activeCaseId)
    BY <2>2 DEF Agree
  <2>6. ~Mute(failed, activeCaseId)
    BY <2>2 DEF Mute
  <2> QED BY <2>1, <2>3, <2>4, <2>5, <2>6 DEF StepsOn, CasesStep
<1> QED BY <1>2, <1>3 DEF RefreshAnswer

LEMMA UploadOn ==
  ASSUME CasesInv(screen, activeCaseId), UploadAnswer
  PROVE  StepsOn
<1> DEFINE c == screen.uploading
           s == [screen EXCEPT !.uploading = NoCase, !.uploaded = FALSE]
           shown == [s EXCEPT !.caseDetail = c]
<1>1. CASE Become([screen EXCEPT !.uploaded = TRUE]) \/ Become(s)
  <2>1. Alike(screen, [screen EXCEPT !.uploaded = TRUE]) /\ Alike(screen, s)
    BY DEF Alike, CasesInv, CasesFields
  <2> QED BY <1>1, <2>1, KeepsOn
<1>2. CASE Become(shown) /\ c # NoCase
  <2>1. /\ shown = [field \in CasesFields |-> shown[field]] /\ shown.gets = screen.gets
        /\ shown.interval = screen.interval /\ shown.activeWorkflow = screen.activeWorkflow
        /\ shown.refreshes = screen.refreshes /\ shown.caseDetail = c
        /\ shown["uploading"] = NoCase
    BY DEF CasesInv, CasesFields
  <2>2. c = screen["uploading"] /\ NoCase \notin screen.refreshes
    BY DEF CasesInv
  <2> HIDE DEF shown, c
  <2>3. c = activeCaseId \/ Stranger(screen, shown, activeCaseId)
    BY <1>2, <2>1, <2>2 DEF Stranger
  <2> QED BY <1>2, <2>1, <2>2, <2>3, ShownOn
<1> QED BY <1>1, <1>2 DEF UploadAnswer

LEMMA AnalysisOn ==
  ASSUME CasesInv(screen, activeCaseId), AnalysisAnswer
  PROVE  StepsOn
<1> DEFINE c == screen.analyzing
           s == [screen EXCEPT !.analyzing = NoCase]
           t(run) == [s EXCEPT !.latest[c] = run]
           shown(run) == [case |-> c, n |-> run.n, status |-> run.status]
<1>1. Become(s) \/ \E run : Become(WithWorkflow(t(run), shown(run), activeCaseId))
  BY Zenon DEF AnalysisAnswer
<1>2. CASE Become(s)
  <2>1. Alike(screen, s)
    BY DEF Alike, CasesInv, CasesFields
  <2> QED BY <1>2, <2>1, KeepsOn
<1>3. ASSUME NEW run, Become(WithWorkflow(t(run), shown(run), activeCaseId))
      PROVE  StepsOn
  <2> DEFINE u == t(run)
             r == shown(run)
             latest == [s.latest EXCEPT ![c] = run]
  <2>1. u = [s EXCEPT !.latest = latest] /\ r.case = c
    OBVIOUS
  <2> HIDE DEF latest
  <2>2. /\ u = [field \in CasesFields |-> u[field]] /\ u.gets = screen.gets
        /\ u.interval = screen.interval /\ u.activeWorkflow = screen.activeWorkflow
        /\ u.refreshes = screen.refreshes /\ u.caseDetail = screen.caseDetail
        /\ u.detailError = screen.detailError /\ u.analyzing = NoCase
    BY <2>1 DEF CasesInv, CasesFields
  <2>3. c = screen["analyzing"] /\ NoCase \notin screen.refreshes
    BY DEF CasesInv
  <2>4. Become(WithWorkflow(u, r, activeCaseId))
    BY <1>3
  <2> HIDE DEF t, u, c, s, r, shown
  <2>5. screen'["analyzing"] = NoCase
    <3>1. /\ "analyzing" \in CasesFields \ {"activeWorkflow", "interval"}
          /\ u.interval = NoPoll \/ u.interval.case = u.activeWorkflow.case
      BY <2>2 DEF CasesInv, CasesFields
    <3>2. WithWorkflow(u, r, activeCaseId).analyzing = u.analyzing
      BY <2>2, <3>1, WorkflowSet
    <3> QED BY <2>2, <2>4, <3>2 DEF Become
  <2>6. ~Stranger(screen, screen', activeCaseId) => c \in {NoCase, activeCaseId}
    BY <2>3, <2>5 DEF Stranger
  <2>7. Agree(screen, activeCaseId) /\ activeCaseId # NoCase =>
          DetailOf(activeCaseId) \in u.gets \/ u.caseDetail \in {NoCase, activeCaseId}
    BY <2>2 DEF Agree
  <2>8. Mute(u, activeCaseId) => Mute(screen, activeCaseId)
    BY <2>2 DEF Mute
  <2> QED BY <2>1, <2>2, <2>3, <2>4, <2>6, <2>7, <2>8, WorkflowOn
<1> HIDE DEF c, s, t, shown
<1> QED BY <1>1, <1>2, <1>3

\* What the user does, and a run that goes on.
LEMMA UserOn ==
  ASSUME CasesInv(screen, activeCaseId),
         \/ \E c \in Cases : RunGoesOn(c)
         \/ handleCreateCase \/ handleUploadPack \/ handleRunAnalysis
         \/ ConfirmDelete \/ handleDeleteCase
  PROVE  StepsOn
<1>1. screen = [field \in CasesFields |-> screen[field]]
  BY DEF CasesInv
<1>2. CASE \E c \in Cases : RunGoesOn(c)
  <2>1. PICK c, status : Become([screen EXCEPT !.latest[c].status = status])
    BY <1>2 DEF RunGoesOn
  <2>2. [screen EXCEPT !.latest[c].status = status]
          = [screen EXCEPT !.latest = [screen.latest EXCEPT ![c].status = status]]
    OBVIOUS
  <2>3. \A latest : Alike(screen, [screen EXCEPT !.latest = latest])
    BY <1>1 DEF Alike, CasesFields
  <2> QED BY <2>1, <2>2, <2>3, KeepsOn
<1>3. CASE handleCreateCase
  <2>1. Alike(screen, [screen EXCEPT !.creating = TRUE])
    BY <1>1 DEF Alike, CasesFields
  <2> QED BY <1>3, <2>1, KeepsOn DEF handleCreateCase
<1>4. CASE handleUploadPack
  <2>1. Alike(screen, [screen EXCEPT !.uploading = screen.caseDetail, !.uploaded = FALSE])
    BY <1>1 DEF Alike, CasesFields
  <2> QED BY <1>4, <2>1, KeepsOn DEF handleUploadPack
<1>5. CASE handleRunAnalysis
  <2>1. Alike(screen, [screen EXCEPT !.analyzing = screen.caseDetail])
    BY <1>1 DEF Alike, CasesFields
  <2> QED BY <1>5, <2>1, KeepsOn DEF handleRunAnalysis
<1>6. CASE ConfirmDelete
  <2>1. \A b : Alike(screen, [screen EXCEPT !.deleteConfirm = b])
    BY <1>1 DEF Alike, CasesFields
  <2> QED BY <1>6, <2>1, KeepsOn DEF ConfirmDelete
<1>7. CASE handleDeleteCase
  <2>1. \A d : Alike(screen, [screen EXCEPT !.deleting = d])
    BY <1>1 DEF Alike, CasesFields
  <2> QED BY <1>7, <2>1, KeepsOn DEF handleDeleteCase
<1> QED BY <1>2, <1>3, <1>4, <1>5, <1>6, <1>7

LEMMA DismissOn ==
  ASSUME CasesInv(screen, activeCaseId), DismissErrors
  PROVE  StepsOn
<1> DEFINE t == [screen EXCEPT !.detailError = FALSE]
<1>1. screen' = t /\ activeCaseId' = activeCaseId /\ screen.detailError
  BY DEF DismissErrors, Become
<1>2. /\ t = [field \in CasesFields |-> t[field]] /\ t.gets = screen.gets
      /\ t.interval = screen.interval /\ t.activeWorkflow = screen.activeWorkflow
      /\ t.refreshes = screen.refreshes /\ t.caseDetail = screen.caseDetail
  BY DEF CasesInv, CasesFields
<1> HIDE DEF t
<1>3. CasesInv(t, activeCaseId)
  BY <1>2 DEF CasesInv
<1>4. Polled(screen) => Polled(t)
  BY <1>2 DEF Polled
<1>5. Agree(screen, activeCaseId) => Agree(t, activeCaseId)
  BY <1>2 DEF Agree
<1> QED BY <1>1, <1>3, <1>4, <1>5 DEF StepsOn, CasesStep

\* A case is selected by the user, or by the answer of a creation or a deletion.
LEMMA SelectionOn ==
  ASSUME CasesInv(screen, activeCaseId), (\E c \in Cases : OpenCase(c)) \/ BackToCases
  PROVE  StepsOn
<1>1. Alike(screen, screen)
  BY DEF Alike, CasesInv
<1> QED BY <1>1, SelectsOn DEF OpenCase, BackToCases, BecomeWithCase

LEMMA CreateOn ==
  ASSUME CasesInv(screen, activeCaseId), CreateAnswer
  PROVE  StepsOn
<1> DEFINE s == [screen EXCEPT !.creating = FALSE]
           t(c) == [s EXCEPT !.exists = @ \cup {c}, !.latest[c] = Unanalyzed]
<1>1. Alike(screen, s)
  BY DEF Alike, CasesInv, CasesFields
<1>2. ASSUME NEW c PROVE Alike(screen, t(c))
  <2> DEFINE latest == [s.latest EXCEPT ![c] = Unanalyzed]
  <2>1. t(c) = [s EXCEPT !.exists = @ \cup {c}, !.latest = latest]
    BY DEF CasesInv, CasesFields
  <2> HIDE DEF latest
  <2> QED BY <2>1 DEF Alike, CasesInv, CasesFields
<1>3. Become(s) \/ \E c \in Cases : BecomeWithCase(CasesSelect(t(c), c), c)
  BY Zenon DEF CreateAnswer
<1> HIDE DEF s, t
<1> QED BY <1>1, <1>2, <1>3, KeepsOn, SelectsOn DEF BecomeWithCase

LEMMA DeleteOn ==
  ASSUME CasesInv(screen, activeCaseId), NEW c, DeleteAnswer(c)
  PROVE  StepsOn
<1> DEFINE s == [screen EXCEPT !.deleting = @ \ {c}]
           t == [s EXCEPT !.exists = @ \ {c}]
<1>1. Alike(screen, s) /\ Alike(screen, t)
  BY DEF Alike, CasesInv, CasesFields
<1>2. Become(s) \/ BecomeWithCase(CasesSelect(t, NoCase), NoCase)
  BY Zenon DEF DeleteAnswer
<1> HIDE DEF s, t
<1> QED BY <1>1, <1>2, KeepsOn, SelectsOn DEF BecomeWithCase

LEMMA CasesOn ==
  ASSUME CasesInv(screen, activeCaseId), CasesNext
  PROVE  StepsOn
BY DetailOn, RunOn, PollOn, RefreshOn, UploadOn, AnalysisOn, UserOn, DismissOn,
   SelectionOn, CreateOn, DeleteOn
   DEF CasesNext

LEMMA MountedCases ==
  ASSUME NEW server, NEW c
  PROVE  /\ CasesInv(CasesMounted(server, c), c) /\ Polled(CasesMounted(server, c))
         /\ Agree(CasesMounted(server, c), c) /\ ~Mute(CasesMounted(server, c), c)
<1> DEFINE s == CasesOpened(server)
<1>1. /\ s = [field \in CasesFields |-> s[field]] /\ s.gets = {} /\ s.interval = NoPoll
      /\ s.refreshes = {} /\ s.activeWorkflow = NoRun /\ s.caseDetail = NoCase
  BY DEF CasesOpened, CasesFields
<1> HIDE DEF s
<1>2. NoRun.status \notin ActiveStatuses /\ NoRun.case = NoCase
  BY DEF NoRun, ActiveStatuses
<1>3. DetailOf(c).case = c /\ DetailOf(c).n = 0 /\ DetailOf(c) = [case |-> c, n |-> 0]
  BY DEF DetailOf
<1>4. CASE c = NoCase
  <2>1. CasesMounted(server, c) = s
    BY <1>4 DEF CasesMounted, s
  <2> QED BY <1>1, <1>2, <1>4, <2>1 DEF CasesInv, Polled, Agree, Mute
<1>5. CASE c # NoCase
  <2> DEFINE t == [s EXCEPT !.gets = {DetailOf(c)}]
  <2>1. CasesMounted(server, c) = t
    BY <1>3, <1>5 DEF CasesMounted, s
  <2>2. /\ t = [field \in CasesFields |-> t[field]] /\ t.gets = {DetailOf(c)}
        /\ t.interval = NoPoll /\ t.refreshes = {} /\ t.activeWorkflow = NoRun
        /\ t.caseDetail = NoCase
    BY <1>1 DEF CasesFields
  <2> HIDE DEF t
  <2>3. CasesInv(t, c)
    BY <1>3, <2>2 DEF CasesInv
  <2>4. Polled(t) /\ Agree(t, c) /\ ~Mute(t, c)
    BY <1>2, <1>3, <2>2 DEF Polled, Agree, Mute
  <2> QED BY <2>1, <2>3, <2>4
<1> QED BY <1>4, <1>5

------------------------------------------------------------------------------
(***************************************************************************)
(* The inductive invariant: the case that is active is one, and the chat   *)
(* and the other two screens are as above while they are mounted.          *)
(***************************************************************************)
ClientInv ==
  /\ activeCaseId \in Scopes
  /\ currentTab = "ask" => ChatInv(screen)
  /\ currentTab = "audit_trail" => TrailInv(screen)
  /\ currentTab = "reviews" => ViewerInv(screen) /\ ListsInv(screen)
  /\ currentTab = "cases" => CasesInv(screen, activeCaseId)

LEMMA InitClientInv == Init => ClientInv
  BY DEF Init, ClientInv, Scopes

LEMMA AskKeepsInv ==
  ASSUME activeCaseId \in Scopes, ChatInv(screen), AskNext
  PROVE  activeCaseId' \in Scopes /\ ChatInv(screen')
<1>1. activeCaseId' \in Scopes
  BY DEF AskNext, QueryAnswer, PreviewAnswer, CloseSplitViewer, SwapPanes, SelectInPane,
         DocumentAnswer, handleSendMessage, ClearConversation, SearchAllCases, SelectScope,
         openCitationInInspector, openDocInInspector, ToggleInspector, OpenSplitViewer,
         Become, BecomeWithCase
<1> QED
  BY <1>1, SendKeepsInv, AnswerKeepsInv, ClearKeepsInv, InspectorKeepsInv, ViewerKeepsInv
     DEF AskNext

\* A step of the shell that leads to the case screen.
LEMMA ShellOn ==
  ASSUME activeCaseId \in Scopes, currentTab = "cases" => CasesInv(screen, activeCaseId),
         ShellNext, currentTab' = "cases"
  PROVE  \/ currentTab = "cases" /\ StepsOn
         \/ /\ CasesInv(screen', activeCaseId') /\ Polled(screen')
            /\ Agree(screen', activeCaseId') /\ ~Mute(screen', activeCaseId')
<1>1. CASE \E server \in CaseServers : screen' = CasesMounted(server, activeCaseId')
  BY <1>1, MountedCases
<1>2. CASE /\ currentTab = "cases"
           /\ \/ screen' = CasesSelect(screen, activeCaseId')
              \/ \E e : screen' = CasesSelect([screen EXCEPT !.exists = e], activeCaseId')
  <2>1. /\ Alike(screen, screen)
        /\ \A e : Alike(screen, [screen EXCEPT !.exists = e])
    BY <1>2 DEF Alike, CasesInv, CasesFields
  <2> QED BY <1>2, <2>1, SelectsOn
<1> QED BY <1>1, <1>2, ShellStep DEF ShellShows

\* A step of the shell that leads to the review screen.
LEMMA ShellLists ==
  ASSUME activeCaseId \in Scopes, ShellNext, currentTab' = "reviews",
         currentTab = "reviews" => ViewerInv(screen) /\ ListsInv(screen)
  PROVE  /\ ListsInv(screen')
         /\ \/ screen'.lists # {}
            \/ /\ currentTab = "reviews"
               /\ RowsStep(screen, activeCaseId, screen', activeCaseId')
<1>1. CASE \E server \in InitialStatuses : screen' = ReviewsMounted(server, activeCaseId')
  BY <1>1, MountedLists
<1>2. CASE currentTab = "reviews" /\ screen' = Refiltered(screen, activeCaseId')
  BY <1>2, RefilteredLists
<1>3. CASE currentTab = "reviews" /\ UNCHANGED <<screen, activeCaseId>>
  BY <1>3 DEF RowsStep, KeepsRows
<1> QED BY <1>1, <1>2, <1>3, ShellStep DEF ShellShows

LEMMA NextClientInv == ClientInv /\ [Next]_vars => ClientInv'
<1> SUFFICES ASSUME ClientInv, [Next]_vars PROVE ClientInv'
  OBVIOUS
<1>1. CASE AskNext
  BY <1>1, AskKeepsInv DEF ClientInv, AskNext
<1>2. CASE CasesNext
  <2>1. CasesInv(screen', activeCaseId')
    BY <1>2, CasesOn DEF ClientInv, CasesNext, StepsOn, CasesStep
  <2> QED BY <1>2, <2>1, CasesKeepScope DEF ClientInv
<1>3. CASE ReviewsNext
  BY <1>3, ReviewsKeepScope, ReviewsKeepInv, ReviewsKeepLists DEF ClientInv, ReviewsNext
<1>4. CASE AuditTrailNext
  BY <1>4, AuditTrailKeepsScope, AuditTrailKeepsInv DEF ClientInv, AuditTrailNext
<1>5. CASE ShellNext
  <2>1. activeCaseId' \in Scopes /\ ShellShows
    BY <1>5, ShellStep DEF ClientInv
  <2>2. currentTab' = "ask" => ChatInv(screen')
    BY <2>1, AskOpenedInv DEF ClientInv, ShellShows
  <2>3. currentTab' = "audit_trail" => TrailInv(screen')
    BY <2>1, MountedTrail, SelectedTrail DEF ClientInv, ShellShows
  <2>4. currentTab' = "reviews" => ViewerInv(screen') /\ ListsInv(screen')
    <3>1. currentTab' = "reviews" => ViewerInv(screen')
      BY <2>1, MountedReviews, RefilteredReviews DEF ClientInv, ShellShows
    <3>2. currentTab' = "reviews" => ListsInv(screen')
      BY <1>5, ShellLists DEF ClientInv
    <3> QED BY <3>1, <3>2
  <2>5. currentTab' = "cases" => CasesInv(screen', activeCaseId')
    BY <1>5, ShellOn DEF ClientInv, StepsOn, CasesStep
  <2> QED BY <2>1, <2>2, <2>3, <2>4, <2>5 DEF ClientInv
<1>6. CASE UNCHANGED vars
  BY <1>6 DEF ClientInv, vars
<1> QED BY <1>1, <1>2, <1>3, <1>4, <1>5, <1>6 DEF Next

LEMMA ClientInvHolds == Spec => []ClientInv
  BY InitClientInv, NextClientInv, PTL DEF Spec

(***************************************************************************)
(* Answers follow their questions (AskView.tsx:245-325), for every number  *)
(* of cases, screens, messages and requests in flight.                     *)
(***************************************************************************)
THEOREM AnswersInOrder == Spec => []AnswersFollowQuestions
<1>1. ClientInv => AnswersFollowQuestions
  BY DEF ClientInv, ChatInv, Conversation, Alternates, AnswersFollowQuestions
<1> QED BY <1>1, ClientInvHolds, PTL

(***************************************************************************)
(* A pane that does not load shows its selection or an error               *)
(* (DocumentSplitViewer.tsx:135-180), for every number of documents and    *)
(* loads in flight.                                                        *)
(***************************************************************************)
THEOREM PanesShowSelection == Spec => []PaneShowsSelection
<1>1. ClientInv => PaneShowsSelection
  BY DEF ClientInv, ChatInv, PaneInv, PaneShowsSelection, SplitViewerOpen
<1> QED BY <1>1, ClientInvHolds, PTL

(***************************************************************************)
(* The banner of the audit trail claims nothing of the hash chain that the *)
(* answer on display did not say (AuditTrailView.tsx:85-108), for every    *)
(* number of cases, filters and fetches in flight.                         *)
(***************************************************************************)
THEOREM NoClaims == Spec => []NoClaimWithoutAnswer
<1>1. ClientInv => NoClaimWithoutAnswer
  BY DEF ClientInv, TrailInv, NoClaimWithoutAnswer, ChainBanner, AuditTrailScreens
<1> QED BY <1>1, ClientInvHolds, PTL

(***************************************************************************)
(* The viewer of the review screen has a finding with the documents of its *)
(* own case (ReviewsView.tsx:100-117), for every number of findings, cases *)
(* and documents on their way.                                             *)
(***************************************************************************)
THEOREM ViewerAgrees == Spec => []ViewerOfOneCase
<1>1. ClientInv => ViewerOfOneCase
  BY DEF ClientInv, ViewerInv, OfItsCase, ViewerOfOneCase, ViewerOpen
<1> QED BY <1>1, ClientInvHolds, PTL

(***************************************************************************)
(* An export that meets no error has everything that matches its query,    *)
(* once and in order, when nothing came or left that it matches while      *)
(* findings were decided, found and deleted with their cases               *)
(* (ReviewsView.tsx:270-292), for every number of findings and every size  *)
(* of a page.                                                              *)
(***************************************************************************)
THEOREM ExportsAreWhole == Spec => []ExportIsWhole
<1>1. ClientInv => ExportIsWhole
  <2> SUFFICES ASSUME ListsInv(screen), screen.export.state = "whole",
                      ~screen.export.came, ~screen.export.left
               PROVE  screen.export.got = Matching(screen.export.query, screen.server)
    BY DEF ClientInv, ExportIsWhole
  <2>1. screen.export # NoExport
    BY DEF NoExport
  <2> QED BY <2>1 DEF ListsInv, Fetches
<1> QED BY <1>1, ClientInvHolds, PTL

(***************************************************************************)
(* What an export does to a list that moves under it: it repeats findings  *)
(* only when one came, and passes over findings that were there only when  *)
(* one left (ReviewsView.tsx:278-286), however many come and leave and     *)
(* whatever the size of a page.                                            *)
(***************************************************************************)
THEOREM ExportsOnlyDrift == Spec => []ExportsDrift
<1>1. ClientInv => ExportsDrift
  <2> SUFFICES ASSUME ListsInv(screen), screen.export.state \in {"paging", "whole"}
               PROVE  /\ ~screen.export.came => IsInjective(screen.export.got)
                      /\ ~screen.export.left /\ screen.export.state = "whole" =>
                           screen.export.began \subseteq Range(screen.export.got)
    BY DEF ClientInv, ExportsDrift
  <2>1. screen.export # NoExport
    BY DEF NoExport
  <2> QED BY <2>1 DEF ListsInv, Fetches
<1> QED BY <1>1, ClientInvHolds, PTL

(***************************************************************************)
(* Rows of another filter than the one on display stay only after an       *)
(* answer that was asked with another one (ReviewsView.tsx:159-162): no    *)
(* change of the case, a filter or the page forgets to ask again, for      *)
(* every number of findings, filters and lists in flight.                  *)
(***************************************************************************)
THEOREM LateLists == Spec => LateListsOnly
<1> DEFINE Fitting(s, c) == \A i \in DOMAIN s.rows :
                              Matches(Query(s, c), s.rows[i].finding, s.rows[i].status)
           Rest(s) == ~s.loading /\ ~s.loadError /\ s.rows # <<>> /\ s.lists = {}
           A == RowsFiltered /\ ~RowsFiltered' =>
                  \E q \in screen.lists \ screen'.lists : q # Query(screen, activeCaseId)
<1>1. RowsFiltered <=> (currentTab = "reviews" /\ Rest(screen) => Fitting(screen, activeCaseId))
  BY DEF RowsFiltered, RowsShown
<1>2. RowsFiltered' <=>
        (currentTab' = "reviews" /\ Rest(screen') => Fitting(screen', activeCaseId'))
  BY DEF RowsFiltered, RowsShown
<1>3. ASSUME RowsStep(screen, activeCaseId, screen', activeCaseId'), Rest(screen'),
             Rest(screen) => Fitting(screen, activeCaseId), ~Fitting(screen', activeCaseId')
      PROVE  \E q \in screen.lists \ screen'.lists : q # Query(screen, activeCaseId)
  BY <1>3 DEF RowsStep, KeepsRows
<1>4. ASSUME ClientInv, Next, currentTab' = "reviews", Rest(screen')
      PROVE  currentTab = "reviews" /\ RowsStep(screen, activeCaseId, screen', activeCaseId')
  <2>1. CASE ReviewsNext
    BY <1>4, <2>1, ReviewsKeepLists DEF ClientInv, ReviewsNext
  <2>2. CASE ShellNext
    BY <1>4, <2>2, ShellLists DEF ClientInv
  <2>3. CASE AskNext \/ CasesNext \/ AuditTrailNext
    BY <1>4, <2>3 DEF AskNext, CasesNext, AuditTrailNext
  <2> QED BY <1>4, <2>1, <2>2, <2>3 DEF Next
<1>5. ClientInv /\ Next => A
  <2> HIDE DEF Rest, Fitting
  <2> QED BY <1>1, <1>2, <1>3, <1>4
<1>6. ClientInv /\ [Next]_vars => [A]_vars
  BY <1>5
<1> QED BY <1>6, ClientInvHolds, PTL DEF Spec, LateListsOnly, A

\* A step that ends on the case screen: one of it, or a new screen.
LEMMA ClientOn ==
  ASSUME ClientInv, Next, currentTab' = "cases"
  PROVE  \/ currentTab = "cases" /\ StepsOn
         \/ Polled(screen') /\ Agree(screen', activeCaseId') /\ ~Mute(screen', activeCaseId')
<1>1. CASE CasesNext
  BY <1>1, CasesOn DEF ClientInv, CasesNext
<1>2. CASE ShellNext
  BY <1>2, ShellOn DEF ClientInv
<1>3. CASE AskNext \/ ReviewsNext \/ AuditTrailNext
  BY <1>3 DEF AskNext, ReviewsNext, AuditTrailNext
<1> QED BY <1>1, <1>2, <1>3 DEF Next

(***************************************************************************)
(* What can upset the agreement of the parts of the case screen, for every *)
(* number of cases and runs: only an answer to a refresh, an upload or an  *)
(* analysis of another case (CasesView.tsx:192, 294, 334), or a case that  *)
(* cannot be loaded (162-167), and never the load effect itself.           *)
(***************************************************************************)
THEOREM StrangersOnly == Spec => OnlyStrangersDisagree
<1> DEFINE A == PartsAgree /\ ~PartsAgree' =>
       \/ \E c \in screen.refreshes \ screen'.refreshes : c # activeCaseId
       \/ \E k \in {"uploading", "analyzing"} :
            screen[k] \notin {NoCase, activeCaseId} /\ screen'[k] = NoCase
       \/ /\ \E g \in screen.gets \ screen'.gets : Live(g) /\ g.n = 0
          /\ screen'.detailError /\ screen'.caseDetail = NoCase
<1>1. PartsAgree <=> (currentTab = "cases" => Agree(screen, activeCaseId))
  BY DEF PartsAgree, Agree, DetailOf, Live
<1>2. PartsAgree' <=> (currentTab' = "cases" => Agree(screen', activeCaseId'))
  BY DEF PartsAgree, Agree, DetailOf, Live
<1>3. Stranger(screen, screen', activeCaseId) => A
  BY DEF Stranger, Live
<1> HIDE DEF A
<1>4. ClientInv /\ Next => A
  <2> SUFFICES ASSUME ClientInv, Next, PartsAgree, ~PartsAgree' PROVE A
    BY DEF A
  <2> QED BY <1>1, <1>2, <1>3, ClientOn DEF StepsOn, CasesStep
<1>5. ClientInv /\ [Next]_vars => [A]_vars
  BY <1>4
<1> QED BY <1>5, ClientInvHolds, PTL DEF Spec, OnlyStrangersDisagree, A

(***************************************************************************)
(* A run on display that is queued or running is polled; only a poll that  *)
(* failed stops that (CasesView.tsx:176-208), whatever case is selected,   *)
(* uploaded to, analyzed or deleted meanwhile.                             *)
(***************************************************************************)
THEOREM PollsStop == Spec => PollsStopOnlyByFailure
<1> DEFINE A == RunPolled /\ ~RunPolled' => screen' = [screen EXCEPT !.interval = NoPoll]
<1>1. RunPolled <=> (currentTab = "cases" => Polled(screen))
  BY DEF RunPolled, Polled
<1>2. RunPolled' <=> (currentTab' = "cases" => Polled(screen'))
  BY DEF RunPolled, Polled
<1>3. ClientInv /\ Next => A
  BY <1>1, <1>2, ClientOn DEF StepsOn, CasesStep
<1>4. ClientInv /\ [Next]_vars => [A]_vars
  BY <1>3
<1> QED BY <1>4, ClientInvHolds, PTL DEF Spec, PollsStopOnlyByFailure

(***************************************************************************)
(* A case whose detail is neither there nor on its way has an error on     *)
(* display until the user dismisses it (CasesView.tsx:162-166).            *)
(***************************************************************************)
THEOREM SilenceIsDismissal == Spec => SilentOnlyAfterDismissal
<1> DEFINE A == ~Silent /\ Silent' => currentTab = "cases" /\ screen.detailError
<1>1. Silent <=> (currentTab = "cases" /\ Mute(screen, activeCaseId))
  BY DEF Silent, Mute, Live
<1>2. Silent' <=> (currentTab' = "cases" /\ Mute(screen', activeCaseId'))
  BY DEF Silent, Mute, Live
<1>3. ClientInv /\ Next => A
  BY <1>1, <1>2, ClientOn DEF StepsOn, CasesStep
<1>4. ClientInv /\ [Next]_vars => [A]_vars
  BY <1>3
<1> QED BY <1>4, ClientInvHolds, PTL DEF Spec, SilentOnlyAfterDismissal
===============================================================================
