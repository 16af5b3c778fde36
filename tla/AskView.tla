-------------------------------- MODULE AskView --------------------------------
(***************************************************************************)
(* The chat, AskView.tsx: questions about the active case or about all     *)
(* cases, answers, an inspector for the documents of the case and a split  *)
(* viewer for two of them.                                                 *)
(***************************************************************************)
EXTENDS AppShell, DocumentSplitViewer

CONSTANTS DocsOf,     \* DocsOf[c]: the documents of case c, in the order of the server
          MaxMessages \* bound: messages of a conversation when a question is asked

ASSUME DocsOfAssumption == DocsOf \in [Cases -> Seq(Documents)]

(***************************************************************************)
(* Of a message the model has who wrote it and, as its content, what was   *)
(* asked about: a case, or all of them.                                    *)
(***************************************************************************)
Scopes    == Cases \cup {NoCase}
Messages  == [role : {"user", "assistant"}, scope : Scopes]

Questions == [messages : Seq(Messages), scope : Scopes, inspectorOpen : BOOLEAN]

AskScreens ==
  [messages : Seq(Messages), loading : BOOLEAN, questions : SUBSET Questions,
   searchAllCases : BOOLEAN, inspectorOpen : BOOLEAN, selectedCitation : BOOLEAN,
   selectedDocPreview : Documents \cup {NoDocument}, docPreviewText : Documents \cup {NoDocument},
   docPreviewError : BOOLEAN, loadingDocPreview : BOOLEAN, previews : SUBSET Documents,
   viewer : [Sides -> Panes] \cup {ClosedPanes}]

AskOpened ==
  [messages |-> <<>>, loading |-> FALSE, questions |-> {}, searchAllCases |-> FALSE,
   inspectorOpen |-> FALSE, selectedCitation |-> FALSE, selectedDocPreview |-> NoDocument,
   docPreviewText |-> NoDocument, docPreviewError |-> FALSE, loadingDocPreview |-> FALSE,
   previews |-> {}, viewer |-> ClosedPanes]

(***************************************************************************)
(* handleSendMessage, up to its await.  The answer is put behind the       *)
(* messages of that moment.                                                *)
(***************************************************************************)
AskScope == IF screen.searchAllCases THEN NoCase ELSE activeCaseId

(***************************************************************************)
(* A mutant: a question can be sent while another one waits for its answer.*)
(***************************************************************************)
handleSendMessageAnytime ==
  LET newMessages == Append(screen.messages, [role |-> "user", scope |-> AskScope])
  IN  /\ Len(screen.messages) < MaxMessages
      /\ Become([screen EXCEPT !.messages = newMessages, !.loading = TRUE,
                   !.questions = @ \cup {
                   [messages |-> newMessages, scope |-> AskScope,
                    inspectorOpen |-> screen.inspectorOpen]}])

handleSendMessage ==
  LET newMessages == Append(screen.messages, [role |-> "user", scope |-> AskScope])
  IN  /\ ~screen.loading
      /\ Len(screen.messages) < MaxMessages
      /\ Become([screen EXCEPT !.messages = newMessages, !.loading = TRUE,
                   !.questions = @ \cup {
                   [messages |-> newMessages, scope |-> AskScope,
                    inspectorOpen |-> screen.inspectorOpen]}])

(***************************************************************************)
(* An answer, or the error that stands in its place.  Its first citation   *)
(* is selected when the inspector is closed; inspectorOpen is the value of *)
(* the rendering the question was sent in.                                 *)
(***************************************************************************)
QueryAnswer(q) ==
  \E cited \in BOOLEAN :
    Become([screen EXCEPT !.questions = @ \ {q}, !.loading = FALSE,
              !.messages = Append(q.messages, [role |-> "assistant", scope |-> q.scope]),
              !.selectedCitation = @ \/ (cited /\ ~q.inspectorOpen)])

ClearConversation ==
  /\ screen.messages # <<>>
  /\ Become([screen EXCEPT !.messages = <<>>, !.selectedCitation = FALSE])

SearchAllCases == ~screen.searchAllCases /\ Become([screen EXCEPT !.searchAllCases = TRUE])

SelectScope(c) ==
  /\ screen.searchAllCases \/ c # activeCaseId
  /\ BecomeWithCase([screen EXCEPT !.searchAllCases = FALSE], c)

------------------------------------------------------------------------------
(***************************************************************************)
(* The inspector: a citation of an answer, or a document of the active     *)
(* case, whose text is shown when it comes, whatever is selected by then.  *)
(***************************************************************************)
ActiveDocs == IF activeCaseId = NoCase THEN <<>> ELSE DocsOf[activeCaseId]

openCitationInInspector ==
  /\ \E i \in 1..Len(screen.messages) : screen.messages[i].role = "assistant"
  /\ Become([screen EXCEPT !.inspectorOpen = TRUE, !.selectedCitation = TRUE,
               !.selectedDocPreview = NoDocument])

openDocInInspector(i) ==
  /\ ~screen.searchAllCases
  /\ Cardinality(screen.previews) < MaxJobs
  /\ Become([screen EXCEPT !.inspectorOpen = TRUE, !.selectedCitation = FALSE,
               !.selectedDocPreview = ActiveDocs[i], !.docPreviewText = NoDocument,
               !.docPreviewError = FALSE, !.loadingDocPreview = TRUE,
               !.previews = @ \cup {ActiveDocs[i]}])

PreviewAnswer(d) ==
  LET s == [screen EXCEPT !.previews = @ \ {d}, !.loadingDocPreview = FALSE]
  IN  Become([s EXCEPT !.docPreviewText = d]) \/ Become([s EXCEPT !.docPreviewError = TRUE])

ToggleInspector == Become([screen EXCEPT !.inspectorOpen = ~@])

(***************************************************************************)
(* The split viewer, offered where the active case has two documents.      *)
(***************************************************************************)
SplitViewerOpen == screen.viewer # ClosedPanes

OpenSplitViewer ==
  /\ screen.inspectorOpen /\ Len(ActiveDocs) >= 2
  /\ screen.selectedCitation \/ screen.selectedDocPreview # NoDocument
  /\ Become([screen EXCEPT !.viewer =
               ViewerOpened(IF screen.selectedDocPreview # NoDocument
                            THEN screen.selectedDocPreview ELSE ActiveDocs[1], ActiveDocs[2])])

CloseSplitViewer == Become([screen EXCEPT !.viewer = ClosedPanes])

SelectInPane(side, d) ==
  /\ d # screen.viewer[side].sel
  /\ Cardinality(screen.viewer[side].loads) < MaxInFlight
  /\ Become([screen EXCEPT !.viewer[side] = Selected(@, d)])

SwapPanes ==
  /\ screen.viewer["left"].sel # screen.viewer["right"].sel
  /\ \A side \in Sides : Cardinality(screen.viewer[side].loads) < MaxInFlight
  /\ Become([screen EXCEPT !.viewer = handleSwap(@)])

DocumentAnswer(side, l) ==
  \E ok \in BOOLEAN : Become([screen EXCEPT !.viewer[side] = Loaded(@, l, ok)])

AskNext ==
  /\ currentTab = "ask" /\ UNCHANGED <<currentTab, pending>>
  /\ \/ \E q \in screen.questions : QueryAnswer(q)
     \/ \E d \in screen.previews : PreviewAnswer(d)
     \/ /\ SplitViewerOpen
        /\ \/ CloseSplitViewer \/ SwapPanes
           \/ \E side \in Sides, d \in Documents : SelectInPane(side, d)
           \/ \E side \in Sides : \E l \in screen.viewer[side].loads : DocumentAnswer(side, l)
     \/ /\ ~SplitViewerOpen
        /\ \/ handleSendMessage \/ ClearConversation
           \/ SearchAllCases \/ \E c \in Scopes : SelectScope(c)
           \/ openCitationInInspector
           \/ \E i \in DOMAIN ActiveDocs : openDocInInspector(i)
           \/ ToggleInspector \/ OpenSplitViewer

------------------------------------------------------------------------------
(***************************************************************************)
(* The conversation alternates, and every answer is about what its         *)
(* question was about, whatever scope was chosen and whether the           *)
(* conversation was cleared while the answer was on its way                *)
(* (AskView.tsx:245-325): one question waits at a time, and its answer     *)
(* brings the conversation it was asked in.                                *)
(***************************************************************************)
AnswersFollowQuestions ==
  currentTab = "ask" =>
    \A i \in 1..Len(screen.messages) :
      IF i % 2 = 1 THEN screen.messages[i].role = "user"
      ELSE /\ screen.messages[i].role = "assistant"
           /\ screen.messages[i].scope = screen.messages[i - 1].scope

(***************************************************************************)
(* A pane of the split viewer that is not loading shows the document it    *)
(* has selected or an error, in whatever order the answers to the          *)
(* selections before arrive (DocumentSplitViewer.tsx:135-180).             *)
(***************************************************************************)
PaneShowsSelection ==
  currentTab = "ask" /\ SplitViewerOpen => \A side \in Sides : ShowsSelection(screen.viewer[side])
===============================================================================
