------------------------------- MODULE WebClient -------------------------------
(***************************************************************************)
(* The web client: the shell with the screens it mounts.  The user goes    *)
(* from screen to screen while answers to screens that were left are still *)
(* on their way.                                                           *)
(***************************************************************************)
EXTENDS CasesView, ReviewsView, AskView, AuditTrailView

CONSTANTS InitialStatuses, \* statuses of the findings when the review screen opens
          QuietTabs        \* bound: screens that are opened with nothing pending

(***************************************************************************)
(* The home page and the evaluation dashboard have nothing to do with the  *)
(* active case.                                                            *)
(***************************************************************************)
PlainScreen == [plain |-> TRUE]

Mounted(tab, c) ==
  CASE tab = "cases"       -> {CasesMounted(server, c) : server \in CaseServers}
    [] tab = "reviews"     -> {ReviewsMounted(server, c) : server \in InitialStatuses}
    [] tab = "audit_trail" -> {AuditTrailMounted(c, first) : first \in Cases \cup {NoCase}}
    [] tab = "ask"         -> {AskOpened}
    [] OTHER               -> {PlainScreen}

(***************************************************************************)
(* What the mounted screen makes of another active case.                   *)
(***************************************************************************)
Told(s, c) ==
  CASE currentTab = "cases"       -> CasesSelect(s, c)
    [] currentTab = "reviews"     -> Refiltered(s, c)
    [] currentTab = "audit_trail" -> AuditTrailSelect(s, c)
    [] OTHER                      -> s

(***************************************************************************)
(* Requests that outlive the case screen and will still select a case.     *)
(***************************************************************************)
LeftBehind ==
  IF currentTab # "cases" THEN {}
  ELSE (IF screen.creating THEN {"create"} ELSE {})
         \cup (IF screen.deleting # {} THEN {"delete"} ELSE {})

GoTo(tab, c, remaining) ==
  /\ IF tab = currentTab
     THEN screen' = Told(screen, c) /\ pending' = remaining
     ELSE screen' \in Mounted(tab, c) /\ pending' = remaining \cup LeftBehind
  /\ tab \in QuietTabs => pending' = {}
  /\ currentTab' = tab
  /\ activeCaseId' = c

(***************************************************************************)
(* A button of the sidebar, the palette, the home page, the case screen or *)
(* the audit trail.                                                        *)
(***************************************************************************)
CasesTargets == {<<"reviews", c>> : c \in Cases \cap {screen.caseDetail}}
AuditTrailTargets == {<<"cases", c>> : c \in Cases}

Navigate ==
  \E target \in SidebarTargets \cup PaletteTargets
                  \cup (IF currentTab = "home" THEN HomeTargets ELSE {})
                  \cup (IF currentTab = "cases" /\ ShowsDetail THEN CasesTargets ELSE {})
                  \cup (IF currentTab = "audit_trail" THEN AuditTrailTargets ELSE {}) :
    /\ target # <<currentTab, activeCaseId>>
    /\ currentTab = "cases" => MayLoad
    /\ currentTab = "reviews" => MayFetch
    /\ GoTo(target[1], target[2], pending)

handleTrySampleCase ==
  /\ currentTab = "home" /\ Cardinality(pending) < MaxJobs
  /\ pending' = pending \cup {"sample"}
  /\ UNCHANGED <<currentTab, activeCaseId, screen>>

(***************************************************************************)
(* The sample case opens the case screen, wherever the user is.  A case    *)
(* that a screen left behind created is selected, and after a deletion     *)
(* none is.  A request may also fail.                                      *)
(***************************************************************************)
SampleAnswer == "sample" \in pending /\ \E c \in Cases : GoTo("cases", c, pending \ {"sample"})

LateSelection(request, s, c) ==
  /\ screen' = Told(s, c)
  /\ activeCaseId' = c
  /\ pending' = pending \ {request}
  /\ UNCHANGED currentTab

LateCreateAnswer(c) ==
  /\ "create" \in pending
  /\ LateSelection("create", IF currentTab = "cases"
                             THEN [screen EXCEPT !.exists = @ \cup {c}] ELSE screen, c)

LateDeleteAnswer(c) ==
  /\ "delete" \in pending
  /\ LateSelection("delete", IF currentTab = "cases"
                             THEN [screen EXCEPT !.exists = @ \ {c}] ELSE screen, NoCase)

LateFailure(request) ==
  /\ pending' = pending \ {request}
  /\ UNCHANGED <<currentTab, activeCaseId, screen>>

(***************************************************************************)
(* A reset of the demo data ends with a reload of the page, and a user may *)
(* reload it at any time: nothing of the client is left.                   *)
(***************************************************************************)
Reload ==
  /\ currentTab' = "home"
  /\ activeCaseId' = NoCase
  /\ screen' = PlainScreen
  /\ pending' = {}

ShellNext ==
  \/ Navigate \/ handleTrySampleCase \/ SampleAnswer
  \/ \E c \in Cases : LateCreateAnswer(c) \/ LateDeleteAnswer(c)
  \/ \E request \in pending : LateFailure(request)
  \/ Reload

------------------------------------------------------------------------------
Init ==
  /\ currentTab = "home"
  /\ activeCaseId = NoCase
  /\ screen = PlainScreen
  /\ pending = {}

Next == ShellNext \/ CasesNext \/ ReviewsNext \/ AskNext \/ AuditTrailNext

Spec == Init /\ [][Next]_vars

(***************************************************************************)
(* Type correctness: in particular the screen has the state of the tab.    *)
(***************************************************************************)
TypeOK ==
  /\ currentTab \in Tabs
  /\ activeCaseId \in Cases \cup {NoCase}
  /\ pending \subseteq {"sample", "create", "delete"}
  /\ CASE currentTab = "cases"       -> screen \in CasesScreens
       [] currentTab = "reviews"     -> screen \in ReviewsScreens
       [] currentTab = "ask"         -> screen \in AskScreens
       [] currentTab = "audit_trail" -> screen \in AuditTrailScreens
       [] OTHER                      -> screen = PlainScreen
===============================================================================
