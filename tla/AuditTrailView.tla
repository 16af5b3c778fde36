----------------------------- MODULE AuditTrailView -----------------------------
(***************************************************************************)
(* The audit trail on the screen, AuditTrailView.tsx: events under         *)
(* filters, what the server says of the hash chain, and the form of a      *)
(* sign-off.                                                               *)
(***************************************************************************)
EXTENDS AppShell

CONSTANTS Searches  \* what the action filter and the search field can say

ASSUME SearchesAssumption == "ALL" \in Searches

(***************************************************************************)
(* The filters; NoCase stands for all cases.                               *)
(***************************************************************************)
TrailQueries == [case : Cases \cup {NoCase}, search : Searches]
TrailQuery(s) == [case |-> s.activeCaseFilter, search |-> s.filterAction]

NoSignOff == [case |-> NoCase, query |-> [case |-> NoCase, search |-> "none"]]

(***************************************************************************)
(* entries is what the answer that is shown said of the chain, or "none".  *)
(***************************************************************************)
AuditTrailScreens ==
  [entries : {"none", "valid", "invalid"}, chainValid : BOOLEAN,
   loading : BOOLEAN, loadError : BOOLEAN, fetches : SUBSET TrailQueries,
   filterAction : Searches, activeCaseFilter : Cases \cup {NoCase},
   attestationModalOpen : BOOLEAN, attestCaseId : Cases \cup {NoCase},
   submitting : [case : Cases \cup {NoCase}, query : TrailQueries] \cup {NoSignOff}]

fetchAuditTrail(s, q) ==
  [s EXCEPT !.loading = TRUE, !.loadError = FALSE, !.fetches = @ \cup {q}]

(***************************************************************************)
(* useState with the first effects: the case of the form is the active     *)
(* one, or the first of the list.                                          *)
(***************************************************************************)
AuditTrailMounted(c, first) ==
  LET s == [entries |-> "none", chainValid |-> FALSE, loading |-> TRUE, loadError |-> FALSE,
            filterAction |-> "ALL", activeCaseFilter |-> c, fetches |-> {},
            attestationModalOpen |-> FALSE, attestCaseId |-> IF c = NoCase THEN first ELSE c,
            submitting |-> NoSignOff]
  IN  fetchAuditTrail(s, TrailQuery(s))

(***************************************************************************)
(* The effect of changed filters, and that of a changed active case: it    *)
(* becomes the filter and the case of the form, but for NoCase.            *)
(***************************************************************************)
TrailFiltered(s) ==
  IF TrailQuery(s) = TrailQuery(screen) THEN s ELSE fetchAuditTrail(s, TrailQuery(s))

AuditTrailSelect(s, c) ==
  IF c \in {NoCase, activeCaseId} THEN s
  ELSE TrailFiltered([s EXCEPT !.activeCaseFilter = c, !.attestCaseId = c])

------------------------------------------------------------------------------
MayFetchTrail ==
  Cardinality(screen.fetches) + (IF screen.submitting = NoSignOff THEN 0 ELSE 1) < MaxInFlight

FilterTrail(c, search) ==
  /\ ~screen.attestationModalOpen /\ MayFetchTrail
  /\ <<c, search>> # <<screen.activeCaseFilter, screen.filterAction>>
  /\ Become(TrailFiltered([screen EXCEPT !.activeCaseFilter = c, !.filterAction = search]))

RefreshTrail ==
  /\ ~screen.attestationModalOpen /\ MayFetchTrail
  /\ Become(fetchAuditTrail(screen, TrailQuery(screen)))

(***************************************************************************)
(* A mutant: a refresh that fails keeps what was said of the chain.        *)
(***************************************************************************)
TrailAnswerKeepsClaim(q) ==
  LET s == [screen EXCEPT !.fetches = @ \ {q}, !.loading = FALSE]
  IN  \/ Become([s EXCEPT !.entries = "valid", !.chainValid = TRUE])
      \/ Become([s EXCEPT !.entries = "none", !.loadError = TRUE])

(***************************************************************************)
(* An answer is shown whatever was asked for since, and an error that came *)
(* before it stays.                                                        *)
(***************************************************************************)
TrailAnswer(q) ==
  LET s == [screen EXCEPT !.fetches = @ \ {q}, !.loading = FALSE]
  IN  \/ \E valid \in BOOLEAN :
           Become([s EXCEPT !.entries = IF valid THEN "valid" ELSE "invalid",
                            !.chainValid = valid])
      \/ Become([s EXCEPT !.entries = "none", !.chainValid = FALSE, !.loadError = TRUE])

(***************************************************************************)
(* The form of a sign-off.  After its answer the trail is fetched with the *)
(* filters of the rendering it was sent in.                                *)
(***************************************************************************)
ToggleForm == Become([screen EXCEPT !.attestationModalOpen = ~@])

ChooseSignOffCase(c) ==
  /\ screen.attestationModalOpen /\ c # screen.attestCaseId
  /\ Become([screen EXCEPT !.attestCaseId = c])

handleCreateAttestation ==
  /\ screen.attestationModalOpen /\ screen.submitting = NoSignOff /\ MayFetchTrail
  /\ Become([screen EXCEPT !.submitting = [case |-> screen.attestCaseId,
                                           query |-> TrailQuery(screen)]])

AttestationAnswer ==
  LET s == [screen EXCEPT !.submitting = NoSignOff]
  IN  /\ screen.submitting # NoSignOff
      /\ \/ Become(fetchAuditTrail([s EXCEPT !.attestationModalOpen = FALSE],
                                   screen.submitting.query))
         \/ Become(s)

AuditTrailNext ==
  /\ currentTab = "audit_trail" /\ UNCHANGED <<currentTab, pending>>
  /\ \/ \E q \in screen.fetches : TrailAnswer(q)
     \/ \E c \in Cases \cup {NoCase}, search \in Searches : FilterTrail(c, search)
     \/ RefreshTrail \/ ToggleForm
     \/ \E c \in Cases : ChooseSignOffCase(c)
     \/ handleCreateAttestation \/ AttestationAnswer

(***************************************************************************)
(* What the banner above the events says of the hash chain.                *)
(***************************************************************************)
ChainBanner ==
  CASE screen.loadError -> "unknown"
    [] ~screen.loadError /\ screen.chainValid -> "valid"
    [] OTHER -> "invalid"

(***************************************************************************)
(* The banner calls the chain valid only above the events of an answer     *)
(* that said so, and at rest it calls it invalid only above those of one   *)
(* that said that (the comments at AuditTrailView.tsx:91 and 97), however  *)
(* answers, errors and retries overlap.                                    *)
(***************************************************************************)
NoClaimWithoutAnswer ==
  currentTab = "audit_trail" =>
    /\ ChainBanner = "valid" => screen.entries = "valid"
    /\ ChainBanner = "invalid" /\ ~screen.loading => screen.entries = "invalid"
===============================================================================
