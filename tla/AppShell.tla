------------------------------- MODULE AppShell -------------------------------
(***************************************************************************)
(* The shell of the web client: App of App.tsx with its sidebar, home page *)
(* and command palette.  It keeps the tab and the active case, and mounts  *)
(* the screen of the tab.  A screen that is left is unmounted: what it     *)
(* knew is gone, and of its requests in flight only what they do to the    *)
(* shell is left.                                                          *)
(*                                                                         *)
(* A browser runs one handler at a time.  A step of the model is one event *)
(* (something the user does, an answer that arrives) with the code it runs *)
(* up to its awaits, the rendering and the effects that follow from it.    *)
(* Between the steps of the client the server and other users act.         *)
(***************************************************************************)
EXTENDS Integers, Sequences, FiniteSets

CONSTANTS Cases,       \* cases the client can name
          NoCase,
          MaxInFlight, \* bound: requests of a screen in flight when the user starts another
          MaxJobs      \* bound: those of them that do more than fetch what is shown

ASSUME NoCaseAssumption == NoCase \notin Cases

VARIABLES currentTab,
          activeCaseId,
          screen,    \* state of the mounted screen
          pending    \* requests of unmounted screens, and of App, that will change the shell

vars == <<currentTab, activeCaseId, screen, pending>>

Tabs == {"home", "cases", "reviews", "audit_trail", "ask", "evaluation"}

(***************************************************************************)
(* A handler of the mounted screen that leaves the active case alone, and  *)
(* one that makes a case active: onSelectCase.                             *)
(***************************************************************************)
Become(s) == screen' = s /\ UNCHANGED activeCaseId

BecomeWithCase(s, c) == screen' = s /\ activeCaseId' = c

(***************************************************************************)
(* The tabs that the sidebar, the home page and the command palette lead   *)
(* to, with the case that becomes active: a pair for every button.  The    *)
(* palette offers the cases it was given and six vendors whose case        *)
(* identifiers are written into it, whether these cases exist or not.      *)
(***************************************************************************)
SidebarTargets == {<<t, activeCaseId>> : t \in Tabs}

HomeTargets ==
  {<<"cases", c>> : c \in Cases \cup {NoCase}} \cup {<<"reviews", activeCaseId>>}
    \cup {<<t, c>> : t \in {"reviews", "audit_trail"}, c \in Cases}

PaletteTargets ==
  {<<t, activeCaseId>> : t \in Tabs \ {"home"}}
    \cup {<<t, c>> : t \in {"cases", "reviews"}, c \in Cases}
===============================================================================
