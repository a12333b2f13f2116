-------------------------------- MODULE Dialogs --------------------------------
(* What the operator can reach on the page. Three scripts take the page away *)
(* and give it back without knowing of each other: the workspace, when a     *)
(* dialog is drawn (syncProductModal in workspace.js), the settings panel    *)
(* (automation.js) and the sign-in screen (operator-sign-in.js), the last    *)
(* two through the same attribute of the same element.                       *)
EXTENDS Naturals

VARIABLES route,                \* location.hash
          open,                 \* dialogs the state asks for, drawn or not
          inertFor,             \* all but this dialog is inert (modalInert), or NoDialog
          panelOpen,            \* the settings panel
          signingIn,            \* the sign-in screen
          rootInert, rootHidden,
          booting               \* the panel's first /session is not answered
dialogVars == <<route, open, inertFor, panelOpen, signingIn, rootInert, rootHidden, booting>>

Routes == {"control", "operations", "settings"}
NoDialog == "none"
\* In the order of the document; the picker belongs to one page.
DialogAt == <<"picker", "confirm", "bulk", "inspector", "help">>
Dialogs == {DialogAt[i] : i \in DOMAIN DialogAt}
DrawnOf(dialogs, at) == dialogs \ IF at = "control" THEN {} ELSE {"picker"}
drawn == DrawnOf(open, route)
firstModal(dialogs) ==
    DialogAt[CHOOSE i \in DOMAIN DialogAt :
                 /\ DialogAt[i] \in dialogs
                 /\ \A j \in 1..(i - 1) : DialogAt[j] \notin dialogs]

\* Variant: what an earlier dialog made inert is not given back.
SyncKeeping(dialogs, atSignIn) ==
    IF dialogs = {} \/ atSignIn THEN inertFor ELSE firstModal(dialogs)
\* syncProductModal, at the end of every render.
Sync(dialogs, atSignIn) ==
    IF dialogs = {} \/ atSignIn THEN NoDialog ELSE firstModal(dialogs)
Rendered == inertFor' = Sync(DrawnOf(open', route'), signingIn')

PageReachable == ~rootInert /\ ~rootHidden /\ inertFor = NoDialog
DialogReachable(d) == ~rootInert /\ ~rootHidden /\ d \in drawn /\ inertFor \in {d, NoDialog}
PanelReachable == panelOpen /\ inertFor = NoDialog

-----------------------------------------------------------------------------
DialogsInit ==
    /\ route \in Routes /\ open = {} /\ inertFor = NoDialog /\ booting = TRUE
    /\ panelOpen = FALSE /\ signingIn = FALSE /\ rootInert = FALSE /\ rootHidden = FALSE

\* A health reading, a monitor or a task draws the page at any time.
DrawAgain ==
    /\ UNCHANGED <<route, open, panelOpen, signingIn, rootInert, rootHidden, booting>>
    /\ Rendered
ShowDialog(d) ==
    /\ PageReachable /\ d = "picker" => route = "control"
    /\ open' = CASE d = "inspector" -> (open \ {"help"}) \cup {d}
                 [] d = "help" -> (open \ {"inspector"}) \cup {d}
                 [] OTHER -> open \cup {d}
    /\ UNCHANGED <<route, panelOpen, signingIn, rootInert, rootHidden, booting>> /\ Rendered
\* A recovery assessment that was asked for earlier is answered.
AssessmentConfirms ==
    /\ open' = (open \ {"inspector"}) \cup {"confirm"}
    /\ UNCHANGED <<route, panelOpen, signingIn, rootInert, rootHidden, booting>> /\ Rendered
closeProductPanel(d) == IF d \in {"inspector", "help"} THEN {"inspector", "help"} ELSE {d}
DismissDialog(d) ==
    /\ DialogReachable(d) /\ open' = open \ closeProductPanel(d)
    /\ UNCHANGED <<route, panelOpen, signingIn, rootInert, rootHidden, booting>> /\ Rendered
\* The batch dialog gives way to the record of one of its members.
InspectMember ==
    /\ DialogReachable("bulk") /\ open' = (open \ {"bulk"}) \cup {"inspector"}
    /\ UNCHANGED <<route, panelOpen, signingIn, rootInert, rootHidden, booting>> /\ Rendered

\* Escape reaches three listeners: the panel's, the dialogs', the window's.
EscapeCloses ==
    IF drawn = {} THEN {"picker", "confirm"}
    ELSE IF signingIn THEN {}
    ELSE IF "picker" \in open THEN {"picker"}
    ELSE IF "confirm" \in open THEN {"confirm"}
    ELSE closeProductPanel(firstModal(drawn))
PanelEscape == panelOpen' = FALSE /\ rootInert' = (rootInert /\ ~panelOpen)
Escape ==
    /\ open' = open \ EscapeCloses /\ PanelEscape
    /\ UNCHANGED <<route, signingIn, rootHidden, booting>>
    /\ Rendered \/ (open' = open /\ inertFor' = inertFor)

\* hashchange: the panel follows the route, then the workspace is drawn.
Follow(to) ==
    /\ to # route /\ route' = to
    /\ panelOpen' = (to = "settings") /\ rootInert' = (to = "settings" /\ (~panelOpen \/ rootInert))
    /\ UNCHANGED <<open, signingIn, rootHidden, booting>> /\ Rendered
\* gr:open, from a button of the page.
OpenSettings ==
    /\ PageReachable /\ ~panelOpen /\ panelOpen' = TRUE /\ rootInert' = TRUE
    /\ open' = open \ {"help", "inspector"}
    /\ UNCHANGED <<route, signingIn, rootHidden, booting>>
    /\ IF open' = open THEN UNCHANGED inertFor ELSE Rendered
\* close(); the refresh it asks for draws the page unless a task runs.
CloseSettings ==
    /\ PanelReachable /\ panelOpen' = FALSE /\ rootInert' = FALSE
    /\ UNCHANGED <<route, open, signingIn, rootHidden, booting>>
    /\ Rendered \/ UNCHANGED inertFor

\* prompt and its finish; neither draws the page.
Prompt ==
    /\ ~signingIn /\ signingIn' = TRUE /\ rootInert' = TRUE /\ rootHidden' = TRUE
    /\ UNCHANGED <<route, open, inertFor, panelOpen, booting>>
FinishPrompt ==
    /\ signingIn /\ signingIn' = FALSE /\ rootInert' = FALSE /\ rootHidden' = FALSE
    /\ UNCHANGED <<route, open, inertFor, panelOpen, booting>>

\* The panel's first /session: it opens in setup mode or on its route.
SessionAnswered(setup) ==
    /\ booting /\ booting' = FALSE
    /\ IF panelOpen \/ ~(setup \/ route = "settings")
       THEN /\ UNCHANGED panelOpen
            /\ rootInert' = (panelOpen /\ (setup \/ route = "settings") /\ rootInert)
       ELSE panelOpen' = TRUE /\ rootInert' = TRUE
    /\ UNCHANGED <<route, open, inertFor, signingIn, rootHidden>>

DialogsNext ==
    \/ DrawAgain \/ AssessmentConfirms \/ InspectMember \/ Escape \/ OpenSettings \/ CloseSettings
    \/ Prompt \/ FinishPrompt
    \/ \E d \in Dialogs : ShowDialog(d) \/ DismissDialog(d)
    \/ \E to \in Routes : Follow(to)
    \/ \E setup \in BOOLEAN : SessionAnswered(setup)
DialogsSpec == DialogsInit /\ [][DialogsNext]_dialogVars

-----------------------------------------------------------------------------
(* Whatever was opened over what, whoever closed it and in whatever order:  *)
(* with no dialog, panel or sign-in screen left, the page can be used; and  *)
(* while the sign-in screen is up, nothing of the page can.                 *)
PageReleased ==
    /\ drawn = {} /\ ~panelOpen /\ ~signingIn => PageReachable
    /\ signingIn => ~PageReachable /\ \A d \in Dialogs : ~DialogReachable(d)
=============================================================================
