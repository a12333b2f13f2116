------------------------------ MODULE Transport ------------------------------
(* Requests of the browser client (client.js) and the confirmation of the  *)
(* operator (operator-sign-in.js). Requests run concurrently, each ends    *)
(* with one outcome, reading can be cancelled, the history is fetched page *)
(* by page from a server that keeps working, and any answer may say that   *)
(* the operator has to confirm his sign-in again.                          *)
EXTENDS Naturals, Sequences

CONSTANTS Slot,        \* requests that may run at the same time
          PageSize,    \* runs per page of the history
          MaxRun       \* bound: runs the server records
ASSUME PageSizeAssumption == PageSize \in Nat \ {0}

VARIABLES active,      \* per slot, the request that runs there
          ended,       \* per slot, how its last request ended
          storedRuns,  \* the server's runs: row ids 1..storedRuns
          signIn,      \* operator-sign-in.js and the prompt it opens
          confirmed    \* the server holds a confirmed operator session
transportVars == <<active, ended, storedRuns, signIn, confirmed>>

(* The families of paths that policy() tells apart, and those of them that *)
(* change policies, the gate or the queue of the server.                   *)
Kinds == {"apply", "refresh", "analyse", "connect", "readiness", "writeMode",
          "workflow", "read", "history"}
Changing == {"apply", "refresh", "writeMode", "workflow"}
Posted == Changing \cup {"analyse", "connect"}

Cancelable(kind) ==
    /\ kind \notin {"apply", "refresh", "writeMode"}
    /\ kind \in Posted => kind \in {"analyse", "connect"}

NoRequest == [kind |-> "none", data |-> <<>>, offset |-> 0, next |-> 0, snapshot |-> 0,
              cancelled |-> FALSE]
SignedOut == [pending |-> "none", force |-> FALSE, known |-> FALSE, overlays |-> 0,
              reloading |-> FALSE]
TransportInit ==
    /\ active = [s \in Slot |-> NoRequest] /\ ended = [s \in Slot |-> NoRequest]
    /\ storedRuns \in 0..1 /\ confirmed \in BOOLEAN
    /\ signIn = [SignedOut EXCEPT !.pending = "session"]

-----------------------------------------------------------------------------
(* Requests.                                                               *)

Send(s, kind) ==
    /\ active[s] = NoRequest
    /\ active' = [active EXCEPT ![s] = [NoRequest EXCEPT !.kind = kind]]
    /\ ended' = [ended EXCEPT ![s] = NoRequest]
    /\ UNCHANGED <<storedRuns, signIn, confirmed>>

Ends(s, result) ==
    /\ active' = [active EXCEPT ![s] = NoRequest]
    /\ ended' = [ended EXCEPT ![s] = result]
Answered(s) ==
    /\ active[s].kind \notin {"none", "history"}
    /\ Ends(s, active[s])
    /\ UNCHANGED <<storedRuns, signIn, confirmed>>
\* Timeout, unreachable service, an error of the server or an unusable body:
\* never sent again from here.
Fails(s) ==
    /\ active[s] # NoRequest /\ Ends(s, NoRequest)
    /\ UNCHANGED <<storedRuns, signIn, confirmed>>
CancelReadOnly ==
    /\ \E s \in Slot : active[s] # NoRequest /\ Cancelable(active[s].kind)
    /\ LET hit == {s \in Slot : active[s] # NoRequest /\ Cancelable(active[s].kind)}
       IN /\ active' = [s \in Slot |-> IF s \in hit THEN NoRequest ELSE active[s]]
          /\ ended' = [s \in Slot |->
                IF s \notin hit THEN ended[s]
                ELSE [NoRequest EXCEPT !.kind = active[s].kind, !.cancelled = TRUE]]
    /\ UNCHANGED <<storedRuns, signIn, confirmed>>

-----------------------------------------------------------------------------
(* The history: newest first, the rows up to the snapshot of the first page.*)

\* The server's page: the rows at positions offset + 1 .. of the snapshot.
Page(offset, snapshot) ==
    [i \in 1..(IF snapshot - offset < PageSize THEN snapshot - offset ELSE PageSize)
        |-> snapshot - offset - i + 1]
NextOffset(offset, snapshot) ==
    IF offset + PageSize < snapshot THEN offset + PageSize ELSE 0

\* Variant: every page is read from the newest row on.
PageSnapshotLatest(s) == storedRuns
PageSnapshot(s) == IF active[s].data = <<>> THEN storedRuns ELSE active[s].snapshot
HistoryPage(s) ==
    /\ active[s].kind = "history"
    /\ active[s].data = <<>> \/ active[s].next > active[s].offset
    /\ LET at == active[s].next
           snapshot == PageSnapshot(s)
           got == [active[s] EXCEPT !.data = @ \o Page(at, snapshot), !.offset = at,
                   !.next = NextOffset(at, snapshot),
                   !.snapshot = IF active[s].data = <<>> THEN snapshot ELSE @]
       IN IF got.next = 0 THEN Ends(s, got)
          ELSE active' = [active EXCEPT ![s] = got] /\ UNCHANGED ended
    /\ UNCHANGED <<storedRuns, signIn, confirmed>>
RunRecorded ==
    /\ storedRuns < MaxRun /\ storedRuns' = storedRuns + 1
    /\ UNCHANGED <<active, ended, signIn, confirmed>>

-----------------------------------------------------------------------------
(* The operator's confirmation: one pending promise for all who ask.       *)

Ensure(si, force) ==
    IF si.pending # "none" THEN si
    ELSE [si EXCEPT !.pending = "session", !.force = force]

SignInUnchanged == UNCHANGED <<ended, storedRuns>>
OpenSignIn ==
    /\ signIn' = Ensure(signIn, TRUE)
    /\ SignInUnchanged /\ UNCHANGED <<active, confirmed>>
Reconfirm(s) ==
    /\ active[s] # NoRequest /\ ~confirmed
    /\ Ends(s, NoRequest)
    /\ signIn' = IF signIn.reloading THEN signIn
                 ELSE Ensure([signIn EXCEPT !.reloading = TRUE], FALSE)
    /\ UNCHANGED <<storedRuns, confirmed>>
ConfirmationExpires ==
    /\ confirmed /\ confirmed' = FALSE
    /\ SignInUnchanged /\ UNCHANGED <<active, signIn>>

Resolved ==     \* whoever asked for a reload gets a new page
    IF signIn.reloading
    THEN /\ signIn' = [SignedOut EXCEPT !.pending = "session"]
         /\ active' = [s \in Slot |-> NoRequest]
    ELSE /\ signIn' = [signIn EXCEPT !.pending = "none", !.overlays = 0]
         /\ UNCHANGED active
SessionRead ==
    /\ signIn.pending = "session"
    /\ IF signIn.force \/ ~confirmed
       THEN /\ signIn' = [signIn EXCEPT !.pending = "prompt", !.known = TRUE,
                          !.overlays = @ + 1]
            /\ UNCHANGED active
       ELSE Resolved
    /\ SignInUnchanged /\ UNCHANGED confirmed
SessionUnavailable ==
    /\ signIn.pending = "session"
    /\ signIn' = [signIn EXCEPT !.pending = "prompt", !.known = FALSE,
                  !.overlays = @ + 1]
    /\ SignInUnchanged /\ UNCHANGED <<active, confirmed>>
\* A prompt without a session reads it first, and closes if that suffices.
Retry ==
    /\ signIn.pending = "prompt" /\ ~signIn.known
    /\ IF confirmed THEN Resolved
       ELSE signIn' = [signIn EXCEPT !.known = TRUE] /\ UNCHANGED active
    /\ SignInUnchanged /\ UNCHANGED confirmed
\* The password is accepted and the session read after it says so.
SignInSucceeds ==
    /\ signIn.pending = "prompt" /\ signIn.known
    /\ confirmed' = TRUE /\ Resolved
    /\ SignInUnchanged
\* Refused, the cookie not accepted, or the session read after it failed.
SignInRefused ==
    /\ signIn.pending = "prompt"
    /\ \E known, taken \in BOOLEAN :
         /\ signIn' = [signIn EXCEPT !.known = known]
         /\ confirmed' = (confirmed \/ (taken /\ signIn.known))
    /\ SignInUnchanged /\ UNCHANGED active

TransportNext ==
    \/ \E s \in Slot : \/ \E kind \in Kinds : Send(s, kind)
                       \/ Answered(s) \/ Fails(s) \/ HistoryPage(s) \/ Reconfirm(s)
    \/ CancelReadOnly \/ RunRecorded \/ OpenSignIn \/ ConfirmationExpires
    \/ SessionRead \/ SessionUnavailable \/ Retry \/ SignInSucceeds \/ SignInRefused
TransportSpec == TransportInit /\ [][TransportNext]_transportVars

-----------------------------------------------------------------------------
(* A history that is delivered is one state of the server: every run up to *)
(* the newest one at the first page, newest first, none twice and none     *)
(* missing, although runs are added between the pages.                     *)
HistoryIsSnapshot ==
    \A s \in Slot : ended[s].kind = "history" /\ ~ended[s].cancelled =>
        ended[s].data = [i \in 1..ended[s].snapshot |-> ended[s].snapshot - i + 1]
=============================================================================
