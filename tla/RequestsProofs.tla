---------------------------- MODULE RequestsProofs -----------------------------
(***************************************************************************)
(* What the requests and the lists of the browser client promise, for any  *)
(* page size, number of runs and of restarts: a history that is delivered  *)
(* is whole, the settings panel does not lose the restart it waits for, and*)
(* the pages of a list pass over none of it.                               *)
(***************************************************************************)
EXTENDS Settings, Transport, ListPager, TLAPS, SequenceTheorems

-----------------------------------------------------------------------------
(* Transport: the pages of a history, and the rows they are joined to.     *)

\* The n rows of a history whose newest row has that number.
Whole(n, newest) == [i \in 1..n |-> newest - i + 1]

\* A history of n rows is a sequence of n row numbers.
LEMMA WholeIsSeq ==
  ASSUME NEW n \in Nat, NEW newest \in Nat
  PROVE  Whole(n, newest) \in Seq(Int) /\ Len(Whole(n, newest)) = n
<1>1. Whole(n, newest) \in [1..n -> Int]
  BY DEF Whole
<1> QED
  BY <1>1

\* A history with its next rows behind it is the longer history.
LEMMA WholeJoins ==
  ASSUME NEW n \in Nat, NEW k \in Nat, NEW newest \in Nat, n + k <= newest
  PROVE  Whole(n, newest) \o [i \in 1..k |-> newest - n - i + 1] = Whole(n + k, newest)
<1> DEFINE more == [i \in 1..k |-> newest - n - i + 1]
<1>1. more \in Seq(Int) /\ Len(more) = k
  <2>1. more \in [1..k -> Int]
    OBVIOUS
  <2> QED
    BY <2>1
<1>0. \A i \in 1..k : more[i] = newest - n - i + 1
  OBVIOUS
<1> HIDE DEF more
<1>2. n + k \in Nat
  OBVIOUS
<1>3. Whole(n, newest) \in Seq(Int) /\ Len(Whole(n, newest)) = n
  BY WholeIsSeq
<1>4. Whole(n + k, newest) \in Seq(Int) /\ Len(Whole(n + k, newest)) = n + k
  BY <1>2, WholeIsSeq
<1>5. ASSUME NEW i \in 1..(n + k)
      PROVE  (Whole(n, newest) \o more)[i] = Whole(n + k, newest)[i]
  <2>1. CASE i <= n
    BY <1>1, <1>3, <2>1 DEF Whole
  <2>2. CASE i > n
    <3>1. i - n \in 1..k /\ i <= n + k
      BY <2>2
    <3>2. (Whole(n, newest) \o more)[i] = more[i - n]
      BY <1>1, <1>3, <2>2, <3>1, ConcatProperties
    <3>3. more[i - n] = newest - n - (i - n) + 1
      BY <1>0, <3>1
    <3>4. Whole(n + k, newest)[i] = newest - i + 1
      BY DEF Whole
    <3>5. newest - n - (i - n) + 1 = newest - i + 1
      OBVIOUS
    <3> QED
      BY <3>2, <3>3, <3>4, <3>5
  <2>3. i <= n \/ i > n
    OBVIOUS
  <2> QED
    BY <2>1, <2>2, <2>3
<1>6. /\ Whole(n, newest) \o more \in Seq(Int)
      /\ Len(Whole(n, newest) \o more) = n + k
  BY <1>1, <1>3, ConcatProperties
<1>7. Whole(n, newest) \o more = Whole(n + k, newest)
  BY <1>4, <1>5, <1>6, SeqEqual
<1> QED
  BY <1>7 DEF more

\* What a slot can hold, and how far a history has come that is being read: to
\* the row before the next page, from the newest one of its first page.
Requests == [kind : Kinds \cup {"none"}, data : Seq(Int), offset : Nat, next : Nat,
             snapshot : Nat, cancelled : BOOLEAN]
Growing(r) ==
    r.kind = "history" =>
        IF r.data = <<>> THEN r.next = 0
        ELSE r.next < r.snapshot /\ r.data = Whole(r.next, r.snapshot)
Delivered(r) ==
    r.kind = "history" /\ ~r.cancelled => r.data = Whole(r.snapshot, r.snapshot)
TransportInv ==
    /\ active \in [Slot -> Requests] /\ ended \in [Slot -> Requests] /\ storedRuns \in Nat
    /\ \A s \in Slot : Growing(active[s]) /\ Delivered(ended[s])

\* An empty slot holds nothing of a history.
LEMMA NothingRead ==
    NoRequest \in Requests /\ Growing(NoRequest) /\ Delivered(NoRequest)
<1>1. <<>> \in Seq(Int)
  OBVIOUS
<1> QED
  BY <1>1 DEF NoRequest, Requests, Growing, Delivered

\* One more page: the history goes on behind it, or is whole.
LEMMA OnePageMore ==
  ASSUME NEW at \in Nat, NEW newest \in Nat, at <= newest
  PROVE  /\ Page(at, newest) \in Seq(Int)
         /\ IF NextOffset(at, newest) = 0
            THEN Whole(at, newest) \o Page(at, newest) = Whole(newest, newest)
            ELSE /\ NextOffset(at, newest) \in Nat /\ NextOffset(at, newest) < newest
                 /\ Whole(at, newest) \o Page(at, newest)
                       = Whole(NextOffset(at, newest), newest)
<1> DEFINE k == IF newest - at < PageSize THEN newest - at ELSE PageSize
<1>0. PageSize \in Nat /\ PageSize # 0
  BY PageSizeAssumption
<1>1. k \in Nat /\ at + k <= newest
  BY <1>0
<1>2. Page(at, newest) = [i \in 1..k |-> newest - at - i + 1]
  BY DEF Page
<1>3. NextOffset(at, newest) = IF at + k < newest THEN at + k ELSE 0
  BY <1>0 DEF NextOffset
<1>4. at + k < newest => at + k # 0
  BY <1>0
<1> HIDE DEF k
<1>5. Whole(at, newest) \o Page(at, newest) = Whole(at + k, newest)
  <2>1. Whole(at, newest) \o [i \in 1..k |-> newest - at - i + 1] = Whole(at + k, newest)
    BY <1>1, WholeJoins
  <2> QED
    BY <1>2, <2>1
<1>6. Page(at, newest) \in Seq(Int)
  <2>1. Page(at, newest) \in [1..k -> Int]
    BY <1>2
  <2> QED
    BY <1>1, <2>1
<1>7. CASE at + k < newest
  <2>1. NextOffset(at, newest) = at + k /\ at + k # 0 /\ at + k \in Nat
    BY <1>1, <1>3, <1>4, <1>7
  <2> QED
    BY <1>5, <1>6, <1>7, <2>1
<1>8. CASE ~(at + k < newest)
  <2>1. NextOffset(at, newest) = 0 /\ at + k = newest
    BY <1>1, <1>3, <1>8
  <2> QED
    BY <1>5, <1>6, <2>1
<1> QED
  BY <1>7, <1>8

\* No request is under way at the start.
LEMMA TransportInitInv == TransportInit => TransportInv
  BY NothingRead DEF TransportInit, TransportInv

\* A slot that is emptied or filled anew keeps the invariant of the others.
LEMMA SlotWritten ==
  ASSUME TransportInv, NEW s \in Slot, NEW r \in Requests, Growing(r)
  PROVE  /\ [active EXCEPT ![s] = r] \in [Slot -> Requests]
         /\ \A t \in Slot : Growing([active EXCEPT ![s] = r][t])
  BY DEF TransportInv
\* A slot that ends with what it may deliver leaves the other slots as they are.
LEMMA SlotEnded ==
  ASSUME TransportInv, NEW s \in Slot, NEW r \in Requests, Delivered(r)
  PROVE  /\ [ended EXCEPT ![s] = r] \in [Slot -> Requests]
         /\ \A t \in Slot : Delivered([ended EXCEPT ![s] = r][t])
  BY DEF TransportInv

\* A request ends with what it delivers.
LEMMA EndsKeeps ==
  ASSUME TransportInv, NEW s \in Slot, NEW r \in Requests, Delivered(r), Ends(s, r),
         storedRuns' = storedRuns
  PROVE  TransportInv'
<1>1. active' = [active EXCEPT ![s] = NoRequest] /\ ended' = [ended EXCEPT ![s] = r]
  BY DEF Ends
<1> QED
  BY <1>1, NothingRead, SlotWritten, SlotEnded DEF TransportInv

\* A page of the history: the first is read from the newest row, the others
\* where the one before ended.
LEMMA HistoryPageStep ==
  ASSUME TransportInv, NEW s \in Slot, HistoryPage(s)
  PROVE  TransportInv'
<1> DEFINE r == active[s]
           at == r.next
           newest == PageSnapshot(s)
           kept == IF r.data = <<>> THEN newest ELSE r.snapshot
           got == [r EXCEPT !.data = @ \o Page(at, newest), !.offset = at,
                            !.next = NextOffset(at, newest), !.snapshot = kept]
<1>1. r \in Requests /\ Growing(r) /\ r.kind = "history" /\ storedRuns' = storedRuns
  BY DEF TransportInv, HistoryPage
<1>2. IF got.next = 0 THEN Ends(s, got)
      ELSE active' = [active EXCEPT ![s] = got] /\ UNCHANGED ended
  BY DEF HistoryPage
<1>3. at \in Nat /\ newest \in Nat /\ kept = newest /\ r.data \in Seq(Int) /\ r.snapshot \in Nat
  BY <1>1 DEF PageSnapshot, Requests, TransportInv
<1>4. at <= newest /\ r.data = Whole(at, newest)
  <2>1. CASE r.data = <<>>
    <3>1. at = 0
      BY <1>1, <2>1 DEF Growing
    <3>2. Whole(0, newest) = <<>>
      BY DEF Whole
    <3> QED
      BY <1>3, <2>1, <3>1, <3>2
  <2>2. CASE r.data # <<>>
    <3>1. newest = r.snapshot
      BY <2>2 DEF PageSnapshot
    <3> QED
      BY <1>1, <1>3, <2>2, <3>1 DEF Growing
  <2> QED
    BY <2>1, <2>2
<1>5. /\ Page(at, newest) \in Seq(Int) /\ NextOffset(at, newest) \in Nat
      /\ IF NextOffset(at, newest) = 0
         THEN r.data \o Page(at, newest) = Whole(newest, newest)
         ELSE NextOffset(at, newest) < newest
              /\ r.data \o Page(at, newest) = Whole(NextOffset(at, newest), newest)
  <2> HIDE DEF at, newest
  <2>1. /\ Page(at, newest) \in Seq(Int)
        /\ IF NextOffset(at, newest) = 0
           THEN Whole(at, newest) \o Page(at, newest) = Whole(newest, newest)
           ELSE /\ NextOffset(at, newest) \in Nat /\ NextOffset(at, newest) < newest
                /\ Whole(at, newest) \o Page(at, newest)
                      = Whole(NextOffset(at, newest), newest)
    BY <1>3, <1>4, OnePageMore
  <2> QED
    BY <1>4, <2>1
<1>6. r.data \o Page(at, newest) \in Seq(Int)
  BY <1>3, <1>5, ConcatProperties
<1> HIDE DEF at, newest, kept, r
<1>7. /\ got \in Requests /\ got.kind = "history" /\ got.data = r.data \o Page(at, newest)
      /\ got.next = NextOffset(at, newest) /\ got.snapshot = newest
  BY <1>1, <1>3, <1>5, <1>6 DEF Requests
<1> HIDE DEF got
<1>8. CASE got.next = 0
  <2>1. Delivered(got)
    BY <1>5, <1>7, <1>8 DEF Delivered
  <2> QED
    BY <1>1, <1>2, <1>7, <1>8, <2>1, EndsKeeps
<1>9. CASE got.next # 0
  <2>1. got.data # <<>>
    <3>1. got.data = Whole(got.next, newest) /\ got.next \in Nat
      BY <1>5, <1>7, <1>9
    <3>2. Len(got.data) = got.next
      BY <1>3, <3>1, WholeIsSeq
    <3> QED
      BY <1>9, <3>2
  <2>2. Growing(got)
    BY <1>5, <1>7, <1>9, <2>1 DEF Growing
  <2> QED
    BY <1>1, <1>2, <1>7, <1>9, <2>2, SlotWritten DEF TransportInv
<1> QED
  BY <1>8, <1>9

\* Every step keeps the invariant.
LEMMA TransportStep ==
  ASSUME TransportInv, TransportNext
  PROVE  TransportInv'
<1>1. ASSUME NEW s \in Slot, NEW kind \in Kinds, Send(s, kind) PROVE TransportInv'
  <2> DEFINE asked == [NoRequest EXCEPT !.kind = kind]
  <2>1. asked \in Requests /\ Growing(asked)
    BY NothingRead DEF Requests, Growing, NoRequest
  <2>2. /\ active' = [active EXCEPT ![s] = asked] /\ ended' = [ended EXCEPT ![s] = NoRequest]
        /\ storedRuns' = storedRuns
    BY <1>1 DEF Send
  <2> HIDE DEF asked
  <2> QED
    BY <2>1, <2>2, NothingRead, SlotWritten, SlotEnded DEF TransportInv
<1>2. ASSUME NEW s \in Slot, Answered(s) PROVE TransportInv'
  <2>1. active[s] \in Requests /\ Delivered(active[s])
    BY <1>2 DEF Answered, TransportInv, Delivered
  <2> QED
    BY <1>2, <2>1, EndsKeeps DEF Answered
<1>3. ASSUME NEW s \in Slot, Fails(s) \/ Reconfirm(s) PROVE TransportInv'
  BY <1>3, NothingRead, EndsKeeps DEF Fails, Reconfirm
<1>4. CASE CancelReadOnly
  <2>1. PICK hit \in SUBSET Slot :
          /\ active' = [s \in Slot |-> IF s \in hit THEN NoRequest ELSE active[s]]
          /\ ended' = [s \in Slot |->
                IF s \notin hit THEN ended[s]
                ELSE [NoRequest EXCEPT !.kind = active[s].kind, !.cancelled = TRUE]]
          /\ storedRuns' = storedRuns
    BY <1>4 DEF CancelReadOnly
  <2>2. ASSUME NEW s \in Slot
        PROVE  /\ [NoRequest EXCEPT !.kind = active[s].kind, !.cancelled = TRUE] \in Requests
               /\ Delivered([NoRequest EXCEPT !.kind = active[s].kind, !.cancelled = TRUE])
    <3>1. active[s].kind \in Kinds \cup {"none"}
      BY DEF TransportInv, Requests
    <3> QED
      BY <3>1, NothingRead DEF Requests, NoRequest, Delivered
  <2>3. active' \in [Slot -> Requests] /\ ended' \in [Slot -> Requests]
    BY <2>1, <2>2, NothingRead DEF TransportInv
  <2>4. ASSUME NEW s \in Slot PROVE Growing(active'[s]) /\ Delivered(ended'[s])
    BY <2>1, <2>2, NothingRead DEF TransportInv
  <2> QED
    BY <2>1, <2>3, <2>4 DEF TransportInv
<1>5. CASE RunRecorded
  BY <1>5 DEF RunRecorded, TransportInv
<1>6. CASE OpenSignIn \/ ConfirmationExpires \/ SessionUnavailable \/ SignInRefused
  BY <1>6 DEF OpenSignIn, ConfirmationExpires, SessionUnavailable, SignInRefused,
              SignInUnchanged, TransportInv
<1>7. CASE SessionRead \/ Retry \/ SignInSucceeds
  <2>1. /\ UNCHANGED <<ended, storedRuns>>
        /\ UNCHANGED active \/ active' = [s \in Slot |-> NoRequest]
    BY <1>7 DEF SessionRead, Retry, SignInSucceeds, SignInUnchanged, Resolved
  <2> QED
    BY <2>1, NothingRead DEF TransportInv
<1> QED
  BY <1>1, <1>2, <1>3, <1>4, <1>5, <1>6, <1>7, HistoryPageStep DEF TransportNext

\* The invariant of the transport holds in every behaviour: a history that is
\* being read is whole up to its next page, within the snapshot of its first.
THEOREM TransportInductive == TransportSpec => []TransportInv
<1>1. ASSUME TransportInv, UNCHANGED transportVars PROVE TransportInv'
  BY <1>1 DEF transportVars, TransportInv
<1> QED
  BY <1>1, TransportInitInv, TransportStep, PTL DEF TransportSpec

\* A history that is delivered is one state of the server, whatever the page
\* size and however many runs are recorded between its pages.
THEOREM HistoriesAreSnapshots == TransportSpec => []HistoryIsSnapshot
<1>1. TransportInv => HistoryIsSnapshot
  BY DEF TransportInv, HistoryIsSnapshot, Delivered, Whole
<1> QED
  BY <1>1, TransportInductive, PTL

-----------------------------------------------------------------------------
(* The settings panel: when it says that the service is back.              *)

Panels == [open : BOOLEAN, loaded : BOOLEAN, config : BOOLEAN, process : Nat,
           writes : BOOLEAN, mode : {"unknown", "SETUP", "WINDOWS"}, connected : BOOLEAN,
           expired : BOOLEAN, offline : BOOLEAN,
           notice : {"", "error", "done", "restarting", "restarted"},
           overlap : BOOLEAN, unseen : BOOLEAN]
Tasks == [kind : {"none", "load", "save", "write", "detect", "readiness"},
          stage : {"none", "read", "session", "request", "watch"},
          previous : Nat, accepted : Nat, auto : BOOLEAN, enable : BOOLEAN,
          overlapped : BOOLEAN]
Services == [pid : Nat \ {0}, mode : {"SETUP", "WINDOWS"}, up : BOOLEAN,
             leaving : BOOLEAN, writes : BOOLEAN, managed : BOOLEAN]

\* Where it is written down that the panel may have lost its process: it was
\* reopened or told of a restart while busy, or the service started unseen.
Excused(p, t) == t.overlapped \/ p.overlap \/ p.unseen
\* The process that the panel knows is the one that runs, but while it waits
\* for another. A live session, a load that read it and a change that will
\* restart the service know a process; so a wait began with the one that
\* accepted the change.
Watched(p, t, s) ==
    /\ p \in Panels /\ t \in Tasks /\ s \in Services
    /\ p.process \in {0, s.pid} \/ p.unseen \/ t.stage = "watch"
    /\ t.kind = "none" => ~t.overlapped
    /\ t.stage = "watch" => t.kind \in {"save", "write"}
    /\ p.connected => p.process # 0 \/ Excused(p, t)
    /\ t.stage = "session" => p.process # 0 \/ Excused(p, t)
    /\ t.stage = "request" /\ t.kind \in {"save", "write"} /\ t.auto =>
          p.process # 0 \/ Excused(p, t)
    /\ t.stage = "watch" => t.previous = t.accepted \/ Excused(p, t)
SettingsInv == Watched(panel, task, service)

\* A panel that was never opened waits for nothing.
LEMMA SettingsInitInv == SettingsInit => SettingsInv
<1> SUFFICES ASSUME SettingsInit PROVE SettingsInv
  OBVIOUS
<1>1. panel \in Panels /\ panel.process = 0 /\ panel.connected = FALSE
  BY DEF SettingsInit, Panels
<1>2. task \in Tasks /\ task.stage = "none" /\ task.overlapped = FALSE
  BY DEF SettingsInit, Tasks, NoTask
<1>3. service \in Services
  <2>1. PICK m \in {"SETUP", "WINDOWS"}, w \in BOOLEAN :
          service = [pid |-> 1, mode |-> m, up |-> TRUE, leaving |-> FALSE,
                     writes |-> FALSE, managed |-> w]
    BY DEF SettingsInit
  <2> QED
    BY <2>1 DEF Services
<1> QED
  BY <1>1, <1>2, <1>3 DEF SettingsInv, Watched

\* The service moves on.
LEMMA ServiceStep ==
  ASSUME SettingsInv, ServiceLeaves \/ ServiceLost \/ ServiceStarts
  PROVE  SettingsInv'
<1>1. panel \in Panels /\ task \in Tasks /\ service \in Services
  BY DEF SettingsInv, Watched
<1>2. CASE ServiceLeaves \/ ServiceLost
  <2>1. PICK l \in BOOLEAN : service' = [service EXCEPT !.up = FALSE, !.leaving = l]
    BY <1>1, <1>2 DEF ServiceLeaves, ServiceLost, Services
  <2>2. service' \in Services /\ service'.pid = service.pid /\ UNCHANGED <<panel, task>>
    BY <1>1, <1>2, <2>1 DEF Services, ServiceLeaves, ServiceLost
  <2> QED
    BY <2>2 DEF SettingsInv, Watched, Excused
<1>3. CASE ServiceStarts
  <2>1. /\ service' \in Services /\ UNCHANGED task
        /\ panel' = [panel EXCEPT !.unseen = @ \/ task.stage # "watch"]
    <3>1. PICK m \in {"SETUP", "WINDOWS"} :
            service' = [service EXCEPT !.up = TRUE, !.pid = @ + 1, !.mode = m]
      BY <1>3 DEF ServiceStarts
    <3>2. service.pid + 1 \in Nat \ {0}
      BY <1>1 DEF Services
    <3> QED
      BY <1>1, <1>3, <3>1, <3>2 DEF ServiceStarts, Services
  <2> QED
    BY <1>1, <2>1 DEF SettingsInv, Watched, Excused, Panels
<1> QED
  BY <1>2, <1>3

\* A task ends: what was refused meanwhile is remembered.
LEMMA TaskEnds ==
  ASSUME SettingsInv, NEW p \in Panels, panel' = Ended(p), task' = NoTask,
         service' \in Services, service'.pid = service.pid,
         p.process \in {panel.process, service.pid},
         panel.unseen => p.unseen, panel.overlap => p.overlap,
         task.stage = "watch" => p.process = service.pid \/ p.unseen,
         p.connected => p.process # 0 \/ Excused(p, task)
  PROVE  SettingsInv'
<1>1. panel \in Panels /\ task \in Tasks /\ service \in Services
  BY DEF SettingsInv, Watched
<1>2. /\ panel' \in Panels /\ panel'.process = p.process /\ panel'.connected = p.connected
      /\ panel'.unseen = p.unseen /\ panel'.overlap = (p.overlap \/ task.overlapped)
  BY <1>1 DEF Ended, Panels, Tasks
<1>3. /\ task' \in Tasks /\ task'.stage = "none" /\ task'.kind = "none"
      /\ task'.overlapped = FALSE
  BY DEF NoTask, Tasks
<1>4. panel.process \in {0, service.pid} \/ panel.unseen \/ task.stage = "watch"
  BY DEF SettingsInv, Watched
<1> QED
  BY <1>1, <1>2, <1>3, <1>4 DEF SettingsInv, Watched, Excused

\* Opening, closing and loading the panel keep what it waits for.
LEMMA LoadSteps ==
  ASSUME SettingsInv, OpenPanel \/ ClosePanel \/ LoadReads \/ LoadEnds \/ LoadFails
  PROVE  SettingsInv'
<1>1. panel \in Panels /\ task \in Tasks /\ service \in Services
  BY DEF SettingsInv, Watched
<1>2. CASE OpenPanel
  <2>1. panel' = [panel EXCEPT !.open = TRUE, !.loaded = FALSE, !.config = FALSE,
                    !.process = 0, !.writes = FALSE, !.connected = FALSE, !.notice = "",
                    !.overlap = ~Idle]
    BY <1>2 DEF OpenPanel
  <2>2. Idle \in BOOLEAN
    BY DEF Idle
  <2>3. /\ panel' \in Panels /\ panel'.process = 0 /\ panel'.connected = FALSE
        /\ panel'.unseen = panel.unseen /\ panel'.overlap = ~Idle
    BY <1>1, <2>1, <2>2 DEF Panels
  <2>4. task' = Load /\ UNCHANGED service
    BY <1>2 DEF OpenPanel
  <2>5. CASE Idle
    <3>1. task' \in Tasks /\ task'.stage = "read" /\ task'.overlapped = FALSE
      BY <2>4, <2>5 DEF Load, LoadTask, NoTask, Tasks
    <3> QED
      BY <1>1, <2>3, <2>4, <3>1 DEF SettingsInv, Watched
  <2>6. CASE ~Idle
    <3>1. /\ task' \in Tasks /\ task'.overlapped = TRUE /\ task'.kind # "none"
          /\ task'.kind = task.kind /\ task'.stage = task.stage
      BY <1>1, <2>4, <2>6 DEF Load, Tasks, Idle
    <3> QED
      BY <1>1, <2>3, <2>4, <3>1 DEF SettingsInv, Watched, Excused
  <2> QED
    BY <2>5, <2>6
<1>3. CASE ClosePanel
  <2>1. panel' = [panel EXCEPT !.open = FALSE] /\ UNCHANGED <<task, service>>
    BY <1>3 DEF ClosePanel
  <2> QED
    BY <1>1, <2>1 DEF SettingsInv, Watched, Excused, Panels
<1>4. CASE LoadReads
  <2>1. panel' = [panel EXCEPT !.config = TRUE, !.process = service.pid,
                    !.writes = service.writes, !.offline = FALSE,
                    !.unseen = FALSE, !.mode = IF @ = "unknown" THEN service.mode ELSE @]
    BY <1>4 DEF LoadReads
  <2>2. /\ panel' \in Panels /\ panel'.process = service.pid
    BY <1>1, <2>1 DEF Panels, Services
  <2>3. /\ task' = [task EXCEPT !.stage = "session"] /\ task.kind = "load" /\ UNCHANGED service
    BY <1>4 DEF LoadReads
  <2>4. task' \in Tasks /\ task'.stage = "session" /\ task'.kind = "load"
    BY <1>1, <2>3 DEF Tasks
  <2>5. service.pid # 0
    BY <1>1 DEF Services
  <2> QED
    BY <1>1, <2>2, <2>3, <2>4, <2>5 DEF SettingsInv, Watched
<1>5. CASE LoadEnds
  <2>1. PICK connected \in BOOLEAN, discovered \in BOOLEAN :
          panel' = Ended([panel EXCEPT !.connected = connected, !.expired = FALSE,
                      !.loaded = panel.config,
                      !.notice = IF discovered /\ panel.config THEN @ ELSE "error"])
    BY <1>5 DEF LoadEnds
  <2> DEFINE p == [panel EXCEPT !.connected = connected, !.expired = FALSE,
                      !.loaded = panel.config,
                      !.notice = IF discovered /\ panel.config THEN @ ELSE "error"]
  <2>2. /\ p \in Panels /\ p.process = panel.process /\ p.unseen = panel.unseen
        /\ p.overlap = panel.overlap
    BY <1>1 DEF Panels
  <2>3. panel' = Ended(p)
    BY <2>1
  <2> HIDE DEF p
  <2>4. task.stage = "session" /\ task' = NoTask /\ UNCHANGED service
    BY <1>5 DEF LoadEnds
  <2>5. p.process # 0 \/ Excused(p, task)
    BY <2>2, <2>4 DEF SettingsInv, Watched, Excused
  <2> QED
    BY <1>1, <2>2, <2>3, <2>4, <2>5, TaskEnds
<1>6. CASE LoadFails
  <2> DEFINE p == [panel EXCEPT !.notice = "error", !.offline = ~service.up]
  <2>1. panel' = Ended(p) /\ task' = NoTask /\ UNCHANGED service /\ task.kind = "load"
    BY <1>6 DEF LoadFails
  <2>2. /\ p \in Panels /\ p.process = panel.process /\ p.unseen = panel.unseen
        /\ p.overlap = panel.overlap /\ p.connected = panel.connected
    BY <1>1 DEF Panels, Services
  <2> HIDE DEF p
  <2>3. p.connected => p.process # 0 \/ Excused(p, task)
    BY <2>2 DEF SettingsInv, Watched, Excused
  <2>4. task.stage # "watch"
    BY <2>1 DEF SettingsInv, Watched
  <2> QED
    BY <1>1, <2>1, <2>2, <2>3, <2>4, TaskEnds
<1> QED
  BY <1>2, <1>3, <1>4, <1>5, <1>6

\* The actions of the panel and their answers keep what it waits for.
LEMMA ActionSteps ==
  ASSUME SettingsInv,
         \/ SaveConfig \/ SwitchWrites \/ Detect \/ CheckReadiness
         \/ ActionFails \/ AnswerLost \/ ReadEnds \/ ChangeAccepted \/ ChangeSavedOnly
  PROVE  SettingsInv'
<1>1. panel \in Panels /\ task \in Tasks /\ service \in Services
  BY DEF SettingsInv, Watched
<1>2. CASE SaveConfig \/ SwitchWrites \/ Detect \/ CheckReadiness
  <2>1. PICK kind \in {"save", "write", "detect", "readiness"} :
          Acts(kind) /\ (kind = "write" => GateUsable)
    BY <1>2 DEF SaveConfig, SwitchWrites, Detect, CheckReadiness
  <2>2. panel' = [panel EXCEPT !.notice = ""] /\ UNCHANGED service /\ Idle
    BY <2>1 DEF Acts
  <2>3. /\ panel' \in Panels /\ panel'.process = panel.process
        /\ panel'.connected = panel.connected
        /\ panel'.unseen = panel.unseen /\ panel'.overlap = panel.overlap
    BY <1>1, <2>2 DEF Panels
  <2>4. /\ task' \in Tasks /\ task'.stage = "request" /\ task'.kind = kind
        /\ task'.overlapped = FALSE /\ task'.auto = (kind = "write" \/ panel.process # 0)
    <3> DEFINE auto == kind = "write" \/ panel.process # 0
               enable == kind = "write" /\ ~panel.writes
    <3>1. auto \in BOOLEAN /\ enable \in BOOLEAN
      OBVIOUS
    <3>2. task' = [NoTask EXCEPT !.kind = kind, !.stage = "request", !.auto = auto,
                                 !.enable = enable]
      BY <2>1 DEF Acts
    <3>3. auto = (kind = "write" \/ panel.process # 0)
      OBVIOUS
    <3> HIDE DEF auto, enable
    <3>4. /\ task' \in Tasks /\ task'.stage = "request" /\ task'.kind = kind
          /\ task'.overlapped = FALSE /\ task'.auto = auto
      BY <3>1, <3>2 DEF NoTask, Tasks
    <3> QED
      BY <3>3, <3>4
  <2>5. /\ kind = "write" => panel.connected
        /\ ~task.overlapped /\ task.stage # "watch"
    BY <2>1, <2>2 DEF GateUsable, SettingsInv, Watched, Idle
  <2>6. kind = "write" => panel.process # 0 \/ panel.overlap \/ panel.unseen
    BY <2>5 DEF SettingsInv, Watched, Excused
  <2>7. /\ panel.process \in {0, service.pid} \/ panel.unseen
        /\ panel.connected => panel.process # 0 \/ panel.overlap \/ panel.unseen
    BY <2>5 DEF SettingsInv, Watched, Excused
  <2> QED
    BY <1>1, <2>2, <2>3, <2>4, <2>6, <2>7 DEF SettingsInv, Watched, Excused
<1>3. CASE ActionFails
  <2>1. PICK lost \in BOOLEAN :
          panel' = Ended([panel EXCEPT !.notice = "error", !.offline = @ \/ ~service.up,
                    !.expired = @ \/ lost, !.connected = @ /\ ~lost])
    BY <1>3 DEF ActionFails
  <2> DEFINE p == [panel EXCEPT !.notice = "error", !.offline = @ \/ ~service.up,
                    !.expired = @ \/ lost, !.connected = @ /\ ~lost]
  <2>2. /\ p \in Panels /\ p.process = panel.process /\ p.unseen = panel.unseen
        /\ p.overlap = panel.overlap /\ p.connected = (panel.connected /\ ~lost)
    BY <1>1 DEF Panels, Services
  <2>3. panel' = Ended(p)
    BY <2>1
  <2> HIDE DEF p
  <2>4. task.stage = "request" /\ task' = NoTask /\ UNCHANGED service
    BY <1>3 DEF ActionFails
  <2>5. p.connected => p.process # 0 \/ Excused(p, task)
    BY <2>2 DEF SettingsInv, Watched, Excused
  <2> QED
    BY <1>1, <2>2, <2>3, <2>4, <2>5, TaskEnds
<1>4. CASE AnswerLost
  <2> DEFINE p == [panel EXCEPT !.notice = "error"]
  <2>1. /\ panel' = Ended(p) /\ task.stage = "request" /\ task' = NoTask
        /\ service' = [service EXCEPT !.leaving = task.auto /\ service.managed,
                                      !.writes = task.enable]
    BY <1>4 DEF AnswerLost
  <2>2. /\ p \in Panels /\ p.process = panel.process /\ p.unseen = panel.unseen
        /\ p.overlap = panel.overlap /\ p.connected = panel.connected
    BY <1>1 DEF Panels
  <2>3. service' \in Services /\ service'.pid = service.pid
    BY <1>1, <2>1 DEF Services, Tasks
  <2> HIDE DEF p
  <2>4. p.connected => p.process # 0 \/ Excused(p, task)
    BY <2>2 DEF SettingsInv, Watched, Excused
  <2> QED
    BY <1>1, <2>1, <2>2, <2>3, <2>4, TaskEnds
<1>5. CASE ReadEnds
  <2> DEFINE p == [panel EXCEPT !.notice = IF task.kind = "detect" THEN "done" ELSE @,
                                !.expired = IF task.kind = "readiness" THEN FALSE ELSE @]
  <2>1. /\ panel' = Ended(p) /\ task.stage = "request" /\ task' = NoTask
        /\ UNCHANGED service
    BY <1>5 DEF ReadEnds
  <2>2. /\ p \in Panels /\ p.process = panel.process /\ p.unseen = panel.unseen
        /\ p.overlap = panel.overlap /\ p.connected = panel.connected
    BY <1>1 DEF Panels
  <2> HIDE DEF p
  <2>3. p.connected => p.process # 0 \/ Excused(p, task)
    BY <2>2 DEF SettingsInv, Watched, Excused
  <2> QED
    BY <1>1, <2>1, <2>2, <2>3, TaskEnds
<1>6. CASE ChangeSavedOnly
  <2> DEFINE p == [panel EXCEPT !.notice = "done", !.loaded = FALSE,
                                !.mode = "unknown", !.connected = FALSE]
  <2>1. /\ panel' = Ended(p) /\ task.stage = "request" /\ task' = NoTask
        /\ service' = [service EXCEPT !.writes = task.enable]
    BY <1>6 DEF ChangeSavedOnly
  <2>2. /\ p \in Panels /\ p.process = panel.process /\ p.unseen = panel.unseen
        /\ p.overlap = panel.overlap /\ p.connected = FALSE
    BY <1>1 DEF Panels
  <2>3. service' \in Services /\ service'.pid = service.pid
    BY <1>1, <2>1 DEF Services, Tasks
  <2> HIDE DEF p
  <2> QED
    BY <1>1, <2>1, <2>2, <2>3, TaskEnds
<1>7. CASE ChangeAccepted
  <2>1. /\ panel' = [panel EXCEPT !.notice = "restarting", !.offline = TRUE,
                                  !.connected = FALSE]
        /\ task' = [task EXCEPT !.stage = "watch", !.previous = panel.process,
                                !.accepted = service.pid]
        /\ service' = [service EXCEPT !.leaving = TRUE, !.writes = task.enable]
        /\ task.kind \in {"save", "write"} /\ task.stage = "request" /\ task.auto
    BY <1>7 DEF ChangeAccepted
  <2>2. /\ panel' \in Panels /\ panel'.process = panel.process /\ panel'.connected = FALSE
        /\ panel'.unseen = panel.unseen /\ panel'.overlap = panel.overlap
    BY <1>1, <2>1 DEF Panels
  <2>3. /\ task' \in Tasks /\ task'.stage = "watch" /\ task'.previous = panel.process
        /\ task'.accepted = service.pid /\ task'.kind = task.kind
        /\ task'.overlapped = task.overlapped
    BY <1>1, <2>1 DEF Tasks, Panels, Services
  <2>4. service' \in Services /\ service'.pid = service.pid
    BY <1>1, <2>1 DEF Services, Tasks
  <2>5. panel.process = service.pid \/ Excused(panel, task)
    BY <2>1 DEF SettingsInv, Watched, Excused
  <2> QED
    BY <2>1, <2>2, <2>3, <2>4, <2>5 DEF SettingsInv, Watched, Excused
<1> QED
  BY <1>2, <1>3, <1>4, <1>5, <1>6, <1>7

\* The watch for the next process keeps what the panel waits for.
LEMMA WatchSteps ==
  ASSUME SettingsInv,
         WatchAgain \/ WatchSeesProcess \/ WatchTimesOut \/ ToldRestarting \/ ToldReady
  PROVE  SettingsInv'
<1>1. panel \in Panels /\ task \in Tasks /\ service \in Services
  BY DEF SettingsInv, Watched
<1>2. CASE WatchAgain
  <2>1. panel' = [panel EXCEPT !.offline = @ \/ ~service.up] /\ UNCHANGED <<task, service>>
    BY <1>2 DEF WatchAgain
  <2>2. /\ panel' \in Panels /\ panel'.process = panel.process
        /\ panel'.connected = panel.connected
        /\ panel'.unseen = panel.unseen /\ panel'.overlap = panel.overlap
    BY <1>1, <2>1 DEF Panels, Services
  <2> QED
    BY <2>1, <2>2 DEF SettingsInv, Watched, Excused
<1>3. CASE WatchSeesProcess
  <2> DEFINE p == [panel EXCEPT !.process = service.pid, !.writes = service.writes,
                 !.offline = FALSE, !.loaded = FALSE, !.mode = "unknown",
                 !.connected = FALSE,
                 !.notice = IF service.mode = "WINDOWS" THEN "restarted" ELSE @]
  <2>1. panel' = Ended(p) /\ task' = NoTask /\ UNCHANGED service
    BY <1>3 DEF WatchSeesProcess
  <2>2. /\ p \in Panels /\ p.process = service.pid /\ p.unseen = panel.unseen
        /\ p.overlap = panel.overlap /\ p.connected = FALSE
    BY <1>1 DEF Panels, Services
  <2> HIDE DEF p
  <2> QED
    BY <1>1, <2>1, <2>2, TaskEnds
<1>4. CASE WatchTimesOut
  <2> DEFINE p == [panel EXCEPT !.notice = "error", !.unseen = TRUE]
  <2>1. panel' = Ended(p) /\ task' = NoTask /\ UNCHANGED service
    BY <1>4 DEF WatchTimesOut
  <2>2. /\ p \in Panels /\ p.process = panel.process /\ p.unseen = TRUE
        /\ p.overlap = panel.overlap /\ p.connected = panel.connected
    BY <1>1 DEF Panels
  <2> HIDE DEF p
  <2>3. Excused(p, task)
    BY <2>2 DEF Excused
  <2> QED
    BY <1>1, <2>1, <2>2, <2>3, TaskEnds
<1>5. CASE ToldRestarting
  <2>1. /\ panel' = [panel EXCEPT !.offline = TRUE, !.connected = FALSE]
        /\ UNCHANGED <<task, service>>
    BY <1>5 DEF ToldRestarting
  <2>2. /\ panel' \in Panels /\ panel'.process = panel.process /\ panel'.connected = FALSE
        /\ panel'.unseen = panel.unseen /\ panel'.overlap = panel.overlap
    BY <1>1, <2>1 DEF Panels
  <2> QED
    BY <2>1, <2>2 DEF SettingsInv, Watched, Excused
<1>6. CASE ToldReady
  <2>1. /\ panel' = [panel EXCEPT !.offline = FALSE, !.loaded = FALSE, !.mode = "unknown",
                                  !.connected = FALSE]
        /\ UNCHANGED service /\ (task' = task \/ task' = Load)
    BY <1>6 DEF ToldReady
  <2>2. /\ panel' \in Panels /\ panel'.process = panel.process /\ panel'.connected = FALSE
        /\ panel'.unseen = panel.unseen /\ panel'.overlap = panel.overlap
    BY <1>1, <2>1 DEF Panels
  <2>3. CASE task' = task
    BY <2>1, <2>2, <2>3 DEF SettingsInv, Watched, Excused
  <2>4. CASE task' = Load /\ Idle
    <3>1. task' \in Tasks /\ task'.stage = "read" /\ task'.overlapped = FALSE
      BY <2>4 DEF Load, LoadTask, NoTask, Tasks
    <3>2. task.stage # "watch"
      BY <2>4 DEF Idle, SettingsInv, Watched
    <3> QED
      BY <2>1, <2>2, <3>1, <3>2 DEF SettingsInv, Watched
  <2>5. CASE task' = Load /\ ~Idle
    <3>1. /\ task' \in Tasks /\ task'.overlapped = TRUE /\ task'.kind # "none"
          /\ task'.kind = task.kind /\ task'.stage = task.stage
      BY <1>1, <2>5 DEF Load, Tasks, Idle
    <3> QED
      BY <2>1, <2>2, <3>1 DEF SettingsInv, Watched, Excused
  <2> QED
    BY <2>1, <2>3, <2>4, <2>5
<1> QED
  BY <1>2, <1>3, <1>4, <1>5, <1>6

\* The invariant of the panel holds in every behaviour: a process it waits
\* for to be replaced is one that ran, and a change is told or still watched.
THEOREM SettingsInductive == SettingsSpec => []SettingsInv
<1>1. ASSUME SettingsInv, UNCHANGED settingsVars PROVE SettingsInv'
  BY <1>1 DEF settingsVars, SettingsInv, Watched, Excused
<1>2. SettingsInv /\ [SettingsNext]_settingsVars => SettingsInv'
  BY <1>1, ServiceStep, LoadSteps, ActionSteps, WatchSteps DEF SettingsNext
<1> QED
  BY <1>2, SettingsInitInv, PTL DEF SettingsSpec

\* Only the end of a wait says that the service was restarted.
LEMMA OnlyWaitsReport ==
  ASSUME SettingsInv, SettingsNext, ~WatchSeesProcess
  PROVE  panel'.notice # "restarted" \/ panel'.notice = panel.notice
<1>1. panel \in Panels
  BY DEF SettingsInv, Watched
<1>2. CASE \/ ServiceLeaves \/ ServiceLost \/ ServiceStarts \/ OpenPanel \/ ClosePanel
           \/ LoadReads \/ SaveConfig \/ SwitchWrites \/ Detect \/ CheckReadiness
           \/ ChangeAccepted \/ WatchAgain \/ ToldRestarting \/ ToldReady
  BY <1>1, <1>2
     DEF ServiceLeaves, ServiceLost, ServiceStarts, OpenPanel, ClosePanel, LoadReads, SaveConfig,
         SwitchWrites, Detect, CheckReadiness, Acts, ChangeAccepted, WatchAgain, ToldRestarting,
         ToldReady, Panels
<1>3. CASE LoadEnds \/ LoadFails \/ ActionFails \/ AnswerLost \/ ReadEnds \/ ChangeSavedOnly
           \/ WatchTimesOut
  BY <1>1, <1>3 DEF LoadEnds, LoadFails, ActionFails, AnswerLost, ReadEnds, ChangeSavedOnly,
                    WatchTimesOut, Ended, Panels
<1> QED
  BY <1>2, <1>3 DEF SettingsNext

\* The panel reports a completed restart only when another process answers
\* than the one that accepted its change, but where it is written down that it
\* may have lost that process (RestartReported).
THEOREM RestartsAreReported == SettingsSpec => RestartReported
<1> DEFINE another == panel'.notice = "restarted" /\ panel.notice # "restarted" =>
                          \/ service.pid # task.accepted
                          \/ task.overlapped \/ panel.overlap \/ panel.unseen
<1>1. ASSUME SettingsInv, SettingsNext PROVE another
  <2>1. CASE WatchSeesProcess
    BY <1>1, <2>1 DEF WatchSeesProcess, SettingsInv, Watched, Excused
  <2> QED
    BY <1>1, <2>1, OnlyWaitsReport
<1>2. SettingsInv /\ [SettingsNext]_settingsVars => [another]_settingsVars
  BY <1>1
<1> QED
  BY <1>2, SettingsInductive, PTL DEF SettingsSpec, RestartReported

-----------------------------------------------------------------------------
(* The pager: lists in pages, whatever page is asked for.                  *)

\* Division by a size, as far as the pages need it.
LEMMA Quotient ==
  ASSUME NEW n \in Nat, NEW d \in Nat \ {0}
  PROVE  n \div d \in Nat /\ d * (n \div d) <= n /\ n < d * (n \div d) + d
  OBVIOUS

\* The pages before a page are no longer than those before a later one.
LEMMA Times ==
  ASSUME NEW a \in Nat, NEW b \in Nat, NEW d \in Nat, a <= b
  PROVE  a * d <= b * d /\ a * d \in Nat /\ d * a = a * d /\ (a + 1) * d = a * d + d
  OBVIOUS

\* As many pages as the items fill, and one for no items.
LEMMA Pages ==
  ASSUME NEW S, NEW items \in Seq(S), NEW size \in Nat \ {0}
  PROVE  /\ pageCount(items, size) \in Nat \ {0}
         /\ items # <<>> => (pageCount(items, size) - 1) * size < Len(items)
         /\ Len(items) <= pageCount(items, size) * size
<1> DEFINE L == Len(items)
           q == (L + size - 1) \div size
<1>1. L \in Nat /\ (items = <<>> <=> L = 0)
  OBVIOUS
<1>2. q \in Nat /\ size * q <= L + size - 1 /\ L + size - 1 < size * q + size
  BY <1>1, Quotient
<1> HIDE DEF L
<1> HIDE DEF q
<1>3. size * q = q * size
  BY <1>2, Times
<1>4. q * size < L + size /\ L <= q * size
  BY <1>1, <1>2, <1>3, Times
<1>5. CASE L = 0
  <2>1. q = 0
    <3>1. q # 0 => 1 * size <= q * size
      BY <1>2, Times
    <3> QED
      BY <1>2, <1>4, <1>5, <3>1
  <2>2. pageCount(items, size) = 1
    BY <1>5, <2>1 DEF pageCount, Clamp, q, L
  <2> QED
    BY <1>1, <1>5, <2>2 DEF L
<1>6. CASE L # 0
  <2>1. q >= 1
    <3>1. q = 0 => q * size = 0
      BY <1>2
    <3> QED
      BY <1>1, <1>2, <1>4, <1>6, <3>1
  <2>2. q <= L
    <3>1. L * size >= L
      BY <1>1, Times
    <3>2. q >= L + 1 => (L + 1) * size <= q * size
      BY <1>1, <1>2, Times
    <3>3. (L + 1) * size = L * size + size
      BY <1>1, Times
    <3> QED
      BY <1>1, <1>2, <1>4, <3>1, <3>2, <3>3
  <2>3. pageCount(items, size) = q
    <3>1. pageCount(items, size) = Clamp(q, 1, L + 1)
      BY DEF pageCount, q, L
    <3> QED
      BY <1>1, <1>2, <2>1, <2>2, <3>1 DEF Clamp
  <2>4. (q - 1) * size + size = q * size
    BY <1>2, <2>1, Times
  <2> QED
    BY <1>1, <1>2, <1>4, <2>1, <2>3, <2>4, Times DEF L
<1> QED
  BY <1>5, <1>6

\* Whatever page is asked for, the one that is shown is in range, is empty only
\* if there is nothing to show, is no longer than a page, and shows the items
\* from its place on: a page that was asked for before the list shrank too.
THEOREM PagesAreInRange ==
  ASSUME NEW S, NEW items \in Seq(S), NEW size \in Nat \ {0}, NEW requested \in Int
  PROVE  LET shown == page(items, requested, size) IN
         /\ shown.index \in 0..(pageCount(items, size) - 1)
         /\ requested \in 0..(pageCount(items, size) - 1) => shown.index = requested
         /\ shown.items \in Seq(S) /\ Len(shown.items) <= size
         /\ items # <<>> => shown.items # <<>>
         /\ \A n \in 1..Len(shown.items) : shown.items[n] = items[shown.index * size + n]
<1> DEFINE L == Len(items)
           c == pageCount(items, size)
           k == Clamp(requested, 0, c - 1)
           last == Clamp((k + 1) * size, 0, L)
<1>1. /\ c \in Nat \ {0} /\ (items # <<>> => (c - 1) * size < L) /\ L <= c * size
      /\ L \in Nat /\ (items # <<>> => L > 0)
  BY Pages
<1>2. page(items, requested, size) =
        [index |-> k, items |-> SubSeq(items, k * size + 1, last),
         from |-> IF items = <<>> THEN 0 ELSE k * size + 1, to |-> last]
  BY DEF page
<1> HIDE DEF c
<1>3. k \in Nat /\ k <= c - 1 /\ (requested \in 0..(c - 1) => k = requested)
  BY <1>1 DEF Clamp
<1> HIDE DEF k
<1>4. k * size \in Nat /\ k * size <= (c - 1) * size /\ (k + 1) * size = k * size + size
  BY <1>1, <1>3, Times
<1>5. last \in Nat /\ last <= L /\ last <= k * size + size
  BY <1>1, <1>4 DEF Clamp
<1>6. items # <<>> => last >= k * size + 1
  BY <1>1, <1>4 DEF Clamp
<1> HIDE DEF last
<1>7. SubSeq(items, k * size + 1, last) =
        [n \in 1..(last - k * size) |-> items[k * size + n]]
  BY <1>1, <1>4, <1>5
<1>8. last - k * size \in Nat /\ last - k * size <= size
  <2>1. items = <<>> => c = 1
    BY DEF c, pageCount, Clamp
  <2>2. items = <<>> => k = 0
    BY <1>3, <2>1
  <2> QED
    BY <1>4, <1>5, <1>6, <2>2
<1> DEFINE shown == SubSeq(items, k * size + 1, last)
<1>9. shown \in Seq(S) /\ Len(shown) = last - k * size
  BY <1>1, <1>4, <1>5, <1>7, <1>8
<1>10. \A n \in 1..Len(shown) : shown[n] = items[k * size + n]
  BY <1>7, <1>9
<1> DEFINE from == IF items = <<>> THEN 0 ELSE k * size + 1
<1>11. page(items, requested, size) = [index |-> k, items |-> shown, from |-> from, to |-> last]
  BY <1>2, Zenon
<1> HIDE DEF shown, from
<1>12. page(items, requested, size).index = k /\ page(items, requested, size).items = shown
  BY <1>11
<1>14. items # <<>> => shown # <<>>
  <2>1. items # <<>> => Len(shown) # 0
    BY <1>4, <1>5, <1>6, <1>9
  <2> QED
    BY <2>1
<1>13. k \in 0..(c - 1)
  BY <1>1, <1>3
<1> QED
  BY <1>3, <1>8, <1>9, <1>10, <1>12, <1>13, <1>14 DEF c

\* A page reaches to its end or to the last item.
LEMMA PageReaches ==
  ASSUME NEW S, NEW items \in Seq(S), NEW size \in Nat \ {0},
         NEW n \in 0..(pageCount(items, size) - 1),
         NEW m \in 1..size, n * size + m <= Len(items)
  PROVE  m <= Len(page(items, n, size).items)
<1> DEFINE L == Len(items)
           c == pageCount(items, size)
           k == Clamp(n, 0, c - 1)
           last == Clamp((k + 1) * size, 0, L)
           shown == SubSeq(items, k * size + 1, last)
           from == IF items = <<>> THEN 0 ELSE k * size + 1
<1>1. page(items, n, size) = [index |-> k, items |-> shown, from |-> from, to |-> last]
  BY Zenon DEF page
<1>2. c \in Nat \ {0} /\ n \in Nat /\ n <= c - 1 /\ L \in Nat
  BY Pages
<1> HIDE DEF c
<1>3. k = n
  BY <1>2 DEF Clamp
<1> HIDE DEF k
<1>4. n * size \in Nat /\ (n + 1) * size = n * size + size
  BY <1>2, Times
<1>5. last \in Nat /\ last <= L /\ last >= n * size + m
  BY <1>2, <1>3, <1>4 DEF Clamp
<1> HIDE DEF last
<1>6. Len(shown) = last - n * size
  BY <1>2, <1>3, <1>4, <1>5
<1> HIDE DEF shown, from
<1>7. page(items, n, size).items = shown
  BY <1>1
<1> QED
  BY <1>4, <1>5, <1>6, <1>7

\* Every item has a page, and its place on it: reading the pages one after the
\* other passes over nothing.
THEOREM EveryItemHasAPage ==
  ASSUME NEW S, NEW items \in Seq(S), NEW size \in Nat \ {0}, NEW i \in 1..Len(items)
  PROVE  \E n \in 0..(pageCount(items, size) - 1) :
           \E place \in 1..Len(page(items, n, size).items) :
               i = n * size + place /\ page(items, n, size).items[place] = items[i]
<1> DEFINE n == (i - 1) \div size
           place == i - n * size
           c == pageCount(items, size)
           shown == page(items, n, size)
<1>1. n \in Nat /\ size * n <= i - 1 /\ i - 1 < size * n + size
  BY Quotient
<1>2. c \in Nat \ {0} /\ Len(items) <= c * size /\ Len(items) \in Nat
  BY Pages
<1> HIDE DEF n, c
<1>3. size * n = n * size
  BY <1>1, Times
<1>4. n <= c - 1
  <2>1. n >= c => c * size <= n * size
    BY <1>1, <1>2, Times
  <2> QED
    BY <1>1, <1>2, <1>3, <2>1
<1>5. place \in 1..size /\ i = n * size + place
  BY <1>1, <1>3
<1>6. /\ shown.index = n /\ shown.items \in Seq(S)
      /\ \A m \in 1..Len(shown.items) : shown.items[m] = items[n * size + m]
  BY <1>1, <1>2, <1>4, PagesAreInRange DEF c
<1>7. place <= Len(shown.items)
  <2>1. n \in 0..(pageCount(items, size) - 1) /\ n * size + place <= Len(items)
    BY <1>1, <1>2, <1>4, <1>5 DEF c
  <2> HIDE DEF place
  <2> QED
    BY <1>5, <2>1, PageReaches
<1> HIDE DEF place, shown
<1>8. place \in 1..Len(shown.items) /\ shown.items[place] = items[i]
  BY <1>5, <1>6, <1>7
<1> QED
  BY <1>1, <1>2, <1>4, <1>5, <1>8 DEF shown, c

================================================================================
