------------------------------- MODULE Extension -------------------------------
(***************************************************************************)
(* The browser extension: the sidebar and content script of one tab        *)
(* (sidebar.ts, content.ts), the service worker that speaks to the server  *)
(* for them (background.ts), and the registration of the worker's device   *)
(* at the server (auth.ts).                                                *)
(*                                                                         *)
(* The browser may stop the worker at any time; it loses its memory and    *)
(* what it waits for, while the server goes on.  Answers arrive in any     *)
(* order, late, or never.  What the server makes of a request is left to   *)
(* Conversations: here it refuses a request or grants it.                  *)
(***************************************************************************)
EXTENDS Naturals, FiniteSets

CONSTANTS
    Request,      \* requestId
    Device,       \* generateDeviceId
    None,
    MaxRestarts   \* bound: stops of the worker

ASSUME NoneIsNone == None \notin Request /\ None \notin Device
ASSUME RestartsAreNatural == MaxRestarts \in Nat

VARIABLES
    sidebar,    \* what the user sees
    pending,    \* content.ts: pendingRequestId
    cancelled,  \* content.ts: cancelledRequestIds
    timer,      \* content.ts: the question whose hard timeout is armed
    req,        \* each request and where it is
    worker,     \* the worker's memory
    stored,     \* chrome.storage.local: deviceId
    users,      \* server: the devices that have a user
    threads,    \* server: the number of subthreads
    fresh       \* the device ids that were not generated yet

tab == <<sidebar, pending, cancelled, timer>>
device == <<worker, stored, fresh>>
server == <<users, threads>>
vars == <<tab, req, device, server>>

NoThread == 0

Ops == {"create", "continue", "pin", "apply"}

\* stopped: the user stopped it, whether the code noted it or not.  orphan:
\* the worker that sent it is gone.
Unused == [phase |-> "unused", op |-> "create", thread |-> NoThread, device |-> None,
           ok |-> FALSE, stopped |-> FALSE, orphan |-> FALSE]

At(r, phase) == req[r].phase = phase

-----------------------------------------------------------------------------
(* The sidebar *)

\* asked: what the user waits for, the request that the sidebar was last set
\* loading for.  The code keeps no such thing; no guard reads it.
Empty == [loading |-> FALSE, error |-> FALSE, asked |-> None, thread |-> NoThread,
          shown |-> {}]

ShowLoading(s, r) == [s EXCEPT !.loading = TRUE, !.error = FALSE, !.asked = r]
ShowError(s) == [s EXCEPT !.loading = FALSE, !.error = TRUE, !.asked = None]

\* openSidebar after a selection or a click: resetSidebar.  What is pending
\* stays so.
Select ==
    /\ sidebar' = Empty
    /\ UNCHANGED <<pending, cancelled, timer, req, device, server>>

\* Mutant of TimerFor: the timeout of an earlier question is left running.
TimerForFirst(r) == IF timer = None THEN r ELSE timer

\* submitQuestion: the hard timeout is armed anew for each question.
TimerFor(r) == r

\* handleSend: a first question goes through submitQuestion and is pending.
AskFirst(r) ==
    /\ At(r, "unused")
    /\ sidebar.thread = NoThread
    /\ sidebar' = ShowLoading(sidebar, r)
    /\ pending' = r
    /\ timer' = TimerFor(r)
    /\ req' = [req EXCEPT ![r].phase = "sent"]
    /\ UNCHANGED <<cancelled, device, server>>

\* A further question of a subthread goes to the worker at once.
AskMore(r) ==
    /\ At(r, "unused")
    /\ sidebar.thread # NoThread
    /\ sidebar' = ShowLoading(sidebar, r)
    /\ req' = [req EXCEPT ![r].phase = "sent", ![r].op = "continue",
                          ![r].thread = sidebar.thread]
    /\ UNCHANGED <<pending, cancelled, timer, device, server>>

Pin(r) ==
    /\ At(r, "unused")
    /\ sidebar.thread # NoThread
    /\ req' = [req EXCEPT ![r].phase = "sent", ![r].op = "pin",
                          ![r].thread = sidebar.thread]
    /\ UNCHANGED <<tab, device, server>>

\* Apply Snapshot, from the history button.
Apply(r) ==
    /\ At(r, "unused")
    /\ sidebar' = ShowLoading(sidebar, r)
    /\ req' = [req EXCEPT ![r].phase = "sent", ![r].op = "apply"]
    /\ UNCHANGED <<pending, cancelled, timer, device, server>>

ClearPending ==
    /\ pending' = None
    /\ timer' = None

\* Mutant of CancelledByStop: pending is cleared before it is noted.
CancelledByStopTooLate == cancelled

CancelledByStop == IF pending = None THEN cancelled ELSE cancelled \cup {pending}

\* st-cancel-pending, from the stop button, which is there while loading: the
\* user is told that what is waited for was stopped, but only what is pending
\* is noted.  The sidebar goes on showing that it loads.
Stop ==
    /\ sidebar.loading
    /\ cancelled' = CancelledByStop
    /\ req' = [r \in Request |-> IF r \in {pending, sidebar.asked}
                                 THEN [req[r] EXCEPT !.stopped = TRUE] ELSE req[r]]
    /\ sidebar' = [sidebar EXCEPT !.asked = None]
    /\ ClearPending
    /\ UNCHANGED <<device, server>>

HardTimeout ==
    /\ timer # None
    /\ IF pending = timer
       THEN /\ sidebar' = ShowError(sidebar)
            /\ ClearPending
       ELSE /\ timer' = None
            /\ UNCHANGED <<sidebar, pending>>
    /\ UNCHANGED <<cancelled, req, device, server>>

\* The message to the worker fails.  Nobody looks at the error of a further
\* question; that of a first one clears whatever is pending.
SendFails(r) ==
    /\ At(r, "sent")
    /\ req' = [req EXCEPT ![r].phase = "done"]
    /\ sidebar' = IF req[r].op = "continue" THEN sidebar ELSE ShowError(sidebar)
    /\ IF req[r].op = "create" THEN ClearPending ELSE UNCHANGED <<pending, timer>>
    /\ UNCHANGED <<cancelled, device, server>>

-----------------------------------------------------------------------------
(* The worker and its device id *)

\* What a worker starts with: loadSettings has asked the storage already.
\* reading is what the storage answers init, ensuring what it answers
\* ensureDeviceReady; Idle when nothing is asked.
Idle == "idle"

ASSUME IdleIsNoAnswer == Idle \notin Device \cup {None}

\* The storage failed: an id may not be stored.  restarts is only counted.
Started(restarts, unsaved) ==
    [device |-> None, reading |-> stored, ensuring |-> Idle, unsaved |-> unsaved,
     restarts |-> restarts]

Restart ==
    /\ worker.restarts < MaxRestarts
    /\ worker' = Started(worker.restarts + 1, worker.unsaved)
    /\ req' = [r \in Request |->
                 IF req[r].phase \in {"held", "ready"} THEN [req[r] EXCEPT !.phase = "done"]
                 ELSE IF req[r].phase \in {"arrived", "unknown", "known", "answered"}
                      THEN [req[r] EXCEPT !.orphan = TRUE]
                 ELSE req[r]]
    /\ UNCHANGED <<tab, stored, fresh, server>>

\* Mutant of Remember: an id that is there already is kept, the other stored.
RememberFirst(d) == IF worker.device = None THEN d ELSE worker.device

\* Two loads may both find nothing and generate an id each: the later one is
\* remembered, and stored.
Remember(d) == d

\* The part of loadSettings and of ensureDeviceReady after their read.
UseStored(field) ==
    /\ worker[field] \in Device
    /\ worker' = [worker EXCEPT ![field] = Idle, !.device = worker[field]]
    /\ UNCHANGED <<stored, fresh>>

Generate(field) ==
    /\ worker[field] = None
    /\ \E d \in fresh :
          /\ worker' = [worker EXCEPT ![field] = Idle, !.device = Remember(d)]
          /\ stored' = d
          /\ fresh' = fresh \ {d}

\* The catch of loadSettings: the new id is not stored.
LoadFails ==
    /\ worker.reading # Idle
    /\ \E d \in fresh :
          /\ worker' = [worker EXCEPT !.reading = Idle, !.device = d, !.unsaved = TRUE]
          /\ fresh' = fresh \ {d}
    /\ UNCHANGED stored

\* The catch of ensureDeviceReady: an id is only generated if there is none,
\* and whichever it is, storing it is tried once more.
EnsureFails ==
    /\ worker.ensuring # Idle
    /\ \E d \in IF worker.device = None THEN fresh ELSE {worker.device} :
          /\ worker' = [worker EXCEPT !.ensuring = Idle, !.device = d, !.unsaved = TRUE]
          /\ fresh' = fresh \ {d}
          /\ stored' \in {stored, d}

Load ==
    /\ \/ \E field \in {"reading", "ensuring"} : UseStored(field) \/ Generate(field)
       \/ LoadFails
       \/ EnsureFails
    /\ UNCHANGED <<tab, req, server>>

\* A message reaches its handler, which begins with ensureDeviceReady.
Receive(r) ==
    /\ At(r, "sent")
    /\ IF worker.device # None
       THEN /\ req' = [req EXCEPT ![r].phase = "ready"]
            /\ UNCHANGED worker
       ELSE /\ req' = [req EXCEPT ![r].phase = "held"]
            /\ worker' = [worker EXCEPT !.ensuring = IF @ = Idle THEN stored ELSE @]
    /\ UNCHANGED <<tab, stored, fresh, server>>

\* The request goes to the server under the device id of this moment.
Fetch(r) ==
    /\ At(r, "ready") \/ (At(r, "held") /\ worker.ensuring = Idle)
    /\ req' = [req EXCEPT ![r].phase = "arrived", ![r].device = worker.device]
    /\ UNCHANGED <<tab, device, server>>

-----------------------------------------------------------------------------
(* The server *)

\* autoRegister: look the user of the device up, and create it if there was none.
FindUser(r) ==
    /\ At(r, "arrived")
    /\ req' = [req EXCEPT ![r].phase = IF req[r].device \in users THEN "known"
                                       ELSE "unknown"]
    /\ UNCHANGED <<tab, device, server>>

\* deviceId is unique: of two that create the user one is refused.
CreateUser(r) ==
    /\ At(r, "unknown")
    /\ users' = users \cup {req[r].device}
    /\ req' = [req EXCEPT ![r].phase = IF req[r].device \in users THEN "answered"
                                       ELSE "known"]
    /\ UNCHANGED <<tab, device, threads>>

\* The server refuses, or does what was asked; the subthread of a first
\* question is new.
Serve(r) ==
    /\ At(r, "known")
    /\ \/ /\ req' = [req EXCEPT ![r].phase = "answered"]
          /\ UNCHANGED threads
       \/ /\ req[r].op # "create"
          /\ req' = [req EXCEPT ![r].phase = "answered", ![r].ok = TRUE]
          /\ UNCHANGED threads
       \/ /\ req[r].op = "create"
          /\ threads' = threads + 1
          /\ req' = [req EXCEPT ![r].phase = "answered", ![r].ok = TRUE,
                                ![r].thread = threads + 1]
    /\ UNCHANGED <<tab, device, users>>

-----------------------------------------------------------------------------
(* Answers *)

IsQuestion(r) == req[r].op \in {"create", "continue"}

\* Mutant of ThreadAfter: the subthread that is there already is kept.
ThreadAfterKept(r) ==
    IF sidebar.thread # NoThread THEN sidebar.thread
    ELSE IF req[r].op = "create" THEN req[r].thread ELSE NoThread

\* handleSubthreadResponse: only the answer to a first question has the id
\* of its subthread.
ThreadAfter(r) == IF req[r].op = "create" THEN req[r].thread ELSE sidebar.thread

\* Questions are answered with messages that replace those on display,
\* applied snapshots with a reply that is added to them.
Display(r) ==
    sidebar' = [Empty EXCEPT !.thread = ThreadAfter(r),
                             !.shown = IF IsQuestion(r) THEN {r} ELSE sidebar.shown \cup {r}]

\* SUBTHREAD_RESPONSE, SUBTHREAD_ERROR.
HandleQuestion(r, ok) ==
    IF r \in cancelled
    THEN /\ cancelled' = cancelled \ {r}
         /\ UNCHANGED <<sidebar, pending, timer>>
    ELSE IF pending \notin {None, r}
    THEN UNCHANGED tab
    ELSE /\ IF ok THEN Display(r) ELSE sidebar' = ShowError(sidebar)
         /\ ClearPending
         /\ UNCHANGED cancelled

\* PIN_SNAPSHOT_RESPONSE, APPLY_SNAPSHOT_RESULT and their errors.
HandleOther(r, ok) ==
    /\ IF ~ok THEN sidebar' = ShowError(sidebar)
       ELSE IF req[r].op = "apply" THEN Display(r)
       ELSE UNCHANGED sidebar
    /\ UNCHANGED <<pending, cancelled, timer>>

Handle(r, ok) == IF IsQuestion(r) THEN HandleQuestion(r, ok) ELSE HandleOther(r, ok)

\* The worker has the server's answer and sends it to the tab.
Pass(r) ==
    /\ At(r, "answered") /\ ~req[r].orphan
    /\ req' = [req EXCEPT ![r].phase = "done"]
    /\ UNCHANGED <<device, server>>

DeliverQuestion(r) ==
    /\ IsQuestion(r)
    /\ Pass(r)
    /\ HandleQuestion(r, req[r].ok)

DeliverOther(r) ==
    /\ ~IsQuestion(r)
    /\ Pass(r)
    /\ HandleOther(r, req[r].ok)

\* fetch throws, although the server may have the request.
NetworkFails(r) ==
    /\ req[r].phase \in {"arrived", "unknown", "known", "answered"} /\ ~req[r].orphan
    /\ Handle(r, FALSE)
    /\ req' = [req EXCEPT ![r].orphan = TRUE]
    /\ UNCHANGED <<device, server>>

\* The worker that asked is gone, or sendToTab fails, which is only logged.
Lose(r) ==
    /\ At(r, "answered")
    /\ req' = [req EXCEPT ![r].phase = "done"]
    /\ UNCHANGED <<tab, device, server>>

-----------------------------------------------------------------------------

Init ==
    /\ sidebar = Empty
    /\ pending = None
    /\ cancelled = {}
    /\ timer = None
    /\ req = [r \in Request |-> Unused]
    /\ stored = None
    /\ worker = Started(0, FALSE)
    /\ users = {}
    /\ threads = 0
    /\ fresh = Device

Next ==
    \/ Select \/ Stop \/ HardTimeout \/ Restart \/ Load
    \/ \E r \in Request :
          \/ AskFirst(r) \/ AskMore(r) \/ Pin(r) \/ Apply(r) \/ SendFails(r)
          \/ Receive(r) \/ Fetch(r) \/ FindUser(r) \/ CreateUser(r) \/ Serve(r)
          \/ DeliverQuestion(r) \/ DeliverOther(r) \/ NetworkFails(r) \/ Lose(r)

\* window.setTimeout fires; nothing else is promised.
Spec == Init /\ [][Next]_vars /\ WF_vars(HardTimeout)

-----------------------------------------------------------------------------
(* Properties *)

\* The answer to a first question that the user stopped is not displayed,
\* however late it comes and whatever was asked or timed out meanwhile.  Only a
\* first question is ever pending: a further question, or an applied snapshot,
\* is told as stopped and displayed all the same.
StoppedIsNeverShown ==
    \A r \in Request :
        req[r].stopped /\ req[r].op = "create" => r \notin sidebar.shown

\* While the answer to a first question is on display, the next question is
\* asked in the subthread of that answer: stale, stopped and timed out
\* answers do not leave their subthread behind.  The answer to a further
\* question brings no subthread: when it comes after a new selection, it is on
\* display with none or another's.
ShownIsContinued ==
    \A r \in sidebar.shown :
        req[r].op = "create" => sidebar.thread = req[r].thread

\* When the loads of the device id have ended, the worker uses the id that
\* it will find when it is started again, although two loads may have raced,
\* unless the storage failed.
DeviceIsStored ==
    worker.reading = Idle /\ worker.ensuring = Idle /\ ~worker.unsaved
        => worker.device = stored /\ stored # None

\* A question does not stay pending for ever, also when its answer, the
\* worker or the message to the worker is lost.
QuestionsEnd ==
    \A r \in Request : pending = r ~> pending # r
=============================================================================
