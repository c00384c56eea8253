---------------------------- MODULE ExtensionProofs ----------------------------
(***************************************************************************)
(* The safety properties of Extension for any number of requests, device   *)
(* ids and stops of the worker.  The point of the argument: an answer ends  *)
(* its request for the tab, since the worker passes it on once and a failed *)
(* or orphaned fetch has no other; and a worker that knows no device id is  *)
(* still waiting for the answer of the storage.                            *)
(***************************************************************************)
EXTENDS Extension, TLAPS

Phases == {"unused", "sent", "held", "ready", "arrived", "unknown", "known",
           "answered", "done"}

RequestRecord ==
    [phase: Phases, op: Ops, thread: Nat, device: Device \cup {None},
     ok: BOOLEAN, stopped: BOOLEAN, orphan: BOOLEAN]

Answer == Device \cup {None, Idle}

SidebarRecord ==
    [loading: BOOLEAN, error: BOOLEAN, asked: Request \cup {None}, thread: Nat,
     shown: SUBSET Request]

WorkerRecord ==
    [device: Device \cup {None}, reading: Answer, ensuring: Answer,
     unsaved: BOOLEAN, restarts: Nat]

TabType ==
    /\ sidebar \in SidebarRecord
    /\ pending \in Request \cup {None}
    /\ cancelled \in SUBSET Request
    /\ timer \in Request \cup {None}

RequestType == req \in [Request -> RequestRecord]

DeviceType ==
    /\ worker \in WorkerRecord
    /\ stored \in Device \cup {None}
    /\ fresh \in SUBSET Device

ServerType ==
    /\ users \in SUBSET (Device \cup {None})
    /\ threads \in Nat

TypeOK == TabType /\ RequestType /\ DeviceType /\ ServerType

\* The answers that are on display were all passed on.
ShownAreDone == \A r \in sidebar.shown : req[r].phase = "done"

\* Only a first question is pending, and its answer is not on display.
PendingIsAsked ==
    pending # None =>
        /\ req[pending].op = "create"
        /\ req[pending].phase # "unused"
        /\ pending \notin sidebar.shown

\* A first question that the user waits for is pending.
AskedIsPending ==
    sidebar.asked # None =>
        /\ req[sidebar.asked].phase # "unused"
        /\ req[sidebar.asked].op = "create" => pending = sidebar.asked

\* The answer to a first question that was stopped is noted as cancelled until
\* it comes, and there is no other after it.
StoppedHasNoAnswer ==
    \A r \in Request : req[r].stopped /\ req[r].op = "create" =>
        /\ req[r].phase # "unused"
        /\ r \notin sidebar.shown
        /\ r \in cancelled \/ req[r].phase = "done" \/ req[r].orphan

\* Nothing is known of a request before it is made.
UnusedIsFresh == \A r \in Request : req[r].phase = "unused" => req[r] = Unused

\* What the tab relies on.
TabInv ==
    /\ ShownAreDone
    /\ PendingIsAsked
    /\ AskedIsPending
    /\ StoppedHasNoAnswer
    /\ UnusedIsFresh
    /\ ShownIsContinued

\* Unless the storage failed: the id of the worker is the stored one, and until
\* it has one the first read is under way; what a read brings is stored still,
\* or there was nothing to find, and two reads find the same.
WorkerInv ==
    ~worker.unsaved =>
        /\ worker.device # None => worker.device = stored
        /\ worker.device = None => worker.reading = stored
        /\ Idle \in {worker.reading, worker.ensuring} \/ worker.reading = worker.ensuring
        /\ \A field \in {"reading", "ensuring"} :
              worker[field] \in {Idle, stored} \/ (worker[field] = None /\ worker.device # None)

-----------------------------------------------------------------------------
(* Types *)

\* What an update of one field makes of a request.
LEMMA RequestUpdates ==
    ASSUME NEW q \in RequestRecord
    PROVE  /\ q.phase \in Phases /\ q.op \in Ops /\ q.thread \in Nat
           /\ q.device \in Device \cup {None}
           /\ q.ok \in BOOLEAN /\ q.stopped \in BOOLEAN /\ q.orphan \in BOOLEAN
           /\ \A x \in Phases : [q EXCEPT !.phase = x] \in RequestRecord
           /\ \A x \in Ops : [q EXCEPT !.op = x] \in RequestRecord
           /\ \A x \in Nat : [q EXCEPT !.thread = x] \in RequestRecord
           /\ \A x \in Device \cup {None} : [q EXCEPT !.device = x] \in RequestRecord
           /\ [q EXCEPT !.ok = TRUE] \in RequestRecord
           /\ [q EXCEPT !.stopped = TRUE] \in RequestRecord
           /\ [q EXCEPT !.orphan = TRUE] \in RequestRecord
BY DEF RequestRecord

\* What the sidebar becomes is a sidebar.
LEMMA SidebarUpdates ==
    ASSUME NEW s \in SidebarRecord
    PROVE  /\ \A r \in Request : ShowLoading(s, r) \in SidebarRecord
           /\ ShowError(s) \in SidebarRecord
           /\ s.thread \in Nat
           /\ s.shown \in SUBSET Request
           /\ s.asked \in Request \cup {None}
           /\ [s EXCEPT !.asked = None] \in SidebarRecord
           /\ Empty \in SidebarRecord
BY DEF SidebarRecord, ShowLoading, ShowError, Empty, NoThread

LEMMA DisplayType ==
    ASSUME TabType, RequestType, NEW r \in Request, Display(r)
    PROVE  sidebar' \in SidebarRecord
<1>1. req[r].thread \in Nat /\ sidebar.thread \in Nat /\ sidebar.shown \in SUBSET Request
    BY RequestUpdates, SidebarUpdates DEF TabType, RequestType
<1> QED
    BY <1>1 DEF Display, ThreadAfter, SidebarRecord, Empty, NoThread

\* The types of the tab.
LEMMA TabTypePreserved == TypeOK /\ [Next]_vars => TabType'
<1> SUFFICES ASSUME TypeOK, [Next]_vars PROVE TabType'
    OBVIOUS
<1> USE NoneIsNone, SidebarUpdates, DisplayType
        DEF TypeOK, TabType, tab, server, device
<1>1. CASE Select
    BY <1>1 DEF Select
<1>2. CASE Stop
    BY <1>2 DEF Stop, CancelledByStop, ClearPending
<1>3. CASE HardTimeout
    BY <1>3 DEF HardTimeout, ClearPending
<1>4. CASE Restart
    BY <1>4 DEF Restart
<1>5. CASE Load
    BY <1>5 DEF Load
<1>6. ASSUME NEW r \in Request, AskFirst(r) PROVE TabType'
    BY <1>6 DEF AskFirst, TimerFor
<1>7. ASSUME NEW r \in Request, AskMore(r) PROVE TabType'
    BY <1>7 DEF AskMore
<1>8. ASSUME NEW r \in Request, Pin(r) PROVE TabType'
    BY <1>8 DEF Pin
<1>9. ASSUME NEW r \in Request, Apply(r) PROVE TabType'
    BY <1>9 DEF Apply
<1>10. ASSUME NEW r \in Request, SendFails(r) PROVE TabType'
    BY <1>10 DEF SendFails, ClearPending
<1>11. ASSUME NEW r \in Request, Receive(r) PROVE TabType'
    BY <1>11 DEF Receive
<1>12. ASSUME NEW r \in Request, Fetch(r) PROVE TabType'
    BY <1>12 DEF Fetch
<1>13. ASSUME NEW r \in Request, FindUser(r) PROVE TabType'
    BY <1>13 DEF FindUser
<1>14. ASSUME NEW r \in Request, CreateUser(r) PROVE TabType'
    BY <1>14 DEF CreateUser
<1>15. ASSUME NEW r \in Request, Serve(r) PROVE TabType'
    BY <1>15 DEF Serve
<1>16. ASSUME NEW r \in Request, DeliverQuestion(r) PROVE TabType'
    BY <1>16 DEF DeliverQuestion, Pass, HandleQuestion, ClearPending
<1>17. ASSUME NEW r \in Request, DeliverOther(r) PROVE TabType'
    BY <1>17 DEF DeliverOther, Pass, HandleOther
<1>18. ASSUME NEW r \in Request, NetworkFails(r) PROVE TabType'
    BY <1>18 DEF NetworkFails, Handle, HandleQuestion, HandleOther, ClearPending
<1>19. ASSUME NEW r \in Request, Lose(r) PROVE TabType'
    BY <1>19 DEF Lose
<1>20. CASE UNCHANGED vars
    BY <1>20 DEF vars
<1> QED
    BY <1>1, <1>2, <1>3, <1>4, <1>5, <1>6, <1>7, <1>8, <1>9, <1>10, <1>11, <1>12,
       <1>13, <1>14, <1>15, <1>16, <1>17, <1>18, <1>19, <1>20 DEF Next

\* The types of the requests.
LEMMA RequestTypePreserved == TypeOK /\ [Next]_vars => RequestType'
<1> SUFFICES ASSUME TypeOK, [Next]_vars PROVE RequestType'
    OBVIOUS
<1> USE RequestUpdates
        DEF TypeOK, RequestType, Phases, Ops
<1>1. CASE Select
    BY <1>1 DEF Select
<1>2. CASE Stop
    BY <1>2 DEF Stop
<1>3. CASE HardTimeout
    BY <1>3 DEF HardTimeout
<1>4. CASE Restart
    BY <1>4 DEF Restart
<1>5. CASE Load
    BY <1>5 DEF Load
<1>6. ASSUME NEW r \in Request, AskFirst(r) PROVE RequestType'
    BY <1>6 DEF AskFirst
<1>7. ASSUME NEW r \in Request, AskMore(r) PROVE RequestType'
    BY <1>7 DEF AskMore, TabType, SidebarRecord
<1>8. ASSUME NEW r \in Request, Pin(r) PROVE RequestType'
    BY <1>8 DEF Pin, TabType, SidebarRecord
<1>9. ASSUME NEW r \in Request, Apply(r) PROVE RequestType'
    BY <1>9 DEF Apply
<1>10. ASSUME NEW r \in Request, SendFails(r) PROVE RequestType'
    BY <1>10 DEF SendFails
<1>11. ASSUME NEW r \in Request, Receive(r) PROVE RequestType'
    <2>1. PICK x \in Phases : req' = [req EXCEPT ![r].phase = x]
        BY <1>11 DEF Receive
    <2>2. [req[r] EXCEPT !.phase = x] \in RequestRecord
        OBVIOUS
    <2> QED
        BY <2>1, <2>2
<1>12. ASSUME NEW r \in Request, Fetch(r) PROVE RequestType'
    BY <1>12 DEF Fetch, DeviceType, WorkerRecord
<1>13. ASSUME NEW r \in Request, FindUser(r) PROVE RequestType'
    BY <1>13 DEF FindUser
<1>14. ASSUME NEW r \in Request, CreateUser(r) PROVE RequestType'
    BY <1>14 DEF CreateUser
<1>15. ASSUME NEW r \in Request, Serve(r) PROVE RequestType'
    <2>1. \/ req' = [req EXCEPT ![r].phase = "answered"]
          \/ req' = [req EXCEPT ![r].phase = "answered", ![r].ok = TRUE]
          \/ req' = [req EXCEPT ![r].phase = "answered", ![r].ok = TRUE,
                                ![r].thread = threads + 1]
        BY <1>15 DEF Serve
    <2>2. threads + 1 \in Nat
        BY DEF ServerType
    <2>3. CASE req' = [req EXCEPT ![r].phase = "answered"]
        BY <2>3
    <2>4. CASE req' = [req EXCEPT ![r].phase = "answered", ![r].ok = TRUE]
        BY <2>4
    <2>5. CASE req' = [req EXCEPT ![r].phase = "answered", ![r].ok = TRUE,
                                  ![r].thread = threads + 1]
        BY <2>2, <2>5
    <2> QED
        BY <2>1, <2>3, <2>4, <2>5
<1>16. ASSUME NEW r \in Request, DeliverQuestion(r) PROVE RequestType'
    BY <1>16 DEF DeliverQuestion, Pass
<1>17. ASSUME NEW r \in Request, DeliverOther(r) PROVE RequestType'
    BY <1>17 DEF DeliverOther, Pass
<1>18. ASSUME NEW r \in Request, NetworkFails(r) PROVE RequestType'
    BY <1>18 DEF NetworkFails
<1>19. ASSUME NEW r \in Request, Lose(r) PROVE RequestType'
    BY <1>19 DEF Lose
<1>20. CASE UNCHANGED vars
    BY <1>20 DEF vars
<1> QED
    BY <1>1, <1>2, <1>3, <1>4, <1>5, <1>6, <1>7, <1>8, <1>9, <1>10, <1>11, <1>12,
       <1>13, <1>14, <1>15, <1>16, <1>17, <1>18, <1>19, <1>20 DEF Next

\* The types of the device id.
LEMMA DeviceTypePreserved == TypeOK /\ [Next]_vars => DeviceType'
<1> SUFFICES ASSUME TypeOK, [Next]_vars PROVE DeviceType'
    OBVIOUS
<1> USE RestartsAreNatural, NoneIsNone, IdleIsNoAnswer
        DEF TypeOK, DeviceType, WorkerRecord, Answer, device
<1>1. CASE Select
    BY <1>1 DEF Select
<1>2. CASE Stop
    BY <1>2 DEF Stop
<1>3. CASE HardTimeout
    BY <1>3 DEF HardTimeout
<1>4. CASE Restart
    BY <1>4 DEF Restart, Started
<1>5. CASE Load
    BY <1>5 DEF Load, UseStored, Generate, LoadFails, EnsureFails, Remember
<1>6. ASSUME NEW r \in Request, AskFirst(r) PROVE DeviceType'
    BY <1>6 DEF AskFirst
<1>7. ASSUME NEW r \in Request, AskMore(r) PROVE DeviceType'
    BY <1>7 DEF AskMore
<1>8. ASSUME NEW r \in Request, Pin(r) PROVE DeviceType'
    BY <1>8 DEF Pin
<1>9. ASSUME NEW r \in Request, Apply(r) PROVE DeviceType'
    BY <1>9 DEF Apply
<1>10. ASSUME NEW r \in Request, SendFails(r) PROVE DeviceType'
    BY <1>10 DEF SendFails
<1>11. ASSUME NEW r \in Request, Receive(r) PROVE DeviceType'
    BY <1>11 DEF Receive
<1>12. ASSUME NEW r \in Request, Fetch(r) PROVE DeviceType'
    BY <1>12 DEF Fetch
<1>13. ASSUME NEW r \in Request, FindUser(r) PROVE DeviceType'
    BY <1>13 DEF FindUser
<1>14. ASSUME NEW r \in Request, CreateUser(r) PROVE DeviceType'
    BY <1>14 DEF CreateUser
<1>15. ASSUME NEW r \in Request, Serve(r) PROVE DeviceType'
    BY <1>15 DEF Serve
<1>16. ASSUME NEW r \in Request, DeliverQuestion(r) PROVE DeviceType'
    BY <1>16 DEF DeliverQuestion, Pass
<1>17. ASSUME NEW r \in Request, DeliverOther(r) PROVE DeviceType'
    BY <1>17 DEF DeliverOther, Pass
<1>18. ASSUME NEW r \in Request, NetworkFails(r) PROVE DeviceType'
    BY <1>18 DEF NetworkFails
<1>19. ASSUME NEW r \in Request, Lose(r) PROVE DeviceType'
    BY <1>19 DEF Lose
<1>20. CASE UNCHANGED vars
    BY <1>20 DEF vars
<1> QED
    BY <1>1, <1>2, <1>3, <1>4, <1>5, <1>6, <1>7, <1>8, <1>9, <1>10, <1>11, <1>12,
       <1>13, <1>14, <1>15, <1>16, <1>17, <1>18, <1>19, <1>20 DEF Next

\* The types of the server.
LEMMA ServerTypePreserved == TypeOK /\ [Next]_vars => ServerType'
<1> SUFFICES ASSUME TypeOK, [Next]_vars PROVE ServerType'
    OBVIOUS
<1> USE RequestUpdates
        DEF TypeOK, RequestType, ServerType, server
<1>1. CASE Select
    BY <1>1 DEF Select
<1>2. CASE Stop
    BY <1>2 DEF Stop
<1>3. CASE HardTimeout
    BY <1>3 DEF HardTimeout
<1>4. CASE Restart
    BY <1>4 DEF Restart
<1>5. CASE Load
    BY <1>5 DEF Load
<1>6. ASSUME NEW r \in Request, AskFirst(r) PROVE ServerType'
    BY <1>6 DEF AskFirst
<1>7. ASSUME NEW r \in Request, AskMore(r) PROVE ServerType'
    BY <1>7 DEF AskMore
<1>8. ASSUME NEW r \in Request, Pin(r) PROVE ServerType'
    BY <1>8 DEF Pin
<1>9. ASSUME NEW r \in Request, Apply(r) PROVE ServerType'
    BY <1>9 DEF Apply
<1>10. ASSUME NEW r \in Request, SendFails(r) PROVE ServerType'
    BY <1>10 DEF SendFails
<1>11. ASSUME NEW r \in Request, Receive(r) PROVE ServerType'
    BY <1>11 DEF Receive
<1>12. ASSUME NEW r \in Request, Fetch(r) PROVE ServerType'
    BY <1>12 DEF Fetch
<1>13. ASSUME NEW r \in Request, FindUser(r) PROVE ServerType'
    BY <1>13 DEF FindUser
<1>14. ASSUME NEW r \in Request, CreateUser(r) PROVE ServerType'
    BY <1>14 DEF CreateUser
<1>15. ASSUME NEW r \in Request, Serve(r) PROVE ServerType'
    BY <1>15 DEF Serve
<1>16. ASSUME NEW r \in Request, DeliverQuestion(r) PROVE ServerType'
    BY <1>16 DEF DeliverQuestion, Pass
<1>17. ASSUME NEW r \in Request, DeliverOther(r) PROVE ServerType'
    BY <1>17 DEF DeliverOther, Pass
<1>18. ASSUME NEW r \in Request, NetworkFails(r) PROVE ServerType'
    BY <1>18 DEF NetworkFails
<1>19. ASSUME NEW r \in Request, Lose(r) PROVE ServerType'
    BY <1>19 DEF Lose
<1>20. CASE UNCHANGED vars
    BY <1>20 DEF vars
<1> QED
    BY <1>1, <1>2, <1>3, <1>4, <1>5, <1>6, <1>7, <1>8, <1>9, <1>10, <1>11, <1>12,
       <1>13, <1>14, <1>15, <1>16, <1>17, <1>18, <1>19, <1>20 DEF Next

\* Every action keeps the types.
LEMMA TypePreserved == TypeOK /\ [Next]_vars => TypeOK'
BY TabTypePreserved, RequestTypePreserved, DeviceTypePreserved, ServerTypePreserved
   DEF TypeOK

-----------------------------------------------------------------------------
(* Questions and answers *)

\* Every action keeps what the tab relies on.
LEMMA TabInvPreserved == TypeOK /\ TabInv /\ [Next]_vars => TabInv'
<1> SUFFICES ASSUME TypeOK, TabInv, [Next]_vars PROVE TabInv'
    OBVIOUS
<1> USE NoneIsNone
    DEF TypeOK, TabType, RequestType, SidebarRecord, RequestRecord, TabInv, ShownAreDone,
        PendingIsAsked, AskedIsPending, StoppedHasNoAnswer, UnusedIsFresh, ShownIsContinued,
        At, tab
<1>1. CASE Select
    BY <1>1 DEF Select, Empty, NoThread
<1>2. CASE Stop
    BY <1>2 DEF Stop, CancelledByStop, ClearPending
<1>3. CASE HardTimeout
    BY <1>3 DEF HardTimeout, ClearPending, ShowError
<1>4. CASE Restart
    BY <1>4 DEF Restart
<1>5. CASE Load
    BY <1>5 DEF Load
<1>6. ASSUME NEW r \in Request, AskFirst(r) PROVE TabInv'
    <2>1. /\ req[r] = Unused
          /\ req' = [req EXCEPT ![r].phase = "sent"]
          /\ sidebar' = [sidebar EXCEPT !.loading = TRUE, !.error = FALSE, !.asked = r]
          /\ pending' = r /\ cancelled' = cancelled
        BY <1>6 DEF AskFirst, ShowLoading
    <2>2. /\ req'[r].phase = "sent" /\ req'[r].op = "create" /\ ~req'[r].stopped
          /\ \A q \in Request \ {r} : req'[q] = req[q]
          /\ sidebar'.shown = sidebar.shown /\ sidebar'.thread = sidebar.thread
          /\ sidebar'.asked = r
        BY <2>1 DEF Unused
    <2>3. r \notin sidebar.shown
        BY <2>1 DEF Unused
    <2> QED
        BY <2>1, <2>2, <2>3
<1>7. ASSUME NEW r \in Request, AskMore(r) PROVE TabInv'
    BY <1>7 DEF AskMore, ShowLoading
<1>8. ASSUME NEW r \in Request, Pin(r) PROVE TabInv'
    BY <1>8 DEF Pin
<1>9. ASSUME NEW r \in Request, Apply(r) PROVE TabInv'
    BY <1>9 DEF Apply, ShowLoading
<1>10. ASSUME NEW r \in Request, SendFails(r) PROVE TabInv'
    BY <1>10 DEF SendFails, ClearPending, ShowError
<1>11. ASSUME NEW r \in Request, Receive(r) PROVE TabInv'
    BY <1>11 DEF Receive
<1>12. ASSUME NEW r \in Request, Fetch(r) PROVE TabInv'
    BY <1>12 DEF Fetch
<1>13. ASSUME NEW r \in Request, FindUser(r) PROVE TabInv'
    BY <1>13 DEF FindUser
<1>14. ASSUME NEW r \in Request, CreateUser(r) PROVE TabInv'
    BY <1>14 DEF CreateUser
<1>15. ASSUME NEW r \in Request, Serve(r) PROVE TabInv'
    <2>1. \/ req' = [req EXCEPT ![r].phase = "answered"]
          \/ req' = [req EXCEPT ![r].phase = "answered", ![r].ok = TRUE]
          \/ req' = [req EXCEPT ![r].phase = "answered", ![r].ok = TRUE,
                                ![r].thread = threads + 1]
        BY <1>15 DEF Serve
    <2>2. /\ req'[r].phase = "answered" /\ req'[r].op = req[r].op
          /\ req'[r].stopped = req[r].stopped /\ req'[r].orphan = req[r].orphan
          /\ \A q \in Request \ {r} : req'[q] = req[q]
        BY <2>1
    <2>3. UNCHANGED tab /\ req[r].phase = "known" /\ r \notin sidebar.shown
        BY <1>15 DEF Serve
    <2> QED
        BY <2>2, <2>3
<1>16. ASSUME NEW r \in Request, DeliverQuestion(r) PROVE TabInv'
    <2>1. /\ IsQuestion(r) /\ HandleQuestion(r, req[r].ok)
          /\ req[r].phase = "answered" /\ ~req[r].orphan
          /\ req' = [req EXCEPT ![r].phase = "done"]
        BY <1>16 DEF DeliverQuestion, Pass
    <2>2. r \notin sidebar.shown
        BY <2>1
    <2>3. CASE r \in cancelled
        BY <2>1, <2>2, <2>3 DEF HandleQuestion
    <2>4. CASE r \notin cancelled /\ pending \notin {None, r}
        BY <2>1, <2>2, <2>4 DEF HandleQuestion
    <2>5. CASE r \notin cancelled /\ pending \in {None, r} /\ ~req[r].ok
        <3>1. /\ sidebar' = [sidebar EXCEPT !.loading = FALSE, !.error = TRUE, !.asked = None]
              /\ pending' = None /\ cancelled' = cancelled
            BY <2>1, <2>5 DEF HandleQuestion, ClearPending, ShowError
        <3> QED
            BY <2>1, <2>2, <2>5, <3>1
    <2>6. CASE r \notin cancelled /\ pending \in {None, r} /\ req[r].ok
        <3>1. /\ sidebar'.shown = {r} /\ sidebar'.thread = ThreadAfter(r)
              /\ sidebar'.asked = None
              /\ pending' = None /\ cancelled' = cancelled
            BY <2>1, <2>6 DEF HandleQuestion, ClearPending, Display, Empty
        <3>2. ~(req[r].stopped /\ req[r].op = "create")
            BY <2>1, <2>6
        <3>3. req[r].op = "create" => sidebar'.thread = req[r].thread
            BY <3>1 DEF ThreadAfter
        <3>4. /\ req'[r].phase = "done" /\ req'[r].op = req[r].op
              /\ req'[r].stopped = req[r].stopped /\ req'[r].thread = req[r].thread
              /\ \A q \in Request \ {r} : req'[q] = req[q]
            BY <2>1
        <3> QED
            BY <3>1, <3>2, <3>3, <3>4
    <2> QED
        BY <2>3, <2>4, <2>5, <2>6
<1>17. ASSUME NEW r \in Request, DeliverOther(r) PROVE TabInv'
    <2>1. /\ req[r].op \notin {"create", "continue"}
          /\ req[r].phase = "answered"
          /\ req' = [req EXCEPT ![r].phase = "done"]
          /\ UNCHANGED <<pending, cancelled>>
        BY <1>17 DEF DeliverOther, IsQuestion, Pass, HandleOther
    <2>2. /\ sidebar'.thread = sidebar.thread
          /\ sidebar'.asked \in {sidebar.asked, None}
          /\ sidebar'.shown \in {sidebar.shown, sidebar.shown \cup {r}}
        <3>1. \/ sidebar' = [sidebar EXCEPT !.loading = FALSE, !.error = TRUE, !.asked = None]
              \/ Display(r)
              \/ UNCHANGED sidebar
            BY <1>17 DEF DeliverOther, HandleOther, ShowError
        <3> QED
            <4>1. CASE Display(r)
                BY <2>1, <4>1 DEF IsQuestion, Display, ThreadAfter, Empty
            <4>2. CASE ~Display(r)
                BY <3>1, <4>2
            <4> QED
                BY <4>1, <4>2
    <2>3. /\ req'[r].phase = "done" /\ req'[r].op = req[r].op
          /\ req'[r].stopped = req[r].stopped
          /\ \A q \in Request \ {r} : req'[q] = req[q]
        BY <2>1
    <2> QED
        BY <2>1, <2>2, <2>3
<1>18. ASSUME NEW r \in Request, NetworkFails(r) PROVE TabInv'
    <2>1. /\ req[r].phase \notin {"unused", "done"}
          /\ req' = [req EXCEPT ![r].orphan = TRUE]
        BY <1>18 DEF NetworkFails
    <2>2. /\ sidebar'.thread = sidebar.thread /\ sidebar'.shown = sidebar.shown
          /\ (sidebar'.asked = sidebar.asked /\ pending' = pending) \/ sidebar'.asked = None
          /\ pending' \in {pending, None}
          /\ cancelled' \in {cancelled, cancelled \ {r}}
        BY <1>18 DEF NetworkFails, Handle, HandleQuestion, HandleOther, ClearPending, ShowError
    <2>3. /\ req'[r].phase = req[r].phase /\ req'[r].op = req[r].op /\ req'[r].orphan
          /\ req'[r].stopped = req[r].stopped
          /\ \A q \in Request \ {r} : req'[q] = req[q]
        BY <2>1
    <2> QED
        BY <2>1, <2>2, <2>3
<1>19. ASSUME NEW r \in Request, Lose(r) PROVE TabInv'
    BY <1>19 DEF Lose
<1>20. CASE UNCHANGED vars
    BY <1>20 DEF vars
<1> QED
    BY <1>1, <1>2, <1>3, <1>4, <1>5, <1>6, <1>7, <1>8, <1>9, <1>10, <1>11, <1>12,
       <1>13, <1>14, <1>15, <1>16, <1>17, <1>18, <1>19, <1>20 DEF Next

\* Every action keeps what is known of the device id.
LEMMA WorkerInvPreserved == TypeOK /\ WorkerInv /\ [Next]_vars => WorkerInv'
<1> SUFFICES ASSUME TypeOK, WorkerInv, [Next]_vars PROVE WorkerInv'
    OBVIOUS
<1> USE NoneIsNone, IdleIsNoAnswer DEF TypeOK, DeviceType, WorkerRecord, Answer, WorkerInv
<1>1. CASE Restart
    BY <1>1 DEF Restart, Started
<1>2. CASE Load
    <2>1. ASSUME NEW field \in {"reading", "ensuring"}, UseStored(field)
          PROVE  WorkerInv'
        BY <2>1 DEF UseStored
    <2>2. ASSUME NEW field \in {"reading", "ensuring"}, Generate(field)
          PROVE  WorkerInv'
        <3>1. CASE field = "reading"
            BY <2>2, <3>1 DEF Generate, Remember
        <3>2. CASE field = "ensuring"
            BY <2>2, <3>2 DEF Generate, Remember
        <3> QED
            BY <3>1, <3>2
    <2>3. CASE LoadFails
        BY <2>3 DEF LoadFails
    <2>4. CASE EnsureFails
        BY <2>4 DEF EnsureFails
    <2> QED
        BY <1>2, <2>1, <2>2, <2>3, <2>4 DEF Load
<1>3. ASSUME NEW r \in Request, Receive(r) PROVE WorkerInv'
    BY <1>3 DEF Receive
<1>4. CASE ~Restart /\ ~Load /\ (\A r \in Request : ~Receive(r))
    <2>1. UNCHANGED device
        BY <1>4 DEF Next, vars, Select, Stop, HardTimeout, AskFirst, AskMore, Pin, Apply,
           SendFails, Fetch, FindUser, CreateUser, Serve, DeliverQuestion, DeliverOther,
           Pass, NetworkFails, Lose
    <2> QED
        BY <2>1 DEF device
<1> QED
    BY <1>1, <1>2, <1>3, <1>4

ExtensionInv == TypeOK /\ TabInv /\ WorkerInv

LEMMA InitExtensionInv == Init => ExtensionInv
BY NoneIsNone DEF Init, ExtensionInv, TypeOK, TabType, RequestType, DeviceType, ServerType,
   SidebarRecord, RequestRecord, WorkerRecord, Answer, Phases, Ops, Unused, NoThread,
   Started, Empty, TabInv, ShownAreDone, PendingIsAsked, AskedIsPending,
   StoppedHasNoAnswer, UnusedIsFresh, ShownIsContinued, WorkerInv

\* In every reachable state: the types, what the tab relies on, and what the
\* worker's id has to do with the stored one.
THEOREM ExtensionInvariant == Spec => []ExtensionInv
<1>1. ExtensionInv /\ [Next]_vars => ExtensionInv'
    BY TypePreserved, TabInvPreserved, WorkerInvPreserved DEF ExtensionInv
<1> QED
    BY <1>1, InitExtensionInv, PTL DEF Spec

\* The answer to a first question that the user stopped is never displayed.
THEOREM StoppedStaysHidden == Spec => []StoppedIsNeverShown
<1>1. ExtensionInv => StoppedIsNeverShown
    BY DEF ExtensionInv, TabInv, StoppedHasNoAnswer, StoppedIsNeverShown
<1> QED
    BY <1>1, ExtensionInvariant, PTL

\* The next question is asked in the subthread of the answer to a first
\* question that is on display.
THEOREM ShownStaysContinued == Spec => []ShownIsContinued
<1>1. ExtensionInv => ShownIsContinued
    BY DEF ExtensionInv, TabInv
<1> QED
    BY <1>1, ExtensionInvariant, PTL

\* A worker whose loads have ended uses the id that the next one will find.
THEOREM DeviceStaysStored == Spec => []DeviceIsStored
<1>1. ExtensionInv => DeviceIsStored
    BY NoneIsNone, IdleIsNoAnswer
       DEF ExtensionInv, TypeOK, DeviceType, WorkerRecord, WorkerInv, DeviceIsStored
<1> QED
    BY <1>1, ExtensionInvariant, PTL

=============================================================================
