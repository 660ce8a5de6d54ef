------------------------------ MODULE UiProofs ------------------------------
(***************************************************************************)
(* Proofs about Ui for any configurations, connections, keys and numbers   *)
(* of faults.  The invariant says what lies in the client's connection     *)
(* (ClientInv): one request or one reply, never both, and a reply no older *)
(* than the poll that waits for it; that the snapshot belongs to the       *)
(* configuration in force (DaemonInv); and which screen may hold which     *)
(* view (Coherent).                                                        *)
(***************************************************************************)
EXTENDS Ui, SequenceTheorems, TLAPS

AppType ==
    [screen : {"Overview", "Detail", "Trend"}, cursor : Int, detail_index : Int \cup {None},
     detail : Views \cup {None}, status : Statuses \cup {None}, error : BOOLEAN,
     help : BOOLEAN, trend : Trends \cup {None}]

Queries == [sel : Selections, latest : BOOLEAN]
Results == [sel : Selections, latest : BOOLEAN, ok : BOOLEAN]

TypeInv ==
    /\ daemon \in [up : BOOLEAN, cfg : Layouts, snap : Layouts \cup {None}, version : Nat]
    /\ conns \in [Conns -> Connections \cup {None}]
    /\ pc \in {"loop", "overview", "detail", "quit"}
    /\ client \in Conns \cup {None}
    /\ app \in AppType
    /\ inflight \subseteq Queries /\ results \subseteq Results
    /\ asked \in Nat \cup {None}

\* LIMITED counts stand beside the names they belong to.
RowsOK(s) ==
    \A i \in DOMAIN s.ranges : s.ranges[i].limited > 0 <=> s.ranges[i].name \in Hot

\* A snapshot is of the configuration in force.
DaemonInv ==
    /\ daemon.snap # None => daemon.snap = daemon.cfg /\ daemon.up
    /\ asked # None => asked <= daemon.version

\* What the UI shows fits its screen.
Coherent(a) ==
    /\ a.status # None => RowsOK(a.status)
    /\ a.detail # None => a.detail.index = a.detail_index /\ a.screen # "Overview"
    /\ a.detail_index # 0
    /\ a.screen = "Trend" => a.trend # None

\* A reply that the poll begun at version `since` may take for its own.
Answers(rep, since) ==
    /\ rep \in Statuses => RowsOK(rep)
    /\ rep \notin Errors => rep.version >= since

\* The client's connection while the UI is at `at`: one request or one reply.
ClientOK(c, at, since) ==
    /\ c # None /\ c.client
    /\ c.req # None => c.rep = None
    /\ c.srv = "sending" => c.rep # None
    /\ at = "loop" => c.req = None /\ c.rep = None
    /\ c.rep # None => Answers(c.rep, since)

ClientInv == client # None => ClientOK(conns[client], pc, asked)

PollInv ==
    /\ pc \in {"overview", "detail"} => client # None /\ asked # None
    /\ pc = "quit" => client = None
    /\ asked = None => app.status = None /\ app.detail = None
    /\ pc = "detail" =>
         /\ app.screen = "Detail" /\ app.status # None /\ app.status.version >= asked
         /\ app.detail_index = None => app.cursor # 0

IInv ==
    TypeInv /\ DaemonInv /\ Coherent(app) /\ ClientInv /\ PollInv /\ StaleIsFlagged

-----------------------------------------------------------------------------
(* handle_key and what surrounds it between two polls: the status and the   *)
(* error stay, and the detail stays or goes.                                *)

Keeps(a, b) ==
    /\ b \in AppType /\ Coherent(b)
    /\ b.status = a.status /\ b.error = a.error /\ b.detail \in {a.detail, None}

\* A key that does not poll does not lead to the detail screen.
KeyKeeps(a, r) ==
    Keeps(a, r.app) /\ (r.action # "Refresh" /\ r.app.screen = "Detail" => a.screen = "Detail")

LEMMA KeepsTransitive ==
    ASSUME NEW a, NEW b, NEW c, Keeps(a, b), Keeps(b, c)
    PROVE  Keeps(a, c)
BY DEF Keeps

LEMMA CursorMoveKeeps ==
    ASSUME NEW a \in AppType, Coherent(a), NEW n \in Int
    PROVE  Keeps(a, [a EXCEPT !.cursor = n]) /\ [a EXCEPT !.cursor = n].screen = a.screen
BY DEF Keeps, AppType, Coherent

LEMMA RowCountType == ASSUME NEW a \in AppType PROVE RowCount(a) \in Nat
BY DEF AppType, Statuses, RowCount

LEMMA DrawKeeps ==
    ASSUME NEW a \in AppType, Coherent(a)
    PROVE  Keeps(a, draw(a)) /\ draw(a).screen = a.screen
<1> DEFINE n == IF RowCount(a) = 0 THEN 0 ELSE Clamp(a.cursor, 1, RowCount(a))
<1>1. n \in Int BY RowCountType DEF AppType, Clamp
<1>2. draw(a) = IF a.screen # "Overview" \/ a.status = None THEN a
                ELSE [a EXCEPT !.cursor = n]
  BY DEF draw, AppType
<1>3. Keeps(a, a) BY DEF Keeps
<1> HIDE DEF n
<1> QED BY <1>1, <1>2, <1>3, CursorMoveKeeps

LEMMA MoveKeeps ==
    ASSUME NEW a \in AppType, Coherent(a), NEW delta \in Int
    PROVE  Keeps(a, move_selection(a, delta)) /\ move_selection(a, delta).screen = a.screen
<1> DEFINE n == IF RowCount(a) = 0 THEN 0
                ELSE Clamp((IF a.cursor = 0 THEN 1 ELSE a.cursor) + delta, 1, RowCount(a))
<1>1. n \in Int BY RowCountType DEF AppType, Clamp
<1>2. move_selection(a, delta) = [a EXCEPT !.cursor = n] BY DEF move_selection, AppType
<1> HIDE DEF n
<1> QED BY <1>1, <1>2, CursorMoveKeeps

LEMMA TrendChangeKeeps ==
    ASSUME NEW a \in AppType, Coherent(a), NEW t \in Trends
    PROVE  Keeps(a, [a EXCEPT !.trend = t]) /\ [a EXCEPT !.trend = t].screen = a.screen
<1>1. t # None BY NameAssumption
<1> QED BY <1>1 DEF Keeps, AppType, Coherent

LEMMA DrainKeeps ==
    ASSUME NEW a \in AppType, Coherent(a), results \subseteq Results
    PROVE  Keeps(a, DrainTrend(a)) /\ DrainTrend(a).screen = a.screen
<1> DEFINE fresh == {r \in results : r.latest}
<1>1. CASE fresh = {} \/ a.trend = None
  BY <1>1 DEF DrainTrend, Keeps
<1>2. CASE ~(fresh = {} \/ a.trend = None)
  <2> DEFINE r == CHOOSE r \in fresh : TRUE
             t == [[a.trend EXCEPT !.data = IF r.ok THEN r.sel ELSE None] EXCEPT !.error = ~r.ok]
  <2>1. r \in Results BY <1>2
  <2>2. a.trend \in Trends BY <1>2 DEF AppType
  <2>3. DrainTrend(a) = [a EXCEPT !.trend = t] BY <1>2, <2>2 DEF DrainTrend, AppType
  <2> HIDE DEF r
  <2>4. r.ok \in BOOLEAN /\ r.sel \in Selections BY <2>1 DEF Results
  <2>5. t \in Trends BY <2>2, <2>4 DEF Trends
  <2> HIDE DEF t
  <2> QED BY <2>3, <2>5, TrendChangeKeeps
<1> QED BY <1>1, <1>2

LEMMA FetchKeeps ==
    ASSUME NEW a \in AppType, Coherent(a), TrendDue(a), inflight \subseteq Queries
    PROVE  Keeps(a, fetch_trend(a)) /\ Fetching(a) \subseteq Queries
<1> DEFINE t == [[a.trend EXCEPT !.stale = FALSE] EXCEPT !.error = ~MetricsEnabled]
<1>1. a.trend \in Trends BY DEF AppType, Coherent, TrendDue
<1>2. t \in Trends BY <1>1 DEF Trends
<1>3. fetch_trend(a) = [a EXCEPT !.trend = t] BY <1>1 DEF fetch_trend, AppType
<1>4. Keeps(a, fetch_trend(a))
  <2> HIDE DEF t
  <2> QED BY <1>2, <1>3, TrendChangeKeeps
<1>5. Fetching(a) \subseteq Queries
  <2>1. a.trend.sel \in Selections BY <1>1 DEF Trends
  <2>2. \A f \in Queries : [f EXCEPT !.latest = FALSE] \in Queries BY DEF Queries
  <2>3. [sel |-> a.trend.sel, latest |-> TRUE] \in Queries BY <2>1 DEF Queries
  <2> QED BY <2>2, <2>3 DEF Fetching
<1> QED BY <1>4, <1>5

LEMMA OpenTrendKeeps ==
    ASSUME NEW a \in AppType, Coherent(a), a.screen \in {"Overview", "Detail"},
           NEW target \in {"ip", "range"} \X RowNames
    PROVE  KeyKeeps(a, OpenTrend(a, target))
<1> DEFINE t == TrendView(target, a.screen)
<1>1. t \in Trends BY DEF TrendView, Selection, Selections, Trends
<1>2. t # None BY <1>1, NameAssumption
<1>3. OpenTrend(a, target).app = [[a EXCEPT !.trend = t] EXCEPT !.screen = "Trend"]
  BY DEF OpenTrend, Does
<1>4. OpenTrend(a, target).action = "Refresh" BY DEF OpenTrend, Does
<1> HIDE DEF t
<1>5. Keeps(a, OpenTrend(a, target).app)
  BY <1>1, <1>2, <1>3 DEF Keeps, AppType, Coherent
<1> QED BY <1>4, <1>5 DEF KeyKeeps

LEMMA ReselectedKeeps ==
    ASSUME NEW a \in AppType, Coherent(a), a.screen = "Trend", NEW win \in Nat \ {0},
           NEW kind \in {"Bandwidth", "Packets"}
    PROVE  KeyKeeps(a, Reselected(a, win, kind))
<1> DEFINE t == clear_for_new_selection(
                  [a.trend EXCEPT !.sel = Selection(a.trend.sel.target, win, kind)])
<1>1. a.trend \in Trends BY DEF AppType, Coherent
<1>2. Selection(a.trend.sel.target, win, kind) \in Selections
  BY <1>1 DEF Trends, Selections, Selection
<1>3. t \in Trends BY <1>1, <1>2 DEF Trends, clear_for_new_selection
<1>4. /\ Reselected(a, win, kind).app = [a EXCEPT !.trend = t]
      /\ Reselected(a, win, kind).action = "Refresh"
  BY <1>1 DEF Reselected, Does, AppType
<1> HIDE DEF t
<1> QED BY <1>3, <1>4, TrendChangeKeeps DEF KeyKeeps

LEMMA StaysKeeps ==
    ASSUME NEW a \in AppType, Coherent(a), NEW action
    PROVE  KeyKeeps(a, Does(a, action))
BY DEF KeyKeeps, Keeps, Does

LEMMA TrendKeyKeeps ==
    ASSUME NEW a \in AppType, Coherent(a), a.screen = "Trend", NEW key
    PROVE  KeyKeeps(a, TrendKey(a, key))
<1> DEFINE win == a.trend.sel.win
           kind == a.trend.sel.kind
           left == IF win = 1 THEN NWindows ELSE win - 1
<1>1. win \in Nat \ {0} /\ kind \in {"Bandwidth", "Packets"}
  BY DEF AppType, Coherent, Trends, Selections
<1>2. \/ TrendKey(a, key) = Does(a, "Nothing")
      \/ TrendKey(a, key) = Reselected(a, left, kind)
      \/ TrendKey(a, key) = Reselected(a, (win % NWindows) + 1, kind)
      \/ TrendKey(a, key) = Reselected(a, win, "Bandwidth")
      \/ TrendKey(a, key) = Reselected(a, win, "Packets")
      \/ key \in {"1", "2", "3", "4"} /\ TrendKey(a, key) = Reselected(a, Digits[key], kind)
  BY DEF TrendKey, Digits
<1>3. NWindows \in Nat \ {0} BY UiAssumption
<1>4. left \in Nat \ {0} /\ (win % NWindows) + 1 \in Nat \ {0}
  BY <1>1, <1>3
<1>5. key \in {"1", "2", "3", "4"} => Digits[key] \in Nat \ {0} BY DEF Digits
<1> HIDE DEF win, kind, left
<1> QED BY <1>1, <1>2, <1>4, <1>5, StaysKeeps, ReselectedKeeps

LEMMA EnterKeeps ==
    ASSUME NEW a \in AppType, Coherent(a)
    PROVE  KeyKeeps(a, Enter(a))
<1>1. CASE a.screen = "Overview" /\ a.cursor # 0
  <2> DEFINE b == [a EXCEPT !.screen = "Detail", !.detail_index = a.cursor]
  <2>1. Enter(a) \in {Does(a, "Nothing"), Does(b, "Refresh")} BY <1>1 DEF Enter
  <2>2. a.detail = None BY <1>1 DEF Coherent
  <2>3. Keeps(a, b) BY <1>1, <2>2 DEF Keeps, AppType, Coherent
  <2>4. KeyKeeps(a, Does(b, "Refresh")) BY <2>3 DEF KeyKeeps, Does
  <2> QED BY <2>1, <2>4, StaysKeeps
<1>2. CASE a.screen = "Detail" /\ a.detail # None
  <2>1. <<"ip", a.detail.name>> \in {"ip", "range"} \X RowNames BY <1>2 DEF AppType, Views, RowNames
  <2>2. Enter(a) = OpenTrend(a, <<"ip", a.detail.name>>) BY <1>2 DEF Enter
  <2> QED BY <1>2, <2>1, <2>2, OpenTrendKeeps
<1>3. CASE ~(a.screen = "Overview" /\ a.cursor # 0) /\ ~(a.screen = "Detail" /\ a.detail # None)
  <2>1. Enter(a) = Does(a, "Nothing") BY <1>3 DEF Enter
  <2> QED BY <2>1, StaysKeeps
<1> QED BY <1>1, <1>2, <1>3

LEMMA OpenRangeTrendKeeps ==
    ASSUME NEW a \in AppType, Coherent(a), a.screen # "Trend"
    PROVE  KeyKeeps(a, OpenRangeTrend(a))
<1> DEFINE name == IF a.screen = "Overview" THEN Row(a)
                   ELSE IF a.detail = None THEN None ELSE a.detail.name
<1>1. name # None => name \in RowNames
  <2>1. CASE a.cursor \in 1..RowCount(a)
    <3>1. a.status \in Statuses /\ a.cursor \in 1..Len(a.status.ranges)
      BY <2>1 DEF RowCount, AppType
    <3>a. a.status.ranges \in Seq(Rows)
      BY <3>1 DEF Statuses
    <3>2. a.status.ranges[a.cursor] \in Rows
      BY <3>1, <3>a, ElementOfSeq
    <3> QED BY <2>1, <3>2 DEF Row, Rows, AppType, Views, RowNames
  <2>2. CASE a.cursor \notin 1..RowCount(a) BY <2>2 DEF Row, AppType, Views, RowNames
  <2> QED BY <2>1, <2>2
<1>2. OpenRangeTrend(a) = IF name = None THEN Does(a, "Nothing") ELSE OpenTrend(a, <<"range", name>>)
  BY DEF OpenRangeTrend
<1>3. a.screen \in {"Overview", "Detail"} BY DEF AppType
<1> HIDE DEF name
<1> QED BY <1>1, <1>2, <1>3, StaysKeeps, OpenTrendKeeps

LEMMA EscKeeps ==
    ASSUME NEW a \in AppType, Coherent(a)
    PROVE  KeyKeeps(a, Esc(a))
<1> DEFINE Leave == [a EXCEPT !.screen = "Overview", !.detail = None, !.detail_index = None]
<1>1. Leave \in AppType BY DEF AppType
<1>2. Keeps(a, Leave) /\ Leave.screen = "Overview"
  BY <1>1, NameAssumption DEF Keeps, Coherent, AppType
<1>3. CASE a.screen = "Detail"
  <2>1. Esc(a) = Does(Leave, "Nothing") BY <1>3 DEF Esc
  <2> HIDE DEF Leave
  <2> QED BY <1>2, <2>1 DEF KeyKeeps, Does
<1>4. CASE a.screen = "Trend"
  <2> DEFINE back == IF a.trend.from = "Overview" THEN Leave ELSE [a EXCEPT !.screen = a.trend.from]
             b == [back EXCEPT !.trend = None]
  <2>1. Esc(a) = Does(b, "Refresh") BY <1>4 DEF Esc
  <2>2. a.trend \in Trends BY <1>4 DEF AppType, Coherent
  <2>3. a.trend.from \in {"Overview", "Detail"} BY <2>2 DEF Trends
  <2>4. Keeps(a, back) /\ back.screen # "Trend"
    <3>1. CASE a.trend.from = "Overview" BY <1>2, <3>1
    <3>2. CASE a.trend.from = "Detail"
      <4>1. back = [a EXCEPT !.screen = "Detail"] BY <3>2
      <4> HIDE DEF back
      <4> QED BY <1>4, <4>1 DEF Keeps, AppType, Coherent
    <3> QED BY <2>3, <3>1, <3>2
  <2> HIDE DEF back
  <2>5. Keeps(a, b) BY <2>4 DEF Keeps, AppType, Coherent
  <2> QED BY <2>1, <2>5 DEF KeyKeeps, Does
<1>5. CASE a.screen = "Overview"
  <2>1. Esc(a) = Does(a, "Nothing") BY <1>5 DEF Esc
  <2> QED BY <2>1, StaysKeeps
<1> QED BY <1>3, <1>4, <1>5 DEF AppType

LEMMA HandleKeyKeeps ==
    ASSUME NEW a \in AppType, Coherent(a), NEW key
    PROVE  KeyKeeps(a, handle_key(a, key))
<1> DEFINE r == handle_key(a, key)
           overview == a.screen = "Overview"
           unhelped == [a EXCEPT !.help = FALSE]
           helped == [a EXCEPT !.help = overview]
           aged == [a EXCEPT !.trend.stale = TRUE]
<1>1. \/ \E action : r = Does(a, action)
      \/ r = Does(unhelped, "Nothing")
      \/ r = Does(helped, "Nothing")
      \/ a.screen = "Trend" /\ r = Does(aged, "Refresh")
      \/ a.screen = "Overview" /\ r = Does(move_selection(a, -1), "Nothing")
      \/ a.screen = "Overview" /\ r = Does(move_selection(a, 1), "Nothing")
      \/ r = Enter(a)
      \/ a.screen # "Trend" /\ r = OpenRangeTrend(a)
      \/ r = Esc(a)
      \/ a.screen = "Trend" /\ r = TrendKey(a, key)
  BY DEF handle_key
<1>2. KeyKeeps(a, Does(unhelped, "Nothing")) /\ KeyKeeps(a, Does(helped, "Nothing"))
  BY DEF KeyKeeps, Keeps, Does, AppType, Coherent
<1>3. ASSUME a.screen = "Trend" PROVE KeyKeeps(a, Does(aged, "Refresh"))
  <2>1. a.trend \in Trends BY <1>3 DEF AppType, Coherent
  <2>2. [a.trend EXCEPT !.stale = TRUE] \in Trends BY <2>1 DEF Trends
  <2>3. aged = [a EXCEPT !.trend = [a.trend EXCEPT !.stale = TRUE]] BY DEF AppType
  <2> HIDE DEF aged
  <2> QED BY <2>2, <2>3, TrendChangeKeeps DEF KeyKeeps, Does
<1>4. ASSUME NEW delta \in Int, a.screen = "Overview"
      PROVE  KeyKeeps(a, Does(move_selection(a, delta), "Nothing"))
  BY MoveKeeps DEF KeyKeeps, Does
<1> HIDE DEF r, unhelped, helped, aged
<1>5. KeyKeeps(a, r)
  BY <1>1, <1>2, <1>3, <1>4, StaysKeeps, EnterKeeps, OpenRangeTrendKeeps, EscKeeps, TrendKeyKeeps
<1> QED BY <1>5 DEF r

-----------------------------------------------------------------------------
(* The engine's answers *)

DaemonType == [up : BOOLEAN, cfg : Layouts, snap : Layouts \cup {None}, version : Nat]

LEMMA ReplyKinds ==
    ASSUME NEW rep \in Replies
    PROVE  /\ rep.type = "status" => rep \in Statuses /\ rep \notin Errors
           /\ rep.type = "detail" => rep \in Details /\ rep \notin Errors
           /\ rep.type \in {"status", "detail", "error"}
           /\ rep \in Statuses => rep.type = "status"
           /\ rep \in Errors => rep.type = "error"
BY DEF Replies, Statuses, Details, Errors

LEMMA ErrorReplyIsError == ErrorReply \in Errors /\ ErrorReply \in Replies /\ ErrorReply \notin Statuses
BY DEF ErrorReply, Errors, Replies, Statuses

LEMMA LayoutNames ==
    ASSUME NEW l \in Layouts
    PROVE  /\ l \in Seq(STRING) /\ DOMAIN l = 1..Len(l) /\ Len(l) \in Nat
           /\ \A i \in DOMAIN l : l[i] \in STRING
           /\ IPV6_RANGE_NAME \notin Hot
<1>1. l \in Seq(STRING \ {IPV6_RANGE_NAME}) BY NameAssumption
<1>2. \A i \in DOMAIN l : l[i] \in STRING \ {IPV6_RANGE_NAME}
  BY <1>1, ElementOfSeq, LenProperties
<1>3. l \in Seq(STRING) BY <1>1
<1>4. DOMAIN l = 1..Len(l) /\ Len(l) \in Nat BY <1>3, LenProperties
<1>5. IPV6_RANGE_NAME \notin Hot BY <1>2, UiAssumption
<1> QED BY <1>2, <1>3, <1>4, <1>5

LEMMA BuildStatusAnswers ==
    ASSUME NEW d \in DaemonType, d.snap # None => d.snap = d.cfg
    PROVE  /\ build_status(d) \in Statuses /\ build_status(d).version = d.version
           /\ RowsOK(build_status(d))
<1> DEFINE s == build_status(d)
<1>0. d.version \in Nat /\ d.cfg \in Layouts BY DEF DaemonType
<1>1. CASE d.snap = None
  <2>1. s = [type |-> "status", version |-> d.version, ranges |-> <<>>]
    BY <1>1 DEF build_status
  <2>2. s \in Statuses BY <1>0, <2>1 DEF Statuses
  <2> QED BY <2>1, <2>2 DEF RowsOK
<1>2. CASE d.snap # None
  <2> DEFINE row(i) == [name |-> d.snap[i], limited |-> limited_count(d, i)]
             rows == [i \in DOMAIN d.snap |-> row(i)]
             last == [name |-> IPV6_RANGE_NAME, limited |-> 0]
  <2>1. d.snap \in Layouts /\ d.snap = d.cfg BY <1>2 DEF DaemonType
  <2>2. /\ DOMAIN d.snap = 1..Len(d.snap) /\ Len(d.snap) \in Nat
        /\ \A i \in DOMAIN d.snap : d.snap[i] \in STRING
        /\ IPV6_RANGE_NAME \notin Hot
    BY <2>1, LayoutNames
  <2>3. \A i \in DOMAIN d.snap : row(i) \in Rows /\ (row(i).limited > 0 <=> row(i).name \in Hot)
    BY <2>1, <2>2 DEF limited_count, Rows, RowNames
  <2>4. last \in Rows /\ ~(last.limited > 0) /\ last.name \notin Hot
    BY <2>2 DEF Rows, RowNames
  <2>5. s = [type |-> "status", version |-> d.version, ranges |-> rows \o <<last>>]
    BY <1>2 DEF build_status
  <2> HIDE DEF row, last
  <2>6. rows \in Seq(Rows) /\ Len(rows) = Len(d.snap) BY <2>2, <2>3, IsASeq
  <2> HIDE DEF rows
  <2>7. rows \o <<last>> \in Seq(Rows) BY <2>4, <2>6
  <2>8. s \in Statuses BY <1>0, <2>5, <2>7 DEF Statuses
  <2>9. ASSUME NEW i \in DOMAIN (rows \o <<last>>)
        PROVE  LET r == (rows \o <<last>>)[i] IN r.limited > 0 <=> r.name \in Hot
    <3>1. i \in 1..(Len(d.snap) + 1) BY <2>2, <2>6, <2>4, <2>9
    <3>2. CASE i \in 1..Len(d.snap)
      <4>1. (rows \o <<last>>)[i] = row(i) BY <2>2, <2>6, <2>4, <3>2 DEF rows
      <4> QED BY <4>1, <2>2, <2>3, <3>2
    <3>3. CASE i = Len(d.snap) + 1
      <4>1. (rows \o <<last>>)[i] = last BY <2>2, <2>6, <2>4, <3>3
      <4> QED BY <4>1, <2>4
    <3> QED BY <2>2, <3>1, <3>2, <3>3
  <2> QED BY <2>5, <2>8, <2>9 DEF RowsOK
<1> QED BY <1>1, <1>2

LEMMA RequestIsAnswered ==
    ASSUME NEW d \in DaemonType, d.snap # None => d.snap = d.cfg, NEW req \in Requests,
           NEW since \in Nat, since <= d.version
    PROVE  handle_request(d, req) \in Replies /\ Answers(handle_request(d, req), since)
<1>0. d.version \in Nat BY DEF DaemonType
<1>1. CASE req.type = "overview"
  <2>1. handle_request(d, req) = build_status(d) BY <1>1 DEF handle_request
  <2>2. build_status(d) \in Replies BY BuildStatusAnswers DEF Replies
  <2> QED BY <1>0, <2>1, <2>2, BuildStatusAnswers DEF Answers
<1>2. CASE req.type # "overview"
  <2> DEFINE detail == build_range_detail(d, req.index)
  <2>1. handle_request(d, req) = IF detail = None THEN ErrorReply ELSE detail
    BY <1>2 DEF handle_request
  <2>2. CASE detail = None BY <2>1, <2>2, ErrorReplyIsError DEF Answers
  <2>3. CASE detail # None
    <3>1. d.snap # None /\ req.index \in DOMAIN d.snap
      BY <2>3 DEF build_range_detail
    <3>2. detail = [type |-> "detail", version |-> d.version, name |-> d.snap[req.index]]
      BY <3>1 DEF build_range_detail
    <3>3. d.snap[req.index] \in STRING BY <3>1, LayoutNames DEF DaemonType
    <3>4. detail \in Details /\ detail.version = d.version BY <1>0, <3>2, <3>3 DEF Details
    <3> HIDE DEF detail
    <3>5. detail \in Replies BY <3>4 DEF Replies
    <3>6. detail \notin Statuses BY <3>4 DEF Details, Statuses
    <3> QED BY <1>0, <2>1, <2>3, <3>4, <3>5, <3>6 DEF Answers
  <2> QED BY <2>2, <2>3
<1> QED BY <1>1, <1>2

-----------------------------------------------------------------------------
(* Steps of the daemon and of its end of the connections                    *)

ConnsType == [Conns -> Connections \cup {None}]

LEMMA SettledType ==
    ASSUME NEW x \in Connections
    PROVE  /\ Settled(x) \in Connections \cup {None}
           /\ x.client => Settled(x) = x
BY DEF Settled

LEMMA ServerLeavesType ==
    ASSUME NEW cs \in ConnsType, NEW c \in Conns, cs[c] # None
    PROVE  /\ ServerLeaves(cs, c) \in ConnsType
           /\ cs[c].client => ServerLeaves(cs, c)[c] = [cs[c] EXCEPT !.srv = "closed"]
           /\ \A d \in Conns : d # c => ServerLeaves(cs, c)[d] = cs[d]
<1> DEFINE x == [cs[c] EXCEPT !.srv = "closed"]
<1>1. cs[c] \in Connections BY DEF ConnsType
<1>2. x \in Connections /\ (cs[c].client => x.client) BY <1>1 DEF Connections
<1>3. ServerLeaves(cs, c) = [cs EXCEPT ![c] = Settled(x)] BY DEF ServerLeaves, ConnsType
<1> HIDE DEF x
<1>4. Settled(x) \in Connections \cup {None} /\ (cs[c].client => Settled(x) = x)
  BY <1>2, SettledType
<1>5. /\ ServerLeaves(cs, c) \in ConnsType /\ ServerLeaves(cs, c)[c] = Settled(x)
      /\ \A d \in Conns : d # c => ServerLeaves(cs, c)[d] = cs[d]
  BY <1>3, <1>4 DEF ConnsType
<1> QED BY <1>4, <1>5 DEF x

LEMMA ClientLeavesType ==
    ASSUME NEW cs \in ConnsType, NEW c \in Conns, cs[c] # None
    PROVE  ClientLeaves(cs, c) \in ConnsType
<1> DEFINE x == [cs[c] EXCEPT !.client = FALSE]
<1>1. cs[c] \in Connections BY DEF ConnsType
<1>2. x \in Connections BY <1>1 DEF Connections
<1>3. ClientLeaves(cs, c) = [cs EXCEPT ![c] = Settled(x)] BY DEF ClientLeaves, ConnsType
<1> HIDE DEF x
<1> QED BY <1>2, <1>3, SettledType DEF ConnsType

\* A step that leaves the UI alone, makes the daemon no older and keeps the client's
\* connection in order.
LEMMA RemoteStepKeeps ==
    ASSUME IInv, UNCHANGED ui, daemon' \in DaemonType,
           daemon'.snap # None => daemon'.snap = daemon'.cfg /\ daemon'.up,
           daemon'.version >= daemon.version, conns' \in ConnsType,
           client # None => ClientOK(conns'[client], pc, asked)
    PROVE  IInv'
<1> USE DEF IInv
<1>1. /\ pc' = pc /\ client' = client /\ app' = app /\ inflight' = inflight
      /\ results' = results /\ asked' = asked
  BY DEF ui
<1>2. TypeInv' BY <1>1 DEF TypeInv, DaemonType, ConnsType
<1>3. DaemonInv'
  <2>1. daemon'.version \in Nat /\ daemon.version \in Nat BY DEF DaemonType, TypeInv
  <2> QED BY <1>1, <2>1 DEF DaemonInv, TypeInv
<1>4. Coherent(app)' BY <1>1 DEF Coherent, RowsOK
<1>5. ClientInv' BY <1>1 DEF ClientInv
<1>6. PollInv' /\ StaleIsFlagged' BY <1>1 DEF PollInv, StaleIsFlagged
<1> QED BY <1>2, <1>3, <1>4, <1>5, <1>6

\* The same for a step in which the daemon's data do not change.
LEMMA ServerStepKeeps ==
    ASSUME IInv, UNCHANGED <<dmn, ui>>, conns' \in ConnsType,
           client # None => ClientOK(conns'[client], pc, asked)
    PROVE  IInv'
<1>1. daemon' = daemon BY DEF dmn
<1>2. /\ daemon \in DaemonType /\ daemon.version \in Nat
      /\ daemon.snap # None => daemon.snap = daemon.cfg /\ daemon.up
  BY DEF IInv, TypeInv, DaemonType, DaemonInv
<1> QED BY <1>1, <1>2, RemoteStepKeeps

LEMMA ClientFacts ==
    ASSUME IInv
    PROVE  /\ conns \in ConnsType
           /\ \A c \in Conns : conns[c] # None => conns[c] \in Connections
           /\ client # None => client \in Conns /\ ClientOK(conns[client], pc, asked)
                               /\ conns[client] \in Connections
BY DEF IInv, TypeInv, ConnsType, ClientInv, ClientOK

LEMMA AcceptKeeps == ASSUME IInv, NEW c \in Conns, Accept(c) PROVE IInv'
<1> DEFINE x == [conns[c] EXCEPT !.srv = "reading"]
<1>1. conns[c] \in Connections /\ conns[c] # None /\ conns[c].srv = "backlog"
  BY ClientFacts DEF Accept
<1>2. x \in Connections BY <1>1 DEF Connections
<1>3. conns' = [conns EXCEPT ![c] = x] BY ClientFacts DEF Accept, ConnsType
<1>4. ClientOK(conns[c], pc, asked) => ClientOK(x, pc, asked)
  BY <1>1, <1>2, NameAssumption DEF ClientOK, Connections
<1> HIDE DEF x
<1>5. /\ conns' \in ConnsType /\ conns'[c] = x
      /\ \A d \in Conns : d # c => conns'[d] = conns[d]
  BY <1>2, <1>3, ClientFacts DEF ConnsType
<1>6. client # None => ClientOK(conns'[client], pc, asked)
  BY <1>4, <1>5, ClientFacts
<1> QED BY <1>5, <1>6, ServerStepKeeps DEF Accept

LEMMA HandleConnectionKeeps == ASSUME IInv, NEW c \in Conns, handle_connection(c) PROVE IInv'
<1>1. conns[c] \in Connections /\ conns[c] # None /\ conns[c].srv = "reading"
  BY ClientFacts DEF handle_connection
<1>2. CASE conns[c].req # None /\ client = c
  <2> DEFINE rep == handle_request(daemon, conns[c].req)
             x == [conns[c] EXCEPT !.srv = "sending", !.req = None, !.rep = rep]
  <2>1. conns[c].req \in Requests BY <1>1, <1>2 DEF Connections
  <2>2. ClientOK(conns[c], pc, asked)
    BY <1>2, ClientFacts, NameAssumption
  <2>3. asked \in Nat /\ asked <= daemon.version
    <3>1. pc \in {"overview", "detail"}
      <4>1. pc # "quit" BY <1>2, NameAssumption, ClientFacts DEF IInv, PollInv
      <4>2. pc # "loop" BY <1>2, <2>2 DEF ClientOK
      <4> QED BY <4>1, <4>2 DEF IInv, TypeInv
    <3> QED BY <3>1 DEF IInv, TypeInv, PollInv, DaemonInv
  <2>4. rep \in Replies /\ Answers(rep, asked)
    BY <2>1, <2>3, RequestIsAnswered DEF IInv, TypeInv, DaemonInv, DaemonType
  <2>5. rep # None BY <2>4, NameAssumption
  <2>6. conns' = [conns EXCEPT ![c] = x]
    BY <1>1, <1>2, ClientFacts DEF handle_connection, ConnsType
  <2> HIDE DEF rep
  <2>7. x \in Connections BY <1>1, <2>4 DEF Connections
  <2>8. ClientOK(x, pc, asked)
    BY <1>1, <1>2, <2>2, <2>4, <2>5, <2>7, NameAssumption DEF ClientOK, Connections
  <2> HIDE DEF x
  <2>9. conns' \in ConnsType /\ conns'[c] = x
    BY <2>6, <2>7, ClientFacts DEF ConnsType
  <2> QED BY <1>2, <2>8, <2>9, ServerStepKeeps DEF handle_connection
<1>3. CASE conns[c].req # None /\ client # c
  <2> DEFINE rep == handle_request(daemon, conns[c].req)
             x == [conns[c] EXCEPT !.srv = "sending", !.req = None, !.rep = rep]
  <2>1. conns[c].req \in Requests BY <1>1, <1>3 DEF Connections
  <2>2. daemon.version \in Nat BY DEF IInv, TypeInv
  <2>3. rep \in Replies
    BY <2>1, <2>2, RequestIsAnswered DEF IInv, TypeInv, DaemonInv, DaemonType
  <2>4. conns' = [conns EXCEPT ![c] = x]
    BY <1>1, <1>3, ClientFacts DEF handle_connection, ConnsType
  <2> HIDE DEF rep
  <2>5. x \in Connections BY <1>1, <2>3 DEF Connections
  <2> HIDE DEF x
  <2>6. conns' \in ConnsType /\ \A d \in Conns : d # c => conns'[d] = conns[d]
    BY <2>4, <2>5, ClientFacts DEF ConnsType
  <2>7. client # None => ClientOK(conns'[client], pc, asked)
    BY <1>3, <2>6, ClientFacts
  <2> QED BY <2>6, <2>7, ServerStepKeeps DEF handle_connection
<1>4. CASE conns[c].req = None
  <2>1. conns' = ServerLeaves(conns, c) /\ ~conns[c].client
    BY <1>1, <1>4 DEF handle_connection
  <2>2. conns' \in ConnsType /\ \A d \in Conns : d # c => conns'[d] = conns[d]
    BY <1>1, <2>1, ClientFacts, ServerLeavesType
  <2>3. client # None => ClientOK(conns'[client], pc, asked)
    BY <2>1, <2>2, ClientFacts DEF ClientOK
  <2> QED BY <2>2, <2>3, ServerStepKeeps DEF handle_connection
<1> QED BY <1>2, <1>3, <1>4

LEMMA SendResponseKeeps == ASSUME IInv, NEW c \in Conns, send_response(c) PROVE IInv'
<1>1. conns[c] \in Connections /\ conns[c] # None /\ conns[c].srv = "sending"
  BY ClientFacts DEF send_response
<1>2. CASE ~conns[c].client
  <2>1. conns' = ServerLeaves(conns, c) BY <1>2 DEF send_response
  <2>2. conns' \in ConnsType /\ \A d \in Conns : d # c => conns'[d] = conns[d]
    BY <1>1, <2>1, ClientFacts, ServerLeavesType, ZenonT(40)
  <2>3. client # None => ClientOK(conns'[client], pc, asked)
    BY <1>2, <2>2, ClientFacts DEF ClientOK
  <2> QED BY <2>2, <2>3, ServerStepKeeps DEF send_response
<1>3. CASE conns[c].client
  <2> DEFINE x == IF TooLarge(conns[c].rep)
                  THEN [conns[c] EXCEPT !.srv = "closed", !.rep = ErrorReply]
                  ELSE [conns[c] EXCEPT !.srv = "reading"]
  <2>1. conns' = [conns EXCEPT ![c] = x]
    BY <1>1, <1>3, ClientFacts DEF send_response, ConnsType
  <2>2. x \in Connections BY <1>1, ErrorReplyIsError DEF Connections
  <2>3. ClientOK(conns[c], pc, asked) => ClientOK(x, pc, asked)
    <3>1. Answers(ErrorReply, asked) /\ ErrorReply # None
      BY ErrorReplyIsError, NameAssumption DEF Answers
    <3> HIDE DEF x
    <3>2. CASE TooLarge(conns[c].rep)
      <4>1. x = [conns[c] EXCEPT !.srv = "closed", !.rep = ErrorReply] BY <3>2 DEF x
      <4> QED BY <1>1, <2>2, <3>1, <4>1, NameAssumption DEF ClientOK, Connections
    <3>3. CASE ~TooLarge(conns[c].rep)
      <4>1. x = [conns[c] EXCEPT !.srv = "reading"] BY <3>3 DEF x
      <4> QED BY <1>1, <2>2, <4>1, NameAssumption DEF ClientOK, Connections
    <3> QED BY <3>2, <3>3
  <2> HIDE DEF x
  <2>4. /\ conns' \in ConnsType /\ conns'[c] = x
        /\ \A d \in Conns : d # c => conns'[d] = conns[d]
    BY <2>1, <2>2, ClientFacts DEF ConnsType
  <2>5. client # None => ClientOK(conns'[client], pc, asked)
    BY <2>3, <2>4, ClientFacts
  <2> QED BY <2>4, <2>5, ServerStepKeeps DEF send_response
<1> QED BY <1>2, <1>3

LEMMA DataStepKeeps ==
    ASSUME IInv, UNCHANGED <<conns, ui>>, daemon' \in DaemonType,
           daemon'.snap # None => daemon'.snap = daemon'.cfg /\ daemon'.up,
           daemon'.version >= daemon.version
    PROVE  IInv'
BY RemoteStepKeeps, ClientFacts

LEMMA DaemonFacts ==
    ASSUME IInv
    PROVE  /\ daemon \in DaemonType /\ daemon.version \in Nat /\ daemon.cfg \in Layouts
           /\ daemon.snap # None => daemon.snap = daemon.cfg /\ daemon.up
BY DEF IInv, TypeInv, DaemonInv, DaemonType

LEMMA ChangedType ==
    ASSUME NEW d \in DaemonType, NEW up \in BOOLEAN, NEW l \in Layouts,
           NEW snap \in Layouts \cup {None}
    PROVE  LET e == [up |-> up, cfg |-> l, snap |-> snap, version |-> d.version + 1] IN
           e \in DaemonType /\ e.version >= d.version
BY DEF DaemonType

LEMMA CollectTickKeeps == ASSUME IInv, collect_tick PROVE IInv'
<1>1. daemon' = [up |-> TRUE, cfg |-> daemon.cfg, snap |-> daemon.cfg,
                 version |-> daemon.version + 1]
  BY DaemonFacts DEF collect_tick, Changed, DaemonType
<1>2. daemon' \in DaemonType /\ daemon'.version >= daemon.version
  BY <1>1, DaemonFacts, ChangedType
<1> QED BY <1>1, <1>2, DataStepKeeps DEF collect_tick

LEMMA ReloadKeeps == ASSUME IInv, NEW l \in Layouts, reload(l) PROVE IInv'
<1>1. daemon' = [up |-> TRUE, cfg |-> l, snap |-> l, version |-> daemon.version + 1]
  BY DaemonFacts DEF reload, Changed, DaemonType
<1>2. daemon' \in DaemonType /\ daemon'.version >= daemon.version
  BY <1>1, DaemonFacts, ChangedType
<1> QED BY <1>1, <1>2, DataStepKeeps DEF reload

LEMMA RestartKeeps == ASSUME IInv, Restart PROVE IInv'
<1>1. PICK l \in Layouts :
        daemon' = [up |-> TRUE, cfg |-> l, snap |-> None, version |-> daemon.version + 1]
  <2>1. daemon.snap = None BY DaemonFacts DEF Restart
  <2> QED BY <2>1, DaemonFacts DEF Restart, Changed, DaemonType
<1>2. daemon' \in DaemonType /\ daemon'.version >= daemon.version
  BY <1>1, DaemonFacts, ChangedType
<1> QED BY <1>1, <1>2, DataStepKeeps DEF Restart

LEMMA CrashKeeps == ASSUME IInv, Crash PROVE IInv'
<1> DEFINE rep(c) == IF c.srv = "sending" THEN None ELSE c.rep
           cut(c) == [c EXCEPT !.srv = "closed", !.req = None, !.rep = rep(c)]
<1>1. daemon' = [daemon EXCEPT !.up = FALSE, !.snap = None] BY DEF Crash
<1>2. daemon' \in DaemonType /\ daemon'.snap = None /\ daemon'.version = daemon.version
  BY <1>1, DaemonFacts DEF DaemonType
<1>3. conns' = [c \in Conns |-> IF conns[c] = None THEN None ELSE Settled(cut(conns[c]))]
  BY DEF Crash
<1>4. ASSUME NEW x \in Connections
      PROVE  /\ Settled(cut(x)) \in Connections \cup {None}
             /\ ClientOK(x, pc, asked) => ClientOK(Settled(cut(x)), pc, asked)
  <2>1. cut(x) \in Connections BY DEF Connections
  <2>2. cut(x).client = x.client BY DEF Connections
  <2>3. ClientOK(x, pc, asked) => ClientOK(cut(x), pc, asked)
    BY <2>1, NameAssumption DEF ClientOK, Connections
  <2> HIDE DEF cut
  <2> QED BY <2>1, <2>2, <2>3, SettledType DEF ClientOK
<1> HIDE DEF cut
<1>5. conns' \in ConnsType BY <1>3, <1>4, ClientFacts DEF ConnsType
<1>6. client # None => ClientOK(conns'[client], pc, asked)
  <2> SUFFICES ASSUME client # None PROVE ClientOK(conns'[client], pc, asked)
    OBVIOUS
  <2>1. /\ client \in Conns /\ conns[client] \in Connections /\ conns[client] # None
        /\ ClientOK(conns[client], pc, asked)
    BY ClientFacts DEF ClientOK
  <2>2. conns'[client] = Settled(cut(conns[client])) BY <1>3, <2>1
  <2> QED BY <1>4, <2>1, <2>2
<1>7. daemon'.version >= daemon.version BY <1>2, DaemonFacts
<1> QED BY <1>2, <1>5, <1>6, <1>7, RemoteStepKeeps DEF Crash

-----------------------------------------------------------------------------
(* Steps of the UI *)

LEMMA UiStepKeeps ==
    ASSUME IInv, daemon' = daemon, conns' \in ConnsType,
           app' \in AppType, Coherent(app'), inflight' \subseteq Queries, results' \subseteq Results,
           asked' \in Nat \cup {None}, asked' # None => asked' <= daemon.version,
           asked' = None => app'.status = None /\ app'.detail = None,
           pc' \in {"loop", "overview", "detail", "quit"},
           client' # None => client' \in Conns /\ ClientOK(conns'[client'], pc', asked'),
           pc' \in {"overview", "detail"} => client' # None /\ asked' # None,
           pc' = "quit" => client' = None,
           pc' = "detail" =>
             /\ app'.screen = "Detail" /\ app'.status # None /\ app'.status.version >= asked'
             /\ app'.detail_index = None => app'.cursor # 0,
           StaleIsFlagged'
    PROVE  IInv'
<1>1. TypeInv' BY DEF IInv, TypeInv, ConnsType
<1>2. DaemonInv' BY DEF IInv, DaemonInv
<1>3. Coherent(app)' BY DEF Coherent, RowsOK
<1>4. ClientInv' BY DEF ClientInv
<1>5. PollInv' BY DEF PollInv
<1> QED BY <1>1, <1>2, <1>3, <1>4, <1>5 DEF IInv

LEMMA UiFacts ==
    ASSUME IInv
    PROVE  /\ app \in AppType /\ Coherent(app)
           /\ inflight \subseteq Queries /\ results \subseteq Results
           /\ asked \in Nat \cup {None} /\ (asked # None => asked <= daemon.version)
           /\ None \notin Nat
BY NameAssumption DEF IInv, TypeInv, DaemonInv

\* A request on a connection on which nothing lies either waits or fails.
LEMMA RequestOutcome ==
    ASSUME NEW cs \in ConnsType, NEW c \in Conns, cs[c] # None, cs[c].client,
           cs[c].req = None, cs[c].rep = None, cs[c].srv # "sending",
           NEW req \in Requests, NEW at, NEW a, NEW failed, NEW since, at # "loop",
           IF cs[c].srv = "closed"
           THEN conns' = ClientLeaves(cs, c) /\ client' = None /\ pc' = "loop" /\ app' = failed
           ELSE conns' = [cs EXCEPT ![c].req = req] /\ client' = c /\ pc' = at /\ app' = a
    PROVE  /\ conns' \in ConnsType
           /\ \/ client' = None /\ pc' = "loop" /\ app' = failed
              \/ client' = c /\ pc' = at /\ app' = a /\ ClientOK(conns'[c], at, since)
<1>1. cs[c] \in Connections BY DEF ConnsType
<1>2. CASE cs[c].srv = "closed"
  BY <1>2, ClientLeavesType
<1>3. CASE cs[c].srv # "closed"
  <2> DEFINE x == [cs[c] EXCEPT !.req = req]
  <2>1. conns' = [cs EXCEPT ![c] = x] BY <1>3 DEF ConnsType
  <2>2. x \in Connections BY <1>1 DEF Connections
  <2>3. ClientOK(x, at, since)
    BY <1>1, <2>2, NameAssumption DEF ClientOK, Connections
  <2> HIDE DEF x
  <2>4. conns' \in ConnsType /\ conns'[c] = x BY <2>1, <2>2 DEF ConnsType
  <2> QED BY <1>3, <2>3, <2>4
<1> QED BY <1>2, <1>3

LEMMA FailedKeeps ==
    ASSUME NEW a \in AppType, Coherent(a)
    PROVE  /\ Failed(a) \in AppType /\ Coherent(Failed(a)) /\ Failed(a).error
           /\ DetailFailed(a) \in AppType /\ Coherent(DetailFailed(a)) /\ DetailFailed(a).error
           /\ Unreachable(a) \in AppType /\ Coherent(Unreachable(a)) /\ Unreachable(a).error
           /\ [a EXCEPT !.error = FALSE] \in AppType /\ Coherent([a EXCEPT !.error = FALSE])
BY ZenonT(40) DEF Failed, DetailFailed, Unreachable, AppType, Coherent

\* A poll waits for the reply to Overview or leaves an error.
LEMMA PollOutcome ==
    ASSUME IInv, pc = "loop", NEW a \in AppType, Coherent(a), poll(a)
    PROVE  /\ conns' \in ConnsType /\ inflight' \subseteq Queries /\ asked' = daemon.version
           /\ app' \in AppType /\ Coherent(app')
           /\ \/ client' = None /\ pc' = "loop" /\ app'.error
              \/ client' \in Conns /\ pc' = "overview" /\ ClientOK(conns'[client'], pc', asked')
<1> DEFINE b == IF TrendDue(a) THEN fetch_trend(a) ELSE a
           overview == [type |-> "overview"]
<1>1. b \in AppType /\ Coherent(b) BY FetchKeeps, UiFacts DEF Keeps
<1>2. inflight' \subseteq Queries /\ asked' = daemon.version
  BY FetchKeeps, UiFacts DEF poll
<1>3. overview \in Requests BY DEF Requests
<1>4. CASE client # None
  <2>1. Request(client, conns, overview, "overview", b, Failed(b)) BY <1>4 DEF poll
  <2>2. /\ conns \in ConnsType /\ client \in Conns /\ conns[client] # None /\ conns[client].client
        /\ conns[client].req = None /\ conns[client].rep = None /\ conns[client].srv # "sending"
    BY <1>4, ClientFacts DEF ClientOK
  <2> HIDE DEF b, overview
  <2>3. /\ conns' \in ConnsType
        /\ \/ client' = None /\ pc' = "loop" /\ app' = Failed(b)
           \/ client' = client /\ pc' = "overview" /\ app' = b
              /\ ClientOK(conns'[client], "overview", daemon.version)
    BY <1>3, <2>1, <2>2, RequestOutcome DEF Request
  <2> QED BY <1>1, <1>2, <2>2, <2>3, FailedKeeps
<1>5. CASE client = None /\ Connectable = {}
  <2>1. app' = Unreachable(b) /\ pc' = "loop" /\ conns' = conns /\ client' = client
    BY <1>5 DEF poll
  <2> HIDE DEF b
  <2> QED BY <1>1, <1>2, <1>5, <2>1, FailedKeeps, ClientFacts
<1>6. CASE client = None /\ Connectable # {}
  <2> DEFINE c == CHOOSE c \in Connectable : TRUE
             cs == [conns EXCEPT ![c] = Fresh]
             d == [b EXCEPT !.error = FALSE]
  <2>1. Request(c, cs, overview, "overview", d, Failed(b)) BY <1>6 DEF poll
  <2>2. c \in Conns BY <1>6 DEF Connectable
  <2> HIDE DEF b, c, overview
  <2>3. Fresh \in Connections /\ Fresh # None
    <3>1. Fresh \in Connections BY DEF Fresh, Connections
    <3> QED BY <3>1, NameAssumption
  <2>4. cs \in ConnsType /\ cs[c] = Fresh BY <2>2, <2>3, ClientFacts DEF ConnsType
  <2>5. d \in AppType /\ Coherent(d) BY <1>1, FailedKeeps
  <2>6. Fresh.client /\ Fresh.req = None /\ Fresh.rep = None /\ Fresh.srv # "sending"
    BY DEF Fresh
  <2> HIDE DEF cs, d
  <2>7. /\ conns' \in ConnsType
        /\ \/ client' = None /\ pc' = "loop" /\ app' = Failed(b)
           \/ client' = c /\ pc' = "overview" /\ app' = d
              /\ ClientOK(conns'[c], "overview", daemon.version)
    BY <1>3, <2>1, <2>2, <2>3, <2>4, <2>6, RequestOutcome DEF Request
  <2> QED BY <1>1, <1>2, <2>2, <2>5, <2>7, FailedKeeps
<1> QED BY <1>4, <1>5, <1>6

\* What an iteration shows before it polls: the status and the error of the last one, and
\* the detail screen only if it was there.
LEMMA LookKeeps ==
    ASSUME IInv, NEW key
    PROVE  LET drawn == draw(app)
               k == IF key = None THEN Does(drawn, "Nothing") ELSE handle_key(drawn, key)
               a == DrainTrend(k.app)
           IN  Keeps(app, a) /\ (k.action # "Refresh" /\ a.screen = "Detail" => app.screen = "Detail")
<1> DEFINE drawn == draw(app)
           k == IF key = None THEN Does(drawn, "Nothing") ELSE handle_key(drawn, key)
<1>1. Keeps(app, drawn) /\ drawn.screen = app.screen BY UiFacts, DrawKeeps
<1>2. drawn \in AppType /\ Coherent(drawn) BY <1>1 DEF Keeps
<1> HIDE DEF drawn
<1>3. KeyKeeps(drawn, k) BY <1>2, StaysKeeps, HandleKeyKeeps
<1> HIDE DEF k
<1>4. Keeps(app, k.app) BY <1>1, <1>3, KeepsTransitive DEF KeyKeeps
<1>5. k.app \in AppType /\ Coherent(k.app) BY <1>4 DEF Keeps
<1>6. Keeps(k.app, DrainTrend(k.app)) /\ DrainTrend(k.app).screen = k.app.screen
  BY <1>5, UiFacts, DrainKeeps
<1>7. Keeps(app, DrainTrend(k.app)) BY <1>4, <1>6, KeepsTransitive
<1>8. k.action # "Refresh" /\ DrainTrend(k.app).screen = "Detail" => app.screen = "Detail"
  BY <1>1, <1>3, <1>6 DEF KeyKeeps
<1> QED BY <1>7, <1>8 DEF drawn, k

LEMMA IterateKeeps == ASSUME IInv, NEW key, NEW due, Iterate(key, due) PROVE IInv'
<1> DEFINE drawn == draw(app)
           k == IF key = None THEN Does(drawn, "Nothing") ELSE handle_key(drawn, key)
           a == DrainTrend(k.app)
<1>1. pc = "loop" /\ results' = {} /\ daemon' = daemon BY DEF Iterate, dmn
<1>2. /\ Keeps(app, a)
      /\ k.action # "Refresh" /\ a.screen = "Detail" => app.screen = "Detail"
  BY LookKeeps
<1>3. a \in AppType /\ Coherent(a) BY <1>2 DEF Keeps
<1>4. CASE due \/ k.action = "Refresh"
  <2>1. poll(a) BY <1>4 DEF Iterate
  <2>2. /\ conns' \in ConnsType /\ inflight' \subseteq Queries /\ asked' = daemon.version
        /\ app' \in AppType /\ Coherent(app')
        /\ \/ client' = None /\ pc' = "loop" /\ app'.error
           \/ client' \in Conns /\ pc' = "overview" /\ ClientOK(conns'[client'], pc', asked')
    <3>a. SUFFICES ASSUME NEW b, b = a, poll(b)
                   PROVE  /\ conns' \in ConnsType /\ inflight' \subseteq Queries
                          /\ asked' = daemon.version /\ app' \in AppType /\ Coherent(app')
                          /\ \/ client' = None /\ pc' = "loop" /\ app'.error
                             \/ /\ client' \in Conns /\ pc' = "overview"
                                /\ ClientOK(conns'[client'], pc', asked')
      BY <2>1
    <3>1. b \in AppType /\ Coherent(b) BY <1>3, <3>a
    <3> HIDE DEF a
    <3> QED BY <1>1, <3>1, <3>a, PollOutcome
  <2> HIDE DEF a, k
  <2>3. asked' \in Nat /\ asked' # None /\ asked' <= daemon.version
    BY <2>2, DaemonFacts, UiFacts
  <2>4. StaleIsFlagged' BY <2>2 DEF StaleIsFlagged
  <2>5. client' # None => client' \in Conns /\ ClientOK(conns'[client'], pc', asked')
    BY <2>2
  <2>6. /\ pc' \in {"loop", "overview", "detail", "quit"}
        /\ pc' \in {"overview", "detail"} => client' # None /\ asked' # None
        /\ pc' = "quit" => client' = None
        /\ pc' # "detail"
    BY <2>2, <2>3, NameAssumption
  <2> QED BY <1>1, <2>2, <2>3, <2>4, <2>5, <2>6, UiStepKeeps
<1>5. CASE ~(due \/ k.action = "Refresh")
  <2>1. /\ app' = a /\ conns' = conns /\ pc' = pc /\ client' = client
        /\ inflight' = inflight /\ asked' = asked /\ asked # None
    BY <1>5 DEF Iterate
  <2>2. a.screen = "Detail" => app.screen = "Detail" BY <1>2, <1>5
  <2> HIDE DEF a, k
  <2>3. StaleIsFlagged' BY <1>1, <1>2, <2>1, <2>2 DEF StaleIsFlagged, Keeps, IInv
  <2>4. client' # None => client' \in Conns /\ ClientOK(conns'[client'], pc', asked')
    BY <2>1, ClientFacts
  <2>5. conns' \in ConnsType BY <2>1, ClientFacts
  <2> QED BY <1>1, <1>3, <2>1, <2>3, <2>4, <2>5, UiFacts, UiStepKeeps
<1> QED BY <1>4, <1>5

LEMMA QuitKeeps == ASSUME IInv, NEW key, Quit(key) PROVE IInv'
<1>1. /\ pc' = "quit" /\ client' = None /\ app' = UiState /\ inflight' = {} /\ results' = {}
      /\ daemon' = daemon /\ asked' = asked
  BY DEF Quit, dmn
<1>2. conns' \in ConnsType
  BY ClientFacts, ClientLeavesType DEF Quit, ClientOK
<1>3. UiState \in AppType /\ Coherent(UiState) /\ UiState.status = None /\ UiState.detail = None
  BY NameAssumption DEF UiState, AppType, Coherent
<1>4. StaleIsFlagged' BY <1>1 DEF StaleIsFlagged
<1> QED BY <1>1, <1>2, <1>3, <1>4, UiFacts, UiStepKeeps

LEMMA FetchDoneKeeps == ASSUME IInv, NEW f, NEW ok \in BOOLEAN, FetchDone(f, ok) PROVE IInv'
<1>1. /\ daemon' = daemon /\ conns' = conns /\ pc' = pc /\ client' = client /\ app' = app
      /\ asked' = asked
  BY DEF FetchDone, dmn
<1>2. inflight' \subseteq Queries /\ f \in Queries BY UiFacts DEF FetchDone
<1>3. results' \subseteq Results
  <2>1. [sel |-> f.sel, latest |-> f.latest, ok |-> ok] \in Results
    BY <1>2 DEF Queries, Results
  <2> QED BY <2>1, UiFacts DEF FetchDone
<1> QED BY <1>1, <1>2, <1>3
        DEF IInv, TypeInv, DaemonInv, ClientInv, PollInv, StaleIsFlagged, Coherent, RowsOK

LEMMA TrendAgesKeeps == ASSUME IInv, TrendAges PROVE IInv'
<1> DEFINE t == [app.trend EXCEPT !.stale = TRUE]
<1>1. /\ daemon' = daemon /\ conns' = conns /\ pc' = pc /\ client' = client
      /\ asked' = asked /\ inflight' = inflight /\ results' = results /\ pc = "loop"
  BY DEF TrendAges, dmn
<1>2. app.trend \in Trends BY UiFacts DEF TrendAges, AppType
<1>3. t \in Trends BY <1>2 DEF Trends
<1>4. app' = [app EXCEPT !.trend = t] BY UiFacts DEF TrendAges, AppType
<1> HIDE DEF t
<1>5. Keeps(app, app') /\ app'.screen = app.screen BY <1>3, <1>4, UiFacts, TrendChangeKeeps
<1>6. /\ app' \in AppType /\ Coherent(app')
      /\ app'.status = app.status /\ app'.error = app.error
      /\ app'.detail \in {app.detail, None}
  BY <1>5 DEF Keeps
<1>7. StaleIsFlagged' BY <1>1, <1>5, <1>6 DEF StaleIsFlagged, IInv
<1>8. client' # None => client' \in Conns /\ ClientOK(conns'[client'], pc', asked')
  BY <1>1, ClientFacts
<1>9. asked' = None => app'.status = None /\ app'.detail = None
  BY <1>1, <1>6 DEF IInv, PollInv
<1>10. conns' \in ConnsType BY <1>1, ClientFacts
<1> QED BY <1>1, <1>6, <1>7, <1>8, <1>9, <1>10, UiFacts, UiStepKeeps

\* A request ends without a reply to use: the connection goes and an error shows.
LEMMA DroppedKeeps ==
    ASSUME IInv, pc \in {"overview", "detail"}, NEW a, a \in {Failed(app), DetailFailed(app)},
           ReplyMissing(a), UNCHANGED <<daemon, inflight, results, asked>>
    PROVE  IInv'
<1>1. client # None /\ asked # None BY DEF IInv, PollInv
<1>2. conns' \in ConnsType
  BY <1>1, ClientFacts, ClientLeavesType DEF ReplyMissing, ClientOK
<1>3. a \in AppType /\ Coherent(a) /\ a.error BY UiFacts, FailedKeeps
<1>4. pc' = "loop" /\ app' = a /\ client' = None BY DEF ReplyMissing
<1>5. StaleIsFlagged' BY <1>3, <1>4 DEF StaleIsFlagged
<1> QED BY <1>1, <1>2, <1>3, <1>4, <1>5, UiFacts, UiStepKeeps

LEMMA NoReplyKeeps == ASSUME IInv, EndOfStream \/ Timeout PROVE IInv'
<1> DEFINE a == IF pc = "overview" THEN Failed(app) ELSE DetailFailed(app)
<1>1. /\ pc \in {"overview", "detail"} /\ ReplyMissing(a)
      /\ UNCHANGED <<daemon, inflight, results, asked>>
  BY DEF EndOfStream, Timeout, NoReply
<1>2. a \in {Failed(app), DetailFailed(app)} OBVIOUS
<1> HIDE DEF a
<1> QED BY <1>1, <1>2, DroppedKeeps DEF ReplyMissing

\* The reply under the client's hand.
LEMMA ReadableReply ==
    ASSUME IInv, pc \in {"overview", "detail"}, Readable
    PROVE  LET c == conns[client] IN
           /\ client \in Conns /\ client # None /\ c \in Connections /\ c # None /\ c.client
           /\ c.req = None /\ c.srv # "sending"
           /\ c.rep \in Replies /\ Answers(c.rep, asked)
           /\ asked \in Nat /\ asked # None /\ asked <= daemon.version
<1>1. client # None /\ asked # None BY DEF IInv, PollInv
<1>2. ClientOK(conns[client], pc, asked) /\ conns[client] \in Connections /\ client \in Conns
  BY <1>1, ClientFacts
<1>3. conns[client].rep \in Replies /\ conns[client].rep # None
  BY <1>2 DEF Readable, Connections
<1> QED BY <1>1, <1>2, <1>3, UiFacts DEF ClientOK, Readable

\* The connection once its reply has been read.
LEMMA TakenType ==
    ASSUME NEW cs \in ConnsType, NEW c \in Conns, cs[c] # None, cs[c].client,
           cs[c].req = None, cs[c].srv # "sending", NEW since
    PROVE  LET taken == [cs EXCEPT ![c].rep = None] IN
           /\ taken \in ConnsType
           /\ taken[c] # None /\ taken[c].client /\ taken[c].req = None /\ taken[c].rep = None
           /\ taken[c].srv # "sending"
           /\ ClientOK(taken[c], "loop", since)
<1> DEFINE x == [cs[c] EXCEPT !.rep = None]
           taken == [cs EXCEPT ![c].rep = None]
<1>1. cs[c] \in Connections BY DEF ConnsType
<1>2. taken = [cs EXCEPT ![c] = x] BY DEF ConnsType
<1>3. x \in Connections BY <1>1 DEF Connections
<1>4. x.client /\ x.req = None /\ x.rep = None /\ x.srv # "sending" /\ x # None
  BY <1>1, <1>3, NameAssumption DEF Connections
<1> HIDE DEF x
<1>5. taken \in ConnsType /\ taken[c] = x BY <1>2, <1>3 DEF ConnsType
<1>6. ClientOK(x, "loop", since) BY <1>4 DEF ClientOK
<1> HIDE DEF taken
<1>7. /\ taken \in ConnsType
      /\ taken[c] # None /\ taken[c].client /\ taken[c].req = None /\ taken[c].rep = None
      /\ taken[c].srv # "sending"
      /\ ClientOK(taken[c], "loop", since)
  BY <1>4, <1>5, <1>6
<1> QED BY <1>7 DEF taken

LEMMA OverviewReplyKeeps == ASSUME IInv, OverviewReply PROVE IInv'
<1> DEFINE s == conns[client].rep
           taken == [conns EXCEPT ![client].rep = None]
           a == [app EXCEPT !.status = s, !.error = FALSE]
           idx == IF app.detail_index # None THEN app.detail_index ELSE app.cursor
<1>1. pc = "overview" /\ Readable /\ UNCHANGED <<daemon, inflight, results, asked>>
  BY DEF OverviewReply, dmn
<1>2. /\ client \in Conns /\ client # None /\ conns[client] # None /\ conns[client].client
      /\ conns[client].req = None /\ conns[client].srv # "sending"
      /\ s \in Replies /\ Answers(s, asked)
      /\ asked \in Nat /\ asked # None /\ asked <= daemon.version
  BY <1>1, ReadableReply
<1>3. CASE s.type # "status"
  <2>1. ReplyMissing(Failed(app)) BY <1>1, <1>3 DEF OverviewReply
  <2>2. Failed(app) \in {Failed(app), DetailFailed(app)} OBVIOUS
  <2> QED BY <1>1, <2>1, <2>2, DroppedKeeps DEF ReplyMissing
<1>4. CASE s.type = "status"
  <2>1. s \in Statuses /\ RowsOK(s) /\ s.version >= asked
    BY <1>2, <1>4, ReplyKinds DEF Answers
  <2>2. s # None BY <1>2, NameAssumption
  <2>3. /\ taken \in ConnsType
        /\ taken[client] # None /\ taken[client].client /\ taken[client].req = None
        /\ taken[client].rep = None /\ taken[client].srv # "sending"
        /\ ClientOK(taken[client], "loop", asked)
    BY <1>2, ClientFacts, TakenType
  <2>4. /\ IF app.screen = "Detail" /\ idx # 0
           THEN Request(client, taken, [type |-> "detail", index |-> idx], "detail", a,
                        DetailFailed(a))
           ELSE pc' = "loop" /\ app' = a /\ conns' = taken /\ client' = client
    BY <1>1, <1>4 DEF OverviewReply
  <2> HIDE DEF s, taken
  <2>5. /\ a \in AppType /\ Coherent(a) /\ a.status = s /\ a.screen = app.screen
        /\ a.detail = app.detail /\ a.detail_index = app.detail_index /\ a.cursor = app.cursor
    BY <2>1, UiFacts DEF AppType, Coherent
  <2> HIDE DEF a
  <2>6. CASE app.screen = "Detail" /\ idx # 0
    <3>1. [type |-> "detail", index |-> idx] \in Requests
      BY UiFacts DEF AppType, Requests
    <3>2. app.detail_index = None => app.cursor # 0 BY <2>6
    <3> HIDE DEF idx
    <3>3. /\ conns' \in ConnsType
          /\ \/ client' = None /\ pc' = "loop" /\ app' = DetailFailed(a)
             \/ client' = client /\ pc' = "detail" /\ app' = a
                /\ ClientOK(conns'[client], "detail", asked)
      BY <1>2, <2>3, <2>4, <2>6, <3>1, RequestOutcome DEF Request
    <3>4. CASE client' = None /\ pc' = "loop" /\ app' = DetailFailed(a)
      <4>1. app' \in AppType /\ Coherent(app') /\ app'.error BY <2>5, <3>4, FailedKeeps
      <4>2. StaleIsFlagged' BY <3>4, <4>1 DEF StaleIsFlagged
      <4> QED BY <1>1, <1>2, <3>3, <3>4, <4>1, <4>2, UiFacts, UiStepKeeps
    <3>5. CASE client' = client /\ pc' = "detail" /\ app' = a
               /\ ClientOK(conns'[client], "detail", asked)
      <4>1. StaleIsFlagged' BY <3>5 DEF StaleIsFlagged
      <4>2. /\ app' \in AppType /\ Coherent(app') /\ app'.screen = "Detail"
            /\ app'.status # None /\ app'.status.version >= asked
            /\ app'.detail_index = None => app'.cursor # 0
        BY <2>1, <2>2, <2>5, <2>6, <3>2, <3>5
      <4>3. client' \in Conns /\ client' # None /\ ClientOK(conns'[client'], pc', asked')
        BY <1>1, <1>2, <3>5
      <4> QED BY <1>1, <1>2, <3>3, <3>5, <4>1, <4>2, <4>3, UiFacts, UiStepKeeps
    <3> QED BY <3>3, <3>4, <3>5
  <2>7. CASE ~(app.screen = "Detail" /\ idx # 0)
    <3>1. app' = a /\ conns' = taken /\ pc' = "loop" /\ client' = client BY <2>4, <2>7
    <3>2. ~(a.screen = "Detail" /\ a.detail # None)
      <4> SUFFICES ASSUME a.screen = "Detail", a.detail # None PROVE FALSE
        OBVIOUS
      <4>1. app.detail \in Views /\ app.detail.index = app.detail_index
        BY <2>5, UiFacts DEF AppType, Coherent
      <4>2. app.detail_index # None /\ app.detail_index # 0
        BY <4>1, UiFacts, NameAssumption DEF Views, Coherent
      <4> QED BY <2>5, <2>7, <4>2
    <3>3. StaleIsFlagged' BY <1>1, <2>1, <2>5, <3>1, <3>2 DEF StaleIsFlagged
    <3>4. client' \in Conns /\ ClientOK(conns'[client'], pc', asked')
      BY <1>1, <1>2, <2>3, <3>1
    <3> HIDE DEF idx
    <3> QED BY <1>1, <1>2, <2>3, <2>5, <3>1, <3>3, <3>4, UiFacts, UiStepKeeps
  <2> QED BY <2>6, <2>7
<1> QED BY <1>3, <1>4

LEMMA DetailReplyKeeps == ASSUME IInv, DetailReply PROVE IInv'
<1> DEFINE d == conns[client].rep
           idx == IF app.detail_index # None THEN app.detail_index ELSE app.cursor
           view == [name |-> d.name, version |-> d.version, index |-> idx]
           shown == [app EXCEPT !.detail = view, !.detail_index = idx]
           taken == [conns EXCEPT ![client].rep = None]
<1>1. pc = "detail" /\ Readable /\ UNCHANGED <<daemon, inflight, results, asked>>
  BY DEF DetailReply, dmn
<1>2. /\ client \in Conns /\ client # None /\ conns[client] # None /\ conns[client].client
      /\ conns[client].req = None /\ conns[client].srv # "sending"
      /\ d \in Replies /\ Answers(d, asked)
      /\ asked \in Nat /\ asked # None /\ asked <= daemon.version
  BY <1>1, ReadableReply
<1>3. /\ app.screen = "Detail" /\ app.status # None /\ app.status.version >= asked
      /\ app.detail_index = None => app.cursor # 0
  BY <1>1 DEF IInv, PollInv
<1>4. CASE d.type = "status"
  <2>1. ReplyMissing(DetailFailed(app)) BY <1>1, <1>4 DEF DetailReply
  <2>2. DetailFailed(app) \in {Failed(app), DetailFailed(app)} OBVIOUS
  <2> QED BY <1>1, <2>1, <2>2, DroppedKeeps DEF ReplyMissing
<1>5. CASE d.type # "status"
  <2>1. /\ pc' = "loop" /\ conns' = taken /\ client' = client
        /\ app' = IF d.type = "error" THEN DetailFailed(app) ELSE shown
    BY <1>1, <1>5 DEF DetailReply
  <2>2. taken \in ConnsType /\ ClientOK(taken[client], "loop", asked)
    BY <1>2, ClientFacts, TakenType
  <2> HIDE DEF taken
  <2>3. conns' \in ConnsType /\ ClientOK(conns'[client'], pc', asked')
    BY <1>1, <2>1, <2>2
  <2>4. CASE d.type = "error"
    <3>1. app' \in AppType /\ Coherent(app') /\ app'.error BY <2>1, <2>4, UiFacts, FailedKeeps
    <3>2. StaleIsFlagged' BY <3>1 DEF StaleIsFlagged
    <3> HIDE DEF shown
    <3> QED BY <1>1, <1>2, <2>1, <2>3, <3>1, <3>2, UiFacts, UiStepKeeps
  <2>5. CASE d.type = "detail"
    <3>1. d \in Details /\ d.version >= asked BY <1>2, <2>5, ReplyKinds DEF Answers
    <3>2. idx \in Int /\ idx # 0 BY <1>3, UiFacts DEF AppType, Coherent
    <3> HIDE DEF d, idx
    <3>3. view \in Views /\ view.version >= asked /\ view.index = idx
      BY <3>1, <3>2 DEF Views, Details
    <3>4. view # None BY <3>3, NameAssumption
    <3>5. app' = shown BY <2>1, <2>5
    <3> HIDE DEF view
    <3>6. /\ shown \in AppType /\ shown.detail = view /\ shown.detail_index = idx
          /\ shown.screen = "Detail" /\ shown.status = app.status
      BY <1>3, <3>2, <3>3, UiFacts DEF AppType
    <3> HIDE DEF shown
    <3>7. Coherent(shown)
      BY <3>2, <3>3, <3>6, UiFacts DEF Coherent
    <3>8. StaleIsFlagged' BY <1>1, <1>3, <3>3, <3>5, <3>6 DEF StaleIsFlagged
    <3> QED BY <1>1, <1>2, <2>1, <2>3, <3>5, <3>6, <3>7, <3>8, UiFacts, UiStepKeeps
  <2> QED BY <1>2, <1>5, <2>4, <2>5, ReplyKinds
<1> QED BY <1>4, <1>5

-----------------------------------------------------------------------------
(* The invariant *)

LEMMA InitInv == Init => IInv
<1> SUFFICES ASSUME Init PROVE IInv
  OBVIOUS
<1>1. /\ daemon \in [up : BOOLEAN, cfg : Layouts, snap : Layouts \cup {None}, version : Nat]
      /\ daemon.snap # None => daemon.snap = daemon.cfg /\ daemon.up
  BY DEF Init
<1>2. /\ UiState \in AppType /\ Coherent(UiState)
      /\ UiState.status = None /\ UiState.detail = None
  BY NameAssumption DEF UiState, AppType, Coherent
<1>3. /\ conns = [c \in Conns |-> None] /\ pc = "loop" /\ client = None /\ app = UiState
      /\ inflight = {} /\ results = {} /\ asked = None
  BY DEF Init
<1>4. TypeInv BY <1>1, <1>2, <1>3 DEF TypeInv
<1> QED BY <1>1, <1>2, <1>3, <1>4
        DEF IInv, DaemonInv, ClientInv, PollInv, StaleIsFlagged

LEMMA NextInv == IInv /\ [Next]_vars => IInv'
<1> SUFFICES ASSUME IInv, [Next]_vars PROVE IInv'
  OBVIOUS
<1>1. ASSUME NEW key, NEW due, Iterate(key, due) PROVE IInv' BY <1>1, IterateKeeps
<1>2. ASSUME NEW key, Quit(key) PROVE IInv' BY <1>2, QuitKeeps
<1>3. ASSUME OverviewReply PROVE IInv' BY <1>3, OverviewReplyKeeps
<1>4. ASSUME DetailReply PROVE IInv' BY <1>4, DetailReplyKeeps
<1>5. ASSUME EndOfStream \/ Timeout PROVE IInv' BY <1>5, NoReplyKeeps
<1>6. ASSUME NEW c \in Conns, ServerStep(c) PROVE IInv'
  BY <1>6, AcceptKeeps, HandleConnectionKeeps, SendResponseKeeps DEF ServerStep
<1>7. ASSUME collect_tick \/ Crash \/ Restart PROVE IInv'
  BY <1>7, CollectTickKeeps, CrashKeeps, RestartKeeps
<1>8. ASSUME NEW l \in Layouts, reload(l) PROVE IInv' BY <1>8, ReloadKeeps
<1>9. ASSUME NEW f, NEW ok \in BOOLEAN, FetchDone(f, ok) PROVE IInv' BY <1>9, FetchDoneKeeps
<1>10. ASSUME TrendAges PROVE IInv' BY <1>10, TrendAgesKeeps
<1>11. ASSUME UNCHANGED vars PROVE IInv'
  BY <1>11 DEF vars, dmn, ui, IInv, TypeInv, DaemonInv, ClientInv, PollInv, StaleIsFlagged,
               Coherent, RowsOK
<1> QED BY <1>1, <1>2, <1>3, <1>4, <1>5, <1>6, <1>7, <1>8, <1>9, <1>10, <1>11 DEF Next

\* However the daemon crashes, restarts and answers late, and whatever keys are pressed, data
\* shown without an error are no older than the last poll.
THEOREM ShowsNothingStale == Spec => []StaleIsFlagged
<1>1. IInv => StaleIsFlagged BY DEF IInv
<1> QED BY <1>1, InitInv, NextInv, PTL DEF Spec

\* LIMITED counts stand beside the ranges they count, and a detail is of the row its view
\* was opened for, across reloads and failed polls.
THEOREM NamesAreRight == Spec => []ShownUnderItsName
<1>1. IInv => ShownUnderItsName BY DEF IInv, Coherent, RowsOK, ShownUnderItsName
<1> QED BY <1>1, InitInv, NextInv, PTL DEF Spec

=============================================================================
