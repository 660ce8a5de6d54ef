--------------------------------- MODULE Ui ---------------------------------
(***************************************************************************)
(* The --ui client (ui.rs and the state of tui.rs), the daemon's IPC       *)
(* server (accept loop, handle_connection, send_response) and the          *)
(* engine's side of a request (handle_request).  The client blocks on one  *)
(* request at a time with a timeout; trend queries run beside it and       *)
(* answer on a channel.                                                    *)
(*                                                                         *)
(* Abstractions.  What a reply says is reduced to the names of the ranges, *)
(* their LIMITED counts and a version, which grows whenever the engine's   *)
(* data change.  A range has one address with traffic, so the cursor and   *)
(* the sort order of the detail table are left out.  A chart is the        *)
(* selection (target, window, metric) it was queried for; that it is due   *)
(* again after 30 seconds is a step of its own.  A connection accepted     *)
(* without a permit waits as it does in the listen backlog, and a request  *)
(* in the engine's channel as it does in the socket.  Malformed and        *)
(* oversized requests are never sent by this client.                       *)
(***************************************************************************)
EXTENDS Integers, Sequences, FiniteSets

CONSTANTS
    Layouts,            \* configurations: sequences of range names
    Hot,                \* names of ranges with a LIMITED flow: ones that no reload removes
    Huge,               \* names of ranges whose detail exceeds MAX_RESPONSE_FRAME
    Keys,               \* keys the operator may press
    NWindows,           \* TREND_WINDOWS.len(), 4 in the code
    Conns,              \* connection identifiers
    MaxIpcConnections,  \* MAX_IPC_CONNECTIONS
    MetricsEnabled,     \* [metrics] enabled in the UI's copy of config.toml
    None,
    MaxVersion,         \* bound: changes of the engine's data, restarts aside
    MaxFaults,          \* bound: crashes of the daemon and client timeouts
    MaxInflight,        \* bound: trend queries under way
    MaxKeys             \* bound: keys pressed

ASSUME UiAssumption ==
    /\ {NWindows, MaxIpcConnections, MaxVersion, MaxInflight} \subseteq Nat \ {0}
    /\ {MaxFaults, MaxKeys} \subseteq Nat /\ MetricsEnabled \in BOOLEAN
    /\ \A l \in Layouts, name \in Hot : \E i \in DOMAIN l : l[i] = name

IPV6_RANGE_NAME == "IPv6"

\* The rows of the overview: those of the ranges and the aggregate one.
RowNames == STRING \cup {IPV6_RANGE_NAME}
Rows == [name : RowNames, limited : Nat]

\* What may be on its way between client and daemon, and what the UI may show.
Statuses == [type : {"status"}, version : Nat, ranges : Seq(Rows)]
Details == [type : {"detail"}, version : Nat, name : STRING]
Errors == [type : {"error"}]
Replies == Statuses \cup Details \cup Errors

Requests == [type : {"overview"}] \cup [type : {"detail"}, index : Int]

Connections ==
    [client : BOOLEAN, srv : {"backlog", "reading", "sending", "closed"},
     req : Requests \cup {None}, rep : Replies \cup {None}]

Views == [name : STRING, version : Nat, index : Int]

Selections ==
    [target : {"ip", "range"} \X RowNames, win : Nat \ {0}, kind : {"Bandwidth", "Packets"}]

Trends ==
    [sel : Selections, from : {"Overview", "Detail"}, data : Selections \cup {None},
     stale : BOOLEAN, error : BOOLEAN]

\* validate_ranges refuses a range with the name of the aggregate IPv6 row.
ASSUME NameAssumption ==
    /\ Layouts \subseteq Seq(STRING \ {IPV6_RANGE_NAME})
    /\ None \notin Layouts /\ None \notin Conns /\ None \notin Int
    /\ None \notin Replies /\ None \notin Requests /\ None \notin Connections
    /\ None \notin Views /\ None \notin Trends

VARIABLES
    daemon,     \* [up, cfg, snap (last_snapshot) or None, version]
    conns,      \* the connections, as both ends see them
    pc,         \* "loop", waiting for the reply to "overview" or "detail", or "quit"
    client,     \* the connection the UI holds, or None
    app,        \* UiState
    inflight,   \* trend queries under way: [sel, latest]; latest is seq = trend_seq
    results,    \* the trend channel: [sel, latest, ok]
    faults,     \* crashes and timeouts so far
    pressed,    \* keys so far
    asked       \* auxiliary: the daemon's version when the last poll began, None before it

dmn == <<daemon, faults>>
ui == <<pc, client, app, inflight, results, pressed, asked>>
vars == <<dmn, conns, ui>>

-----------------------------------------------------------------------------
(* The engine's answers *)

\* The LIMITED flows of the range that the configuration in force has at row i.
limited_count(d, i) == IF i \in DOMAIN d.cfg /\ d.cfg[i] \in Hot THEN 1 ELSE 0

\* The ranges of the last snapshot, then the aggregate IPv6 row.
build_status(d) ==
    [type |-> "status", version |-> d.version,
     ranges |-> IF d.snap = None THEN <<>>
                ELSE [i \in DOMAIN d.snap |->
                        [name |-> d.snap[i], limited |-> limited_count(d, i)]]
                     \o <<[name |-> IPV6_RANGE_NAME, limited |-> 0]>>]

build_range_detail(d, index) ==
    IF d.snap = None THEN None
    ELSE IF index \notin DOMAIN d.snap THEN None
    ELSE [type |-> "detail", version |-> d.version, name |-> d.snap[index]]

ErrorReply == [type |-> "error"]

handle_request(d, req) ==
    IF req.type = "overview" THEN build_status(d)
    ELSE LET detail == build_range_detail(d, req.index) IN
         IF detail = None THEN ErrorReply ELSE detail

TooLarge(resp) == resp.type = "detail" /\ resp.name \in Huge

-----------------------------------------------------------------------------
(* Connections: client says whether the client's end is open; srv is where  *)
(* the server is with it; req and rep are what lies in the socket.          *)

Fresh == [client |-> TRUE, srv |-> "backlog", req |-> None, rep |-> None]

\* A connection that both ends have left is gone.
Settled(c) == IF c = None \/ c.client \/ c.srv # "closed" THEN c ELSE None

ClientLeaves(cs, c) == [cs EXCEPT ![c] = Settled([@ EXCEPT !.client = FALSE])]
ServerLeaves(cs, c) == [cs EXCEPT ![c] = Settled([@ EXCEPT !.srv = "closed"])]

Serving == {c \in Conns : conns[c] # None /\ conns[c].srv \in {"reading", "sending"}}

\* A permit is held until the connection ends.
Accept(c) ==
    /\ conns[c] # None /\ conns[c].srv = "backlog"
    /\ Cardinality(Serving) < MaxIpcConnections
    /\ conns' = [conns EXCEPT ![c].srv = "reading"]
    /\ UNCHANGED <<dmn, ui>>

\* handle_connection: the next request goes to the engine loop, which answers it; at the
\* end of the stream the connection ends.
handle_connection(c) ==
    /\ conns[c] # None /\ conns[c].srv = "reading"
    /\ \/ /\ conns[c].req # None
          /\ conns' = [conns EXCEPT ![c].srv = "sending", ![c].req = None,
                                    ![c].rep = handle_request(daemon, conns[c].req)]
       \/ /\ conns[c].req = None /\ ~conns[c].client
          /\ conns' = ServerLeaves(conns, c)
    /\ UNCHANGED <<dmn, ui>>

\* The reply goes out, an Error instead of one above the frame limit; the connection
\* ends if the client is gone or the reply was too large.
send_response(c) ==
    /\ conns[c] # None /\ conns[c].srv = "sending"
    /\ conns' = IF ~conns[c].client THEN ServerLeaves(conns, c)
                ELSE IF TooLarge(conns[c].rep)
                THEN [conns EXCEPT ![c].srv = "closed", ![c].rep = ErrorReply]
                ELSE [conns EXCEPT ![c].srv = "reading"]
    /\ UNCHANGED <<dmn, ui>>

-----------------------------------------------------------------------------
(* The daemon's data *)

Changed(d) == [d EXCEPT !.version = @ + 1]

collect_tick ==
    /\ daemon.up /\ daemon.version < MaxVersion
    /\ daemon' = Changed([daemon EXCEPT !.snap = daemon.cfg])
    /\ UNCHANGED <<faults, conns, ui>>

\* Variant: the snapshot of the old configuration is served until the next tick.
reload_without_poll(l) ==
    /\ daemon.up /\ daemon.version < MaxVersion
    /\ daemon' = Changed([daemon EXCEPT !.cfg = l])
    /\ UNCHANGED <<faults, conns, ui>>

\* A reload that is applied ends with a poll under the new configuration.
reload(l) ==
    /\ daemon.up /\ daemon.version < MaxVersion
    /\ daemon' = Changed([daemon EXCEPT !.snap = l, !.cfg = l])
    /\ UNCHANGED <<faults, conns, ui>>

\* The daemon ends: its ends of all connections close, a reply already sent can be read.
Crash ==
    /\ daemon.up /\ faults < MaxFaults
    /\ daemon' = [daemon EXCEPT !.up = FALSE, !.snap = None]
    /\ conns' = [c \in Conns |->
                   IF conns[c] = None THEN None
                   ELSE Settled([conns[c] EXCEPT
                          !.srv = "closed", !.req = None,
                          !.rep = IF conns[c].srv = "sending" THEN None ELSE @])]
    /\ faults' = faults + 1
    /\ UNCHANGED ui

Restart ==
    /\ ~daemon.up
    /\ \E l \in Layouts : daemon' = Changed([daemon EXCEPT !.up = TRUE, !.cfg = l])
    /\ UNCHANGED <<faults, conns, ui>>

-----------------------------------------------------------------------------
(* UiState.  The overview cursor counts from 1; 0 is no selection. *)

UiState ==
    [screen |-> "Overview", cursor |-> 0, detail_index |-> None, detail |-> None,
     status |-> None, error |-> FALSE, help |-> FALSE, trend |-> None]

Selection(target, win, kind) == [target |-> target, win |-> win, kind |-> kind]

TrendView(target, from) ==
    [sel |-> Selection(target, 1, "Bandwidth"), from |-> from, data |-> None,
     stale |-> TRUE, error |-> FALSE]

\* Variant: a new selection is not fetched before the old one was due again.
clear_for_new_selection_lazily(t) == [t EXCEPT !.data = None, !.error = FALSE]

clear_for_new_selection(t) ==
    [t EXCEPT !.data = None, !.error = FALSE, !.stale = TRUE]

RowCount(a) == IF a.status = None THEN 0 ELSE Len(a.status.ranges)

Clamp(i, lo, hi) == IF i < lo THEN lo ELSE IF i > hi THEN hi ELSE i

\* draw_overview clamps the cursor to the rows it draws.
draw(a) ==
    IF a.screen # "Overview" \/ a.status = None THEN a
    ELSE [a EXCEPT !.cursor = IF RowCount(a) = 0 THEN 0 ELSE Clamp(@, 1, RowCount(a))]

move_selection(a, delta) ==
    [a EXCEPT !.cursor = IF RowCount(a) = 0 THEN 0
                         ELSE Clamp((IF @ = 0 THEN 1 ELSE @) + delta, 1, RowCount(a))]

-----------------------------------------------------------------------------
(* handle_key: the state after a key, and whether the loop polls at once *)

Does(a, action) == [app |-> a, action |-> action]

Digits == [d \in {"1", "2", "3", "4"} |->
             CASE d = "1" -> 1 [] d = "2" -> 2 [] d = "3" -> 3 [] d = "4" -> 4]

\* The trend shows another window or metric.
Reselected(a, win, kind) ==
    LET sel == Selection(a.trend.sel.target, win, kind) IN
    Does([a EXCEPT !.trend = clear_for_new_selection([@ EXCEPT !.sel = sel])], "Refresh")

TrendKey(a, key) ==
    LET t == a.trend
        win == t.sel.win
        kind == t.sel.kind
        Window(w) == IF w = win THEN Does(a, "Nothing") ELSE Reselected(a, w, kind)
        Kind(k) == IF k = kind THEN Does(a, "Nothing") ELSE Reselected(a, win, k)
    IN  CASE key = "Left" -> Window(IF win = 1 THEN NWindows ELSE win - 1)
          [] key \in DOMAIN Digits -> Window(Digits[key])
          [] key = "Right" -> Reselected(a, (win % NWindows) + 1, kind)
          [] key = "b" -> Kind("Bandwidth")
          [] key = "p" -> Kind("Packets")
          [] OTHER -> Does(a, "Nothing")

OpenTrend(a, target) ==
    Does([a EXCEPT !.trend = TrendView(target, a.screen), !.screen = "Trend"], "Refresh")

\* The row under the cursor, or None.
Row(a) == IF a.cursor \in 1..RowCount(a) THEN a.status.ranges[a.cursor].name ELSE None

Enter(a) ==
    IF a.screen = "Overview"
    THEN IF a.cursor = 0 \/ Row(a) = IPV6_RANGE_NAME THEN Does(a, "Nothing")
         ELSE Does([a EXCEPT !.screen = "Detail", !.detail_index = a.cursor], "Refresh")
    ELSE IF a.screen = "Detail" /\ a.detail # None
    THEN OpenTrend(a, <<"ip", a.detail.name>>)
    ELSE Does(a, "Nothing")

OpenRangeTrend(a) ==
    LET name == IF a.screen = "Overview" THEN Row(a)
                ELSE IF a.detail = None THEN None ELSE a.detail.name
    IN  IF name = None THEN Does(a, "Nothing") ELSE OpenTrend(a, <<"range", name>>)

Esc(a) ==
    LET Leave == [a EXCEPT !.screen = "Overview", !.detail = None, !.detail_index = None]
    IN  CASE a.screen = "Detail" -> Does(Leave, "Nothing")
          [] a.screen = "Trend" ->
               LET back == IF a.trend.from = "Overview" THEN Leave
                           ELSE [a EXCEPT !.screen = a.trend.from]
               IN  Does([back EXCEPT !.trend = None], "Refresh")
          [] a.screen = "Overview" -> Does(a, "Nothing")

handle_key(a, key) ==
    CASE key = "ctrl-c" -> Does(a, "Quit")
      [] key # "ctrl-c" /\ a.help -> Does([a EXCEPT !.help = FALSE], "Nothing")
      [] ~a.help /\ key = "q" -> Does(a, "Quit")
      [] ~a.help /\ key = "r" ->
           Does(IF a.screen = "Trend" THEN [a EXCEPT !.trend.stale = TRUE] ELSE a, "Refresh")
      [] ~a.help /\ key = "h" ->
           Does([a EXCEPT !.help = (a.screen = "Overview")], "Nothing")
      [] ~a.help /\ key \in {"Up", "Down"} ->
           Does(IF a.screen # "Overview" THEN a
                ELSE move_selection(a, IF key = "Up" THEN -1 ELSE 1), "Nothing")
      [] ~a.help /\ key = "Enter" -> Enter(a)
      [] ~a.help /\ key = "t" ->
           IF a.screen = "Trend" THEN Does(a, "Nothing") ELSE OpenRangeTrend(a)
      [] ~a.help /\ key = "Esc" -> Esc(a)
      [] OTHER -> IF a.screen = "Trend" /\ ~a.help THEN TrendKey(a, key) ELSE Does(a, "Nothing")

-----------------------------------------------------------------------------
(* Trend queries *)

\* The loop empties the channel.  Results of superseded fetches are dropped, and at most
\* one is of the latest.
DrainTrend(a) ==
    LET fresh == {r \in results : r.latest} IN
    IF fresh = {} \/ a.trend = None THEN a
    ELSE LET r == CHOOSE r \in fresh : TRUE IN
         [a EXCEPT !.trend.data = IF r.ok THEN r.sel ELSE None, !.trend.error = ~r.ok]

TrendDue(a) == a.screen = "Trend" /\ a.trend.stale

fetch_trend(a) ==
    [a EXCEPT !.trend.stale = FALSE, !.trend.error = ~MetricsEnabled]

\* What is under way after fetch_trend: the queries before it are superseded.
Fetching(a) ==
    IF ~MetricsEnabled THEN inflight
    ELSE {[f EXCEPT !.latest = FALSE] : f \in inflight} \cup {[sel |-> a.trend.sel, latest |-> TRUE]}

\* A query answers, or fails, its five-second timeout included.
FetchDone(f, ok) ==
    /\ f \in inflight
    /\ inflight' = inflight \ {f}
    /\ results' = results \cup {[sel |-> f.sel, latest |-> f.latest, ok |-> ok]}
    /\ UNCHANGED <<dmn, conns, pc, client, app, pressed, asked>>

\* Thirty seconds after the last fetch the trend is due again.  By then the query has
\* ended (timeout: 5 s), and so has every request to the daemon (IO_TIMEOUT: 2 s).
TrendAges ==
    /\ app.trend # None /\ ~app.trend.stale
    /\ pc = "loop" /\ \A f \in inflight \cup results : ~f.latest
    /\ app' = [app EXCEPT !.trend.stale = TRUE]
    /\ UNCHANGED <<dmn, conns, pc, client, inflight, results, pressed, asked>>

-----------------------------------------------------------------------------
(* The loop of run_ui.  A poll blocks in a request until its reply, the end  *)
(* of the stream or the timeout.                                             *)

Unreachable(a) == [a EXCEPT !.error = TRUE, !.status = None, !.detail = None]
Failed(a) == [a EXCEPT !.error = TRUE]
DetailFailed(a) == [a EXCEPT !.error = TRUE, !.detail = None]

\* Client::connect succeeds while the daemon listens; which identifier a connection has
\* does not matter.
Connectable == {c \in Conns : daemon.up /\ conns[c] = None}

\* Variant: a connection on which a request cannot be written is kept.
RequestKeeping(c, cs, req, at, a, failed) ==
    IF cs[c].srv = "closed"
    THEN conns' = cs /\ client' = c /\ pc' = "loop" /\ app' = failed
    ELSE /\ conns' = [cs EXCEPT ![c].req = req] /\ client' = c /\ pc' = at /\ app' = a

\* The request is written and its reply awaited at `at`; on a connection the server has
\* closed it fails, and the client is dropped.
Request(c, cs, req, at, a, failed) ==
    IF cs[c].srv = "closed"
    THEN /\ conns' = ClientLeaves(cs, c) /\ client' = None /\ pc' = "loop" /\ app' = failed
    ELSE /\ conns' = [cs EXCEPT ![c].req = req] /\ client' = c /\ pc' = at /\ app' = a

\* poll, up to the reply to Overview.
poll(a) ==
    LET due == TrendDue(a)
        b == IF due THEN fetch_trend(a) ELSE a
        overview == [type |-> "overview"]
    IN  /\ inflight' = IF due THEN Fetching(a) ELSE inflight
        /\ Cardinality(inflight') <= MaxInflight
        /\ asked' = daemon.version
        /\ IF client # None THEN Request(client, conns, overview, "overview", b, Failed(b))
           ELSE IF Connectable = {}
           THEN app' = Unreachable(b) /\ pc' = "loop" /\ UNCHANGED <<conns, client>>
           ELSE LET c == CHOOSE c \in Connectable : TRUE IN
                Request(c, [conns EXCEPT ![c] = Fresh], overview, "overview",
                        [b EXCEPT !.error = FALSE], Failed(b))

\* One iteration: draw, wait for a key (None: none came), empty the trend channel,
\* poll if it is due or asked for.  run_ui polls once before it looks at keys.
Iterate(key, due) ==
    LET drawn == draw(app)
        k == IF key = None THEN Does(drawn, "Nothing") ELSE handle_key(drawn, key)
        a == DrainTrend(k.app)
    IN  /\ pc = "loop" /\ k.action # "Quit"
        /\ asked = None => key = None /\ due
        /\ pressed' = IF key = None THEN pressed ELSE pressed + 1
        /\ pressed' <= MaxKeys
        /\ results' = {}
        /\ IF due \/ k.action = "Refresh" THEN poll(a)
           ELSE app' = a /\ UNCHANGED <<conns, pc, client, inflight, asked>>
        /\ UNCHANGED dmn

\* The process ends, and with it its connection and its queries.
Quit(key) ==
    /\ pc = "loop" /\ asked # None /\ handle_key(draw(app), key).action = "Quit"
    /\ pc' = "quit" /\ client' = None
    /\ conns' = IF client = None THEN conns ELSE ClientLeaves(conns, client)
    /\ app' = UiState /\ inflight' = {} /\ results' = {}
    /\ UNCHANGED <<dmn, pressed, asked>>

Readable == conns[client].rep # None /\ conns[client].srv # "sending"

\* Variant: the connection survives a request that failed.
ReplyMissingKept(a) == pc' = "loop" /\ app' = a /\ UNCHANGED <<conns, client>>

\* Timeout, end of stream, or a reply of the wrong type: the connection is dropped.
ReplyMissing(a) ==
    /\ pc' = "loop" /\ app' = a
    /\ conns' = ClientLeaves(conns, client) /\ client' = None

\* The reply to Overview; on the detail screen the detail is requested next.
OverviewReply ==
    /\ pc = "overview" /\ Readable
    /\ LET s == conns[client].rep
            taken == [conns EXCEPT ![client].rep = None]
            a == [app EXCEPT !.status = s, !.error = FALSE]
            idx == IF app.detail_index # None THEN app.detail_index ELSE app.cursor
        IN  IF s.type # "status" THEN ReplyMissing(Failed(app))
            ELSE IF app.screen = "Detail" /\ idx # 0
            THEN Request(client, taken, [type |-> "detail", index |-> idx], "detail", a,
                         DetailFailed(a))
            ELSE pc' = "loop" /\ app' = a /\ conns' = taken /\ UNCHANGED client
    /\ UNCHANGED <<dmn, inflight, results, pressed, asked>>

\* The reply to RangeDetail: the detail, or an Error to show.
DetailReply ==
    /\ pc = "detail" /\ Readable
    /\ LET d == conns[client].rep
            idx == IF app.detail_index # None THEN app.detail_index ELSE app.cursor
        IN  IF d.type = "status" THEN ReplyMissing(DetailFailed(app))
            ELSE /\ pc' = "loop" /\ conns' = [conns EXCEPT ![client].rep = None]
                 /\ app' = IF d.type = "error" THEN DetailFailed(app)
                           ELSE [app EXCEPT !.detail = [name |-> d.name, version |-> d.version,
                                                        index |-> idx],
                                            !.detail_index = idx]
                 /\ UNCHANGED client
    /\ UNCHANGED <<dmn, inflight, results, pressed, asked>>

NoReply ==
    /\ ReplyMissing(IF pc = "overview" THEN Failed(app) ELSE DetailFailed(app))
    /\ UNCHANGED <<daemon, inflight, results, pressed, asked>>

\* The server has closed the connection.
EndOfStream ==
    /\ pc \in {"overview", "detail"} /\ ~Readable /\ conns[client].srv = "closed"
    /\ NoReply /\ UNCHANGED faults

\* No reply within IO_TIMEOUT.
Timeout ==
    /\ pc \in {"overview", "detail"} /\ ~Readable /\ faults < MaxFaults
    /\ NoReply /\ faults' = faults + 1

-----------------------------------------------------------------------------
Init ==
    /\ \E l \in Layouts, up \in BOOLEAN, snap \in {None} \cup Layouts :
         /\ snap \in {None, l} /\ (snap # None => up)
         /\ daemon = [up |-> up, cfg |-> l, snap |-> snap, version |-> 0]
    /\ conns = [c \in Conns |-> None]
    /\ pc = "loop" /\ client = None /\ app = UiState
    /\ inflight = {} /\ results = {}
    /\ faults = 0 /\ pressed = 0 /\ asked = None

UiStep == OverviewReply \/ DetailReply \/ EndOfStream \/ Iterate(None, TRUE)

ServerStep(c) == Accept(c) \/ handle_connection(c) \/ send_response(c)

Next ==
    \/ \E key \in Keys \cup {None}, due \in BOOLEAN : Iterate(key, due)
    \/ \E key \in Keys : Quit(key)
    \/ OverviewReply \/ DetailReply \/ EndOfStream \/ Timeout
    \/ \E c \in Conns : ServerStep(c)
    \/ collect_tick \/ Crash \/ Restart
    \/ \E l \in Layouts : reload(l)
    \/ \E f \in inflight, ok \in BOOLEAN : FetchDone(f, ok)
    \/ TrendAges

Spec == Init /\ [][Next]_vars

\* The UI polls every second, the server's tasks and the engine run, a query ends by its
\* timeout, the service manager restarts the daemon, the collector ticks.  Nothing is
\* assumed of the operator, and nothing of the thirty seconds.
Fairness ==
    /\ WF_vars(UiStep)
    /\ \A c \in Conns : WF_vars(ServerStep(c))
    /\ WF_vars(Restart) /\ WF_vars(collect_tick)
    /\ WF_vars(\E f \in inflight, ok \in BOOLEAN : FetchDone(f, ok))

FairSpec == Spec /\ Fairness

-----------------------------------------------------------------------------
(* Properties *)

\* Data that the screen shows without an error are no older than the last poll: the reply
\* to a request that timed out, or of a connection that broke, is never taken for the
\* reply to a later one, whatever the daemon and the server's tasks do meanwhile.
StaleIsFlagged ==
    pc = "loop" /\ ~app.error =>
      /\ app.status # None => app.status.version >= asked
      /\ app.screen = "Detail" /\ app.detail # None => app.detail.version >= asked

\* What the screen shows belongs to the range it names: the LIMITED count of an overview
\* row, although rows come from the last snapshot and counts from the configuration in
\* force, and the detail, which is of the index its view was opened for through every way
\* into and out of the detail and trend screens and every failed poll.
ShownUnderItsName ==
    /\ app.status # None =>
         \A i \in DOMAIN app.status.ranges :
           LET row == app.status.ranges[i] IN row.limited > 0 <=> row.name \in Hot
    /\ app.detail # None => app.detail.index = app.detail_index /\ app.screen # "Overview"

\* A running UI catches up with the daemon again and again, after crashes, restarts,
\* timeouts and replies that are too large: no connection keeps its permit for ever, and
\* no broken connection is used for ever.
UiRecovers ==
    []<>(\/ pc = "quit"
         \/ /\ pc = "loop" /\ app.status # None /\ app.status.version = daemon.version
            /\ app.screen = "Detail" \/ ~app.error)

\* A trend that stays on one selection comes to show that selection, or an error, without
\* waiting for the periodic refresh.
TrendSettles ==
    \A w \in 1..NWindows, k \in {"Bandwidth", "Packets"} :
      (app.trend # None /\ app.trend.sel.win = w /\ app.trend.sel.kind = k) ~>
        \/ app.trend = None
        \/ app.trend.sel.win # w \/ app.trend.sel.kind # k
        \/ app.trend.data = app.trend.sel \/ app.trend.error

\* The chart on screen belongs to the selection in its title: "it belongs to the previous
\* selection and must not appear under the new title" (clear_for_new_selection).
TrendMatchesTitle ==
    app.trend # None /\ app.trend.data # None => app.trend.data = app.trend.sel

=============================================================================
