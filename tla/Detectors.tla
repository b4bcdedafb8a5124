----------------------------- MODULE Detectors ------------------------------
(***************************************************************************)
(* Agent 1 (agents/agent1_anomaly): four detectors look at every event of  *)
(* an account and keep a history each.  A check never suspends, so         *)
(* detect_anomalies is one step.  Two times are in play.  The velocity and *)
(* wash trade detectors read the clock of their process (utcnow), which    *)
(* counts seconds and does not go back; the spoofing detector takes the    *)
(* timestamp that the producer gave the event, which may be late, early or *)
(* out of order.  Shares are kept as fractions, so that comparisons are    *)
(* exact.                                                                  *)
(***************************************************************************)
EXTENDS Integers, Sequences, FiniteSets, FiniteSetsExt

CONSTANTS
  Events,            \* [account, symbol, order, action, side, price, qty, stamp]
  Advances,          \* how far the clock may move between two events
  MaxEvents,         \* bound: events checked
  WindowSize,        \* of the velocity check, in seconds
  MaxRate,           \* max_orders_per_second
  Lookback,          \* lookback_periods of the VWAP monitor
  MinHistory,        \* entries below which the VWAP monitor is silent
  WashWindow,        \* time_window_seconds
  MinRoundTrips

ASSUME DetectorAssumption ==
  /\ {WindowSize, MaxRate, Lookback, MinHistory, WashWindow, MinRoundTrips} \subseteq Nat \ {0}
  /\ Advances \subseteq Nat /\ MaxEvents \in Nat
  /\ \A e \in Events : /\ e.action \in {"SUBMIT", "CANCEL", "FILL", "MODIFY"}
                       /\ e.side \in {"BUY", "SELL"}
                       /\ e.price \in Int /\ e.qty \in Int /\ e.stamp \in Int

VARIABLES
  now,
  velocity,     \* _account_windows: the times of an account's recent events
  vwap,         \* _vwap_windows: the last entries of an account in a symbol
  wash,         \* _trade_history: the recent events of an account in a symbol
  lifecycle,    \* _order_lifecycles
  orders,       \* _account_orders: the order IDs an account submitted
  findings,     \* anomaly_results of the last event
  history       \* history: all events, with the time of each

vars == <<now, velocity, vwap, wash, lifecycle, orders, findings, history>>

-----------------------------------------------------------------------------
Accounts == {e.account : e \in Events}
Books    == {<<e.account, e.symbol>> : e \in Events}     \* account_id:symbol
OrderIDs == {e.order : e \in Events}
Book(e)  == <<e.account, e.symbol>>

Abs(n) == IF n < 0 THEN -n ELSE n
AtLeastOne(n) == IF n < 1 THEN 1 ELSE n

(* Mutant: the share is not capped. *)
ShareUncapped(n, d) == <<n, d>>

(* A share n / d, at most 1. *)
Share(n, d)         == IF n >= d THEN <<1, 1>> ELSE <<n, d>>
Exceeds(s, percent) == 100 * s[1] > percent * s[2]
Below(s, percent)   == 100 * s[1] < percent * s[2]

Finding(type, severity, recommendation) ==
  [type |-> type, severity |-> severity, recommendation |-> recommendation]

(* Mutant: the window is never trimmed. *)
RecentUntrimmed(w, cutoff) == w

(* popleft while the first entry is older than the cutoff. *)
Recent(w, cutoff) ==
  LET young == {i \in DOMAIN w : w[i].at >= cutoff} IN
  IF young = {} THEN <<>> ELSE SubSeq(w, Min(young), Len(w))

-----------------------------------------------------------------------------
(* VelocityChecker.check.  The rate is that over the time since the oldest *)
(* event in the window, at least a second.                                 *)
VelocityWindow(e) == Append(Recent(velocity[e.account], now' - WindowSize), [at |-> now'])

Span(w) == IF Len(w) > 1 THEN AtLeastOne(w[Len(w)].at - w[1].at) ELSE 1

TooFast(w) == Len(w) > MaxRate * Span(w)

VelocityFinding(w) ==
  LET limit    == MaxRate * Span(w)
      severity == Share(Len(w) - limit, limit) IN
  Finding("velocity", severity, IF Exceeds(severity, 50) THEN "BLOCK" ELSE "FLAG")

(* VWAPMonitor: the average is taken before the event is added, the number *)
(* of entries after.                                                       *)
FloorDiv(n, d) == IF d > 0 THEN n \div d ELSE (-n) \div (-d)

VWAP(w) ==
  LET value  == SumFunctionOnSet([i \in DOMAIN w |-> w[i].price * w[i].qty], DOMAIN w)
      volume == SumFunctionOnSet([i \in DOMAIN w |-> w[i].qty], DOMAIN w) IN
  IF volume = 0 THEN 0 ELSE FloorDiv(value, volume)

(* A deque of at most n entries. *)
Bounded(w, n) == IF Len(w) > n THEN Tail(w) ELSE w

VWAPWindow(e) == Bounded(Append(vwap[Book(e)], [price |-> e.price, qty |-> e.qty]), Lookback)

(* More than 5 % away from an average that exists. *)
Deviates(price, average) ==
  average > 0 /\ 100 * Abs(price - average) > 5 * average

VWAPFinding(price, average) ==
  LET severity == Share(100 * Abs(price - average), 5 * average) IN
  Finding("vwap", severity, IF Below(severity, 70) THEN "FLAG" ELSE "BLOCK")

(* WashTradeDetector: earlier events on the other side at a price within   *)
(* one percent.                                                            *)
Opposite(prev, e) ==
  prev.side # e.side /\ 100 * Abs(prev.price - e.price) < AtLeastOne(prev.price)

RoundTrips(w, e) == Cardinality({i \in DOMAIN w : Opposite(w[i], e)})

WashFinding(trips) ==
  LET severity == Share(trips, 2 * MinRoundTrips) IN
  Finding("wash_trade", severity, IF Exceeds(severity, 60) THEN "BLOCK" ELSE "FLAG")

WashWindowBefore(e) == Recent(wash[Book(e)], now' - WashWindow)

-----------------------------------------------------------------------------
(* SpoofingDetector. *)
Unknown      == [known |-> FALSE, submitted |-> 0, cancelled |-> FALSE, filled |-> 0]
Submitted(t) == [known |-> TRUE, submitted |-> t, cancelled |-> FALSE, filled |-> 0]

(* Mutant: a fill is not noted. *)
LifecyclesWithoutFills(e) ==
  CASE e.action = "SUBMIT" ->
         [lifecycle EXCEPT ![e.order] = Submitted(e.stamp)]
    [] e.action = "CANCEL" /\ lifecycle[e.order].known ->
         [lifecycle EXCEPT ![e.order].cancelled = TRUE]
    [] OTHER -> lifecycle

(* A submission begins the life of the order, also of one that had begun   *)
(* before; a fill replaces the quantity filled.                            *)
Lifecycles(e) ==
  CASE e.action = "SUBMIT" ->
         [lifecycle EXCEPT ![e.order] = Submitted(e.stamp)]
    [] e.action = "CANCEL" /\ lifecycle[e.order].known ->
         [lifecycle EXCEPT ![e.order].cancelled = TRUE]
    [] e.action = "FILL" /\ lifecycle[e.order].known ->
         [lifecycle EXCEPT ![e.order].filled = e.qty]
    [] OTHER -> lifecycle

AccountOrders(e) ==
  IF e.action = "SUBMIT" THEN [orders EXCEPT ![e.account] = Append(@, e.order)] ELSE orders

(* _calculate_cancellation_rate; an order ID counts as often as it was     *)
(* submitted.                                                              *)
CancellationRate(account) ==
  LET ids       == orders[account]
      cancelled == {i \in DOMAIN ids : lifecycle'[ids[i]].cancelled} IN
  IF ids = <<>> THEN <<0, 1>> ELSE <<Cardinality(cancelled), Len(ids)>>

(* Cancelled within a second and without a fill, by the producer's time: a *)
(* cancellation stamped before the submission is within the second.        *)
Suspicious(e) ==
  /\ e.action = "CANCEL" /\ lifecycle[e.order].known
  /\ e.stamp - lifecycle[e.order].submitted < 1
  /\ lifecycle[e.order].filled = 0

SpoofFinding(rate) ==
  Finding("spoofing", Share(rate[1], rate[2]), IF Exceeds(rate, 70) THEN "BLOCK" ELSE "FLAG")

-----------------------------------------------------------------------------
Init ==
  /\ now = 0
  /\ velocity = [a \in Accounts |-> <<>>]
  /\ vwap = [b \in Books |-> <<>>]
  /\ wash = [b \in Books |-> <<>>]
  /\ lifecycle = [o \in OrderIDs |-> Unknown]
  /\ orders = [a \in Accounts |-> <<>>]
  /\ findings = {} /\ history = <<>>

(* detect_anomalies keeps the results that are anomalous. *)
Detect(e) ==
  LET average == VWAP(vwap[Book(e)])
      trips   == RoundTrips(WashWindowBefore(e), e)
      rate    == CancellationRate(e.account) IN
  /\ velocity' = [velocity EXCEPT ![e.account] = VelocityWindow(e)]
  /\ vwap' = [vwap EXCEPT ![Book(e)] = VWAPWindow(e)]
  /\ wash' = [wash EXCEPT ![Book(e)] = Append(WashWindowBefore(e),
                [side |-> e.side, price |-> e.price, at |-> now'])]
  /\ lifecycle' = Lifecycles(e)
  /\ orders' = AccountOrders(e)
  /\ findings' =
       {f \in {VelocityFinding(velocity'[e.account])} : TooFast(velocity'[e.account])}
       \cup {f \in {VWAPFinding(e.price, average)} :
               Len(vwap'[Book(e)]) >= MinHistory /\ Deviates(e.price, average)}
       \cup {f \in {WashFinding(trips)} : trips >= MinRoundTrips}
       \cup {f \in {SpoofFinding(rate)} : Suspicious(e) /\ Exceeds(rate, 80)}
  /\ history' = Append(history, [event |-> e, at |-> now'])

Check ==
  /\ Len(history) < MaxEvents
  /\ \E d \in Advances : now' = now + d
  /\ \E e \in Events : Detect(e)

Quiet == Len(history) = MaxEvents /\ UNCHANGED vars

Next == Check \/ Quiet

Spec == Init /\ [][Next]_vars

-----------------------------------------------------------------------------
(* max_anomaly_severity *)
MaxSeverity(F) ==
  IF F = {} THEN <<0, 1>>
  ELSE LET shares == {f.severity : f \in F} IN
       CHOOSE s \in shares : \A t \in shares : s[1] * t[2] >= t[1] * s[2]

(* What Agent 1 hands on is well-formed: the severity of every result is a *)
(* share between 0 and 1, as the model of a result demands, and there is   *)
(* one result of a detector at most.                                       *)
FindingsWellFormed ==
  /\ \A f \in findings : /\ f.type \in {"velocity", "vwap", "wash_trade", "spoofing"}
                         /\ f.severity[2] > 0
                         /\ 0 <= f.severity[1] /\ f.severity[1] <= f.severity[2]
                         /\ f.recommendation \in {"FLAG", "BLOCK"}
  /\ \A f, g \in findings : f.type = g.type => f = g

LastOf(s) == s[Len(s)]

(* The positions of the history that concern an account, or an account in  *)
(* a symbol, and those of them within d seconds of the last one.           *)
OfAccount(a) == {i \in DOMAIN history : history[i].event.account = a}
OfBook(b)    == {i \in DOMAIN history : Book(history[i].event) = b}
Young(S, d)  == {i \in S : \A j \in S : history[j].at - history[i].at <= d}

(* What the detectors keep of an event. *)
Times  == [i \in DOMAIN history |-> [at |-> history[i].at]]
Quotes == [i \in DOMAIN history |->
             [price |-> history[i].event.price, qty |-> history[i].event.qty]]
Trades == [i \in DOMAIN history |->
             [side |-> history[i].event.side, price |-> history[i].event.price,
              at |-> history[i].at]]

(* w lists, in order, the entries at the positions f, all of them in S.    *)
Lists(w, f, S, entry) ==
  /\ f \in [DOMAIN w -> S]
  /\ \A k, l \in DOMAIN w : k < l => f[k] < f[l]
  /\ \A k \in DOMAIN w : w[k] = entry[f[k]]

(* w lists all of S; w lists the last n positions of S, or all.            *)
ListsAll(w, S, entry) ==
  \E f \in [DOMAIN w -> S] :
    Lists(w, f, S, entry) /\ \A i \in S : \E k \in DOMAIN w : f[k] = i
ListsLast(w, S, n, entry) ==
  /\ Len(w) <= n
  /\ \E f \in [DOMAIN w -> S] :
       /\ Lists(w, f, S, entry)
       /\ \A i \in S : \/ \E k \in DOMAIN w : f[k] = i
                       \/ Len(w) = n /\ \A k \in DOMAIN w : i < f[k]

(* The histories the detectors trim as they go hold exactly the events     *)
(* they are meant to: those of the window that ended with the last event   *)
(* of the account, or of the account in the symbol, and no others.         *)
WindowsHoldHistory ==
  /\ \A a \in Accounts : ListsAll(velocity[a], Young(OfAccount(a), WindowSize), Times)
  /\ \A b \in Books : /\ ListsAll(wash[b], Young(OfBook(b), WashWindow), Trades)
                      /\ ListsLast(vwap[b], OfBook(b), Lookback, Quotes)

Found(type) == \E f \in findings : f.type = type
Since(type) == {f \in findings : f.type = type}

(* The last submission of the order o is the i-th event.                  *)
IsOf(i, o, action)   == history[i].event.order = o /\ history[i].event.action = action
LastSubmission(i, o) ==
  IsOf(i, o, "SUBMIT") /\ \A j \in DOMAIN history : j > i => ~IsOf(j, o, "SUBMIT")

(* It was not filled since, or last with a quantity of zero: a fill        *)
(* replaces what was filled before.                                        *)
NotFilledSince(i, o) ==
  \A j \in i .. Len(history) : IsOf(j, o, "FILL") =>
    \E k \in j .. Len(history) : IsOf(k, o, "FILL") /\ history[k].event.qty = 0

(* A result is backed by the history: a spoofing result by an order whose  *)
(* last submission is stamped less than a second before its cancellation,  *)
(* or after it, and which was not filled since (spoofing_hmm.py:82-93); a  *)
(* wash trade by enough earlier events on the other side, in the window by *)
(* the detector's clock.  A VWAP deviation and spoofing always recommend   *)
(* to block: their thresholds lie above those of their recommendations,    *)
(* and the severity of a deviation is always 1.                            *)
FindingsAreJustified ==
  LET e == LastOf(history).event
      n == Len(history) IN
  /\ Found("spoofing") =>
       /\ e.action = "CANCEL"
       /\ \E i \in 1 .. n - 1 :
            /\ LastSubmission(i, e.order) /\ NotFilledSince(i, e.order)
            /\ e.stamp - history[i].event.stamp < 1
  /\ Found("wash_trade") =>
       MinRoundTrips <= Cardinality({i \in 1 .. n - 1 :
         /\ Book(history[i].event) = Book(e) /\ history[i].event.side # e.side
         /\ now - history[i].at <= WashWindow})
  /\ \A f \in Since("vwap") \cup Since("spoofing") : f.recommendation = "BLOCK"
  /\ Found("vwap") => MaxSeverity(findings) = <<1, 1>>

(* The inductive invariant of the histories: time does not go back, and    *)
(* what is kept of an order is its last submission and what was filled     *)
(* since.                                                                  *)
DetectorsTypeOK ==
  /\ now \in Nat
  /\ velocity \in [Accounts -> Seq([at : Nat])]
  /\ vwap \in [Books -> Seq([price : Int, qty : Int])]
  /\ wash \in [Books -> Seq([side : {"BUY", "SELL"}, price : Int, at : Nat])]
  /\ lifecycle \in [OrderIDs -> [known : BOOLEAN, submitted : Int, cancelled : BOOLEAN,
                                 filled : Int]]
  /\ orders \in [Accounts -> Seq(OrderIDs)]
  /\ history \in Seq([event : Events, at : Nat])

TimeAdvances ==
  \A i, j \in DOMAIN history : history[i].at <= now /\ (i <= j => history[i].at <= history[j].at)

LifecyclesFollowHistory ==
  \A o \in OrderIDs : lifecycle[o].known =>
    \E i \in DOMAIN history :
      /\ LastSubmission(i, o) /\ history[i].event.stamp = lifecycle[o].submitted
      /\ lifecycle[o].filled = 0 => NotFilledSince(i, o)

DetectorsInd ==
  DetectorsTypeOK /\ TimeAdvances /\ WindowsHoldHistory /\ LifecyclesFollowHistory

=============================================================================
