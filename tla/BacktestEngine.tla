--------------------------- MODULE BacktestEngine ---------------------------
(***************************************************************************)
(* The portfolio simulator: every session it fills the candidates of the   *)
(* session before, closes positions, trails stops, screens, and marks the  *)
(* book; at the end it sells what is left and measures the trades.         *)
(*                                                                         *)
(* Prices are whole dollars, costs are parts of CostUnit, and money (cash, *)
(* execution prices, proceeds) counts 1/CostUnit^2 dollars, so that no     *)
(* quotient of the program is rounded here.  A symbol's ATR comes with its *)
(* bar: one smoothing period serves ranking and exits, as in the defaults. *)
(* Whole multiples of the ATR set limit and stop.                          *)
(***************************************************************************)
EXTENDS Integers, Sequences, FiniteSetsExt, SequencesExt

CONSTANTS
    Tickers,            \* symbols that may be screened
    TradingDays,        \* number of sessions
    Tape,               \* Tape[d]: what the market may do in session d
    Rankings,           \* the candidate lists a session may give, best first
    Verdict,            \* Verdict[d]: exposure verdict as of session d
    ReportsSoon,        \* ReportsSoon[d]: symbols whose earnings are near at d
    Arms,               \* the --policy arms compared
    EntryPlans,         \* limit multiple, Day order or not, concurrent positions
    StopMultiple,       \* trade_plan.exit_atr_multiple
    MaxHold,            \* trade_plan.max_hold_days
    CapPct, RiskPct,    \* sizing caps, percent of equity
    CostUnit, Slippage, CommissionPart,   \* costs, in parts of CostUnit
    InitialCash         \* dollars

ASSUME BacktestConstants ==
    /\ {TradingDays, CostUnit, MaxHold, StopMultiple} \subseteq Nat \ {0}
    /\ {CapPct, RiskPct, InitialCash} \subseteq Nat
    /\ EntryPlans \subseteq [multiple : Nat, dayOrder : BOOLEAN, concurrent : Nat]
    /\ \A p \in EntryPlans : p.multiple > 0 => p.dayOrder
    /\ {Slippage, CommissionPart} \subseteq 0..(CostUnit - 1)
    /\ Arms \subseteq {"none", "regime", "regime+earnings"}

NoBar == [close |-> 0]
NoAtr == -1

\* No price is negative; a malformed bar may hold a zero.
Bar == [open : Nat, low : Nat, close : Nat, atr : Nat \cup {NoAtr}]

ASSUME MarketConstants ==
    /\ \A d \in 1..TradingDays : Tape[d] \subseteq [Tickers -> Bar \cup {NoBar}]
    /\ Rankings \subseteq Seq(Tickers)

VARIABLES
    arm,            \* the arm this run measures
    plan,           \* its entry plan: without a Day order it buys the open
    session,        \* the session under way
    phase,          \* the next step of the day loop
    today,          \* today[s]: the session's bar of s, or NoBar
    latest,         \* latest[s]: the newest bar of s so far, or NoBar
    cash,
    held,           \* open positions, in the order of entry
    trades,         \* closed trades
    pending,        \* yesterday's candidates, ranked
    signal,         \* [day, equity] of the session they were screened on
    blocks,         \* blocks[reason]: the candidates stopped, by session
    exposure        \* one record per closed session

engineVars == <<arm, plan, session, phase, today, latest, cash, held, trades,
                pending, signal, blocks, exposure>>

Money == CostUnit * CostUnit

\* In the order of the report.
EntryBlockReasons ==
    <<"regime", "earnings", "not_calculable", "max_concurrent", "already_held",
      "missing_data", "limit_not_reached", "invalid_stop", "zero_shares",
      "insufficient_cash">>
BlockReasons == {EntryBlockReasons[i] : i \in DOMAIN EntryBlockReasons}

ExitReasons == {"stop", "max_hold", "end_of_backtest"}

\* A loop: what is left of `base` after a step for each element, in order.
AfterEach(base, seq, Step(_, _)) ==
    LET after[i \in 0..Len(seq)] ==
            IF i = 0 THEN base ELSE Step(after[i - 1], seq[i])
    IN  after[Len(seq)]

SumOf(seq) == AfterEach(0, seq, LAMBDA sum, x : sum + x)
Total(seq, Value(_)) == SumOf([i \in DOMAIN seq |-> Value(seq[i])])

-----------------------------------------------------------------------------
(* Prices.                                                                 *)

EntryLimitPrice(close, atr) == close + plan.multiple * atr
InitialStop(close, atr) == close - StopMultiple * atr
TrailedStop(stop, close, atr) == Max({stop, InitialStop(close, atr)})

\* Dollars to money, with the slippage against us.
BoughtAt(price) == price * CostUnit * (CostUnit + Slippage)
SoldAt(price) == price * CostUnit * (CostUnit - Slippage)

Commission(notional) == (notional * CommissionPart) \div CostUnit

\* A bug: the plan's price sizes a fill that slippage took above it.
ExecutionAtLimit(bar, limit) ==
    [filled |-> bar.low <= limit \/ ~plan.dayOrder,
     price |-> IF bar.open <= limit \/ ~plan.dayOrder THEN BoughtAt(bar.open)
               ELSE limit * Money,
     sizing |-> limit * Money]

\* [filled, price, sizing], in money: what the order did, and the price that
\* sizes it.  Without a limit nothing was capped, so the plan's price stands.
Execution(bar, limit) ==
    IF ~plan.dayOrder
    THEN [filled |-> TRUE, price |-> BoughtAt(bar.open), sizing |-> limit * Money]
    ELSE LET price == IF bar.open <= limit THEN BoughtAt(bar.open) ELSE limit * Money
         IN  [filled |-> bar.low <= limit, price |-> price,
              sizing |-> Max({limit * Money, price})]

\* The tighter of the risk cap and the position cap.
PositionSize(equity, sizing, stop) ==
    Min({(equity * RiskPct) \div (100 * (sizing - stop)),
         (equity * CapPct) \div (100 * sizing)})

EvaluateExit(bar, position) ==
    IF bar.open <= position.stop THEN [reason |-> "stop", price |-> bar.open]
    ELSE IF bar.low <= position.stop THEN [reason |-> "stop", price |-> position.stop]
    ELSE IF position.daysHeld + 1 >= MaxHold THEN [reason |-> "max_hold", price |-> bar.close]
    ELSE [reason |-> "none", price |-> 0]

-----------------------------------------------------------------------------
(* The entry gates, as of the signal day.                                  *)

\* The reasons a production assessment gives, market state before earnings;
\* the trade plan is only looked into when the market is open.
AssessmentReasons(s, day) ==
    (IF Verdict[day] = "CASH_PRIORITY" THEN {"regime"}
     ELSE IF latest[s].atr <= 0 THEN {"not_calculable"} ELSE {})
    \cup (IF arm = "regime+earnings" /\ s \in ReportsSoon[day] THEN {"earnings"} ELSE {})

\* The one reason that is reported; "allowed" is not a reason.
Decision(s, day) ==
    LET reasons == AssessmentReasons(s, day)
    IN  IF arm = "none" \/ reasons = {} THEN "allowed"
        ELSE IF "regime" \in reasons THEN "regime"
        ELSE IF "earnings" \in reasons THEN "earnings"
        ELSE "not_calculable"

-----------------------------------------------------------------------------
(* One entry.  `book` carries the cash, the positions and the blocks.      *)

Blocked(book, reason) ==
    [book EXCEPT !.blocks[reason] = Append(@, session)]

\* A malformed fill, or a stop that leaves no risk to size by.
Unsizable(execution, stop) ==
    \/ execution.price <= 0 \/ execution.sizing <= 0
    \/ stop * Money >= execution.sizing

\* Why a resolved order is not committed, or "none".
MechanicalBlock(book, execution, stop, shares) ==
    IF ~execution.filled THEN "limit_not_reached"
    ELSE IF Unsizable(execution, stop) THEN "invalid_stop"
    ELSE IF shares <= 0 THEN "zero_shares"
    ELSE IF shares * execution.price + Commission(shares * execution.price) > book.cash
    THEN "insufficient_cash"
    ELSE "none"

CommitEntry(book, s, execution, stop) ==
    LET shares == IF Unsizable(execution, stop) THEN 0
                  ELSE PositionSize(signal.equity, execution.sizing, stop * Money)
        reason == MechanicalBlock(book, execution, stop, shares)
        notional == shares * execution.price
    IN  IF reason # "none" THEN Blocked(book, reason)
        ELSE [book EXCEPT
                !.cash = @ - notional - Commission(notional),
                !.held = Append(@,
                    [symbol |-> s, entered |-> session, entryPrice |-> execution.price,
                     shares |-> shares, stop |-> stop, initialStop |-> stop,
                     riskBasis |-> execution.sizing, commission |-> Commission(notional),
                     daysHeld |-> 0, basis |-> signal.equity])]

\* latest is still the signal day's when entries are filled.
TryFill(book, s) ==
    IF today[s] = NoBar \/ latest[s] = NoBar THEN Blocked(book, "missing_data")
    ELSE IF latest[s].atr = NoAtr THEN Blocked(book, "missing_data")
    ELSE IF Decision(s, signal.day) # "allowed"
    THEN Blocked(book, Decision(s, signal.day))
    ELSE CommitEntry(book, s,
            Execution(today[s], EntryLimitPrice(latest[s].close, latest[s].atr)),
            InitialStop(latest[s].close, latest[s].atr))

Holds(positions, s) == \E i \in DOMAIN positions : positions[i].symbol = s

\* The symbols that are already held are blocked first.
BlockIfHeld(book, s) == IF Holds(held, s) THEN Blocked(book, "already_held") ELSE book

\* A bug: when the book is full the rest of the candidates are forgotten.
ConsiderUncounted(book, s) ==
    IF Holds(held, s) \/ Len(book.held) >= plan.concurrent THEN book
    ELSE TryFill(book, s)

\* Once the book is full every candidate that is left is blocked.
Consider(book, s) ==
    IF Holds(held, s) THEN book
    ELSE IF Len(book.held) >= plan.concurrent THEN Blocked(book, "max_concurrent")
    ELSE TryFill(book, s)

FillAll(book) == AfterEach(AfterEach(book, pending, BlockIfHeld), pending, Consider)

-----------------------------------------------------------------------------
(* One exit.                                                               *)

Proceeds(notional) == notional - Commission(notional)

\* A bug: only the exit's commission is charged to the trade.
ClosedTradeOfExit(position, price, reason) ==
    LET notional == position.shares * SoldAt(price)
    IN  [symbol |-> position.symbol, shares |-> position.shares,
         entryPrice |-> position.entryPrice, exitPrice |-> SoldAt(price),
         reason |-> reason, initialStop |-> position.initialStop,
         riskBasis |-> position.riskBasis, daysHeld |-> position.daysHeld,
         commission |-> Commission(notional)]

ClosedTrade(position, price, reason) ==
    LET notional == position.shares * SoldAt(price)
    IN  [symbol |-> position.symbol, shares |-> position.shares,
         entryPrice |-> position.entryPrice, exitPrice |-> SoldAt(price),
         reason |-> reason, initialStop |-> position.initialStop,
         riskBasis |-> position.riskBasis, daysHeld |-> position.daysHeld,
         commission |-> position.commission + Commission(notional)]

SettleExit(book, position, price, reason) ==
    [book EXCEPT !.cash = @ + Proceeds(position.shares * SoldAt(price)),
                 !.trades = Append(@, ClosedTrade(position, price, reason))]

\* A position without a bar is left alone; one that stays is a day older.
ExitOrKeep(book, position) ==
    LET exit == EvaluateExit(today[position.symbol], position)
    IN  IF today[position.symbol] = NoBar
        THEN [book EXCEPT !.held = Append(@, position)]
        ELSE IF exit.reason = "none"
        THEN [book EXCEPT !.held = Append(@, [position EXCEPT !.daysHeld = @ + 1])]
        ELSE SettleExit(book, position, exit.price, exit.reason)

SellAtClose(book, position) ==
    SettleExit(book, position, latest[position.symbol].close, "end_of_backtest")

MarkToMarket(positions, bars) ==
    Total(positions, LAMBDA p : p.shares * bars[p.symbol].close * Money)

Pnl(trade) == (trade.exitPrice - trade.entryPrice) * trade.shares - trade.commission

-----------------------------------------------------------------------------
(* The day loop.                                                           *)

OpenSession ==
    /\ phase = "open"
    /\ session < TradingDays
    /\ session' = session + 1
    /\ today' \in Tape[session + 1]
    /\ phase' = "fill"
    /\ UNCHANGED <<arm, plan, latest, cash, held, trades, pending, signal, blocks,
                   exposure>>

FillPendingEntries ==
    /\ phase = "fill"
    /\ LET book == FillAll([cash |-> cash, held |-> held, blocks |-> blocks])
       IN  /\ cash' = book.cash
           /\ held' = book.held
           /\ blocks' = book.blocks
    /\ latest' = [s \in Tickers |-> IF today[s] = NoBar THEN latest[s] ELSE today[s]]
    /\ phase' = "exit"
    /\ UNCHANGED <<arm, plan, session, today, trades, pending, signal, exposure>>

\* Positions filled this morning included.
ProcessExits ==
    /\ phase = "exit"
    /\ LET book == AfterEach([cash |-> cash, trades |-> trades, held |-> <<>>],
                             held, ExitOrKeep)
       IN  /\ cash' = book.cash
           /\ trades' = book.trades
           /\ held' = book.held
    /\ phase' = "trail"
    /\ UNCHANGED <<arm, plan, session, today, latest, pending, signal, blocks, exposure>>

UpdateTrailingStops ==
    /\ phase = "trail"
    /\ held' = [i \in DOMAIN held |->
           LET bar == today[held[i].symbol]
           IN  IF bar = NoBar \/ latest[held[i].symbol].atr = NoAtr THEN held[i]
               ELSE [held[i] EXCEPT !.stop = TrailedStop(@, bar.close, bar.atr)]]
    /\ phase' = "screen"
    /\ UNCHANGED <<arm, plan, session, today, latest, cash, trades, pending, signal,
                   blocks, exposure>>

\* The candidates, and the close that sizes them: one value, recorded once.
CloseSession ==
    /\ phase = "screen"
    /\ pending' \in {r \in Rankings : \A s \in ToSet(r) : latest[s] # NoBar}
    /\ LET invested == MarkToMarket(held, latest)
       IN  /\ signal' = [day |-> session, equity |-> cash + invested]
           /\ exposure' = Append(exposure,
                  [invested |-> invested, equity |-> cash + invested,
                   open |-> Len(held), offered |-> Len(pending)])
    /\ phase' = IF session = TradingDays THEN "liquidate" ELSE "open"
    /\ UNCHANGED <<arm, plan, session, today, latest, cash, held, trades, blocks>>

\* What is left is sold at its newest close, and the last equity is the cash.
LiquidateRemaining ==
    /\ phase = "liquidate"
    /\ LET book == AfterEach([cash |-> cash, trades |-> trades], held, SellAtClose)
       IN  /\ cash' = book.cash
           /\ trades' = book.trades
           /\ exposure' = [exposure EXCEPT ![TradingDays].equity = book.cash]
    /\ held' = <<>>
    /\ phase' = "done"
    /\ UNCHANGED <<arm, plan, session, today, latest, pending, signal, blocks>>

BacktestInit ==
    /\ arm \in Arms
    /\ plan \in EntryPlans
    /\ session = 0
    /\ phase = "open"
    /\ today = [s \in Tickers |-> NoBar]
    /\ latest = [s \in Tickers |-> NoBar]
    /\ cash = InitialCash * Money
    /\ held = <<>>
    /\ trades = <<>>
    /\ pending = <<>>
    /\ signal = [day |-> 0, equity |-> 0]
    /\ blocks = [r \in BlockReasons |-> <<>>]
    /\ exposure = <<>>

BacktestNext ==
    \/ OpenSession
    \/ FillPendingEntries
    \/ ProcessExits
    \/ UpdateTrailingStops
    \/ CloseSession
    \/ LiquidateRemaining

BacktestSpec == BacktestInit /\ [][BacktestNext]_engineVars

-----------------------------------------------------------------------------
(* The measures of a finished run.  A ratio is kept as its two parts.      *)

GrossGains == Total(trades, LAMBDA t : IF Pnl(t) > 0 THEN Pnl(t) ELSE 0)
GrossLosses == Total(trades, LAMBDA t : IF Pnl(t) < 0 THEN -Pnl(t) ELSE 0)

\* Mean pnl per trade, times the trades.
TotalPnl == Total(trades, Pnl)

\* The planned risk an R-multiple divides by; a trade without one is left out.
PlannedRisk(trade) == (trade.riskBasis - trade.initialStop * Money) * trade.shares
MeasuredInR == {i \in DOMAIN trades : PlannedRisk(trades[i]) > 0}

ExitReasonCount(reason) ==
    Total(trades, LAMBDA t : IF t.reason = reason THEN 1 ELSE 0)
EntryBlockCount(reason) == Len(blocks[reason])
EntryBlocks == Total(EntryBlockReasons, EntryBlockCount)
MaxConcurrentReached == Max({exposure[i].open : i \in DOMAIN exposure} \cup {0})

-----------------------------------------------------------------------------
\* What the open positions cost when they were entered.
EntryCosts == Total(held, LAMBDA p : p.shares * p.entryPrice + p.commission)

Offered == Total(exposure, LAMBDA e : e.offered)

(* The cash ledger and the trade log tell the same story: what was spent   *)
(* and earned is what the trades report after both commissions, nothing    *)
(* is ever borrowed, and the final equity is the start plus every pnl      *)
(* ("so every trade-level metric reconciles to the cash ledger").          *)
BooksBalance ==
    /\ cash + EntryCosts = InitialCash * Money + TotalPnl
    /\ cash >= 0
    /\ GrossGains - GrossLosses = TotalPnl
    /\ phase = "done" =>
          /\ exposure[TradingDays].equity = InitialCash * Money + TotalPnl
          /\ Len(trades) = ExitReasonCount("stop") + ExitReasonCount("max_hold")
                           + ExitReasonCount("end_of_backtest")
          /\ MaxConcurrentReached <= plan.concurrent

(* Every candidate of every session ends as a position or as exactly one   *)
(* counted block, whatever stopped it and however full the book was.       *)
EveryCandidateCounts ==
    phase = "open" => EntryBlocks + Len(trades) + Len(held) = Offered

(* Issue #244: the equity carried over the night is what marking the book  *)
(* at the signal day's close would give; and no position is put on beyond  *)
(* the caps of that equity: its planned risk never, its cost only where no *)
(* limit stood.  Slippage above the limit is sized for, and every trade's  *)
(* planned risk can be measured.                                           *)
SizedAsPlanned ==
    /\ phase = "fill" /\ session > 1 =>
          signal.equity = cash + MarkToMarket(held, latest)
    /\ \A i \in DOMAIN held :
          /\ held[i].shares * (held[i].riskBasis - held[i].initialStop * Money) * 100
                <= held[i].basis * RiskPct
          /\ plan.dayOrder =>
                held[i].shares * held[i].entryPrice * 100 <= held[i].basis * CapPct
    /\ MeasuredInR = DOMAIN trades
=============================================================================
