------------------------------ MODULE MarketData ------------------------------
(***************************************************************************)
(* The data portals of qts.market_data.portal as operators: DefaultDataPortal, *)
(* which a backtest holds over its complete history, and                    *)
(* InMemoryRuntimeDataPortal, which keeps what a stream delivered.          *)
(*                                                                         *)
(* A bar has a symbol and a timestamp; an argument that may be None is a set *)
(* of at most one value.                                                    *)
(***************************************************************************)
EXTENDS Integers, Sequences, FiniteSetsExt

(* Tuples compare from left to right. *)
Precedes(a, b) == a[1] < b[1] \/ (a[1] = b[1] /\ a[2] < b[2])

(* sorted(rows, key): what a function holds, in the order of its keys, of which no
   two are equal, as one list.  The place of a row is the number of keys before its
   own. *)
SortedBy(rows, key) ==
  LET place == [i \in DOMAIN rows |-> Cardinality({j \in DOMAIN rows : Precedes(key[j], key[i])})]
      n     == Cardinality(DOMAIN rows)
  IN  SubSeq([k \in 1..n |-> rows[CHOOSE i \in DOMAIN rows : place[i] = k - 1]], 1, n)

(* [row for row in rows if ...], by the places of the rows that are wanted. *)
Where(rows, places) == SortedBy([i \in places |-> rows[i]], [i \in places |-> <<i, 0>>])

NewReplayPortal(history) == [history |-> history, visible_until |-> {}]

NewRuntimePortal(max_bars_per_symbol) ==
  [bars |-> <<>>, max_bars_per_symbol |-> max_bars_per_symbol]

BarsOf(bars, symbol) == Where(bars, {i \in DOMAIN bars : bars[i].symbol = symbol})

(* bars[-lookback:], or all of them without a lookback. *)
Latest(bars, lookback) ==
  IF lookback = {} THEN bars
  ELSE SubSeq(bars, Max({1, Len(bars) - Max(lookback) + 1}), Len(bars))

UpTo(bars, end) ==
  Where(bars, {i \in DOMAIN bars : \A t \in end : bars[i].timestamp <= t})
-----------------------------------------------------------------------------
(* DefaultDataPortal, made by the backtest engine with enforce_replay_bounds. *)
replay_advance(portal, event) ==
  [portal EXCEPT !.visible_until = {Max(@ \cup {event.timestamp})}]

(* Mistake: an end the caller names is taken at its word. *)
requested_end(portal, end) == IF end = {} THEN portal.visible_until ELSE end

bounded_end(portal, end) ==
  IF portal.visible_until = {} THEN {} ELSE {Min(end \cup portal.visible_until)}

replay_get_bars(portal, symbol, lookback, end) ==
  LET until == bounded_end(portal, end)
  IN  IF until = {} THEN <<>>
      ELSE Latest(UpTo(BarsOf(portal.history, symbol), until), lookback)
-----------------------------------------------------------------------------
(* InMemoryRuntimeDataPortal.  _append_bar drops the oldest bar of a symbol that
   has more than max_bars_per_symbol of them. *)
DropFirst(bars, symbol) ==
  LET first == Min({i \in DOMAIN bars : bars[i].symbol = symbol})
  IN  SubSeq(bars, 1, first - 1) \o SubSeq(bars, first + 1, Len(bars))

append_bar(portal, bar) ==
  LET bars == Append(portal.bars, bar)
      full == \E max \in portal.max_bars_per_symbol : Len(BarsOf(bars, bar.symbol)) > max
  IN  [portal EXCEPT !.bars = IF full THEN DropFirst(bars, bar.symbol) ELSE bars]

runtime_get_bars(portal, symbol, lookback, end) ==
  Latest(UpTo(BarsOf(portal.bars, symbol), end), lookback)
=============================================================================
