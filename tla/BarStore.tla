------------------------------- MODULE BarStore -------------------------------
(***************************************************************************)
(* The files of historical bars as operators: what a download of             *)
(* qts.market_data.alpaca writes where, and what a provider of               *)
(* qts.market_data.providers makes of the files it finds.                    *)
(*                                                                         *)
(* The store is a function from the name of a file to what the file holds:  *)
(* its rows, or nothing when not even the header reached it.  A window is    *)
(* the pair of a first and a last time.                                     *)
(***************************************************************************)
EXTENDS Sessions, MarketData

CONSTANT Listing            \* the symbols, in the order of their names

Rank(symbol) == CHOOSE i \in DOMAIN Listing : Listing[i] = symbol

(* The sort key of every list of bars, rows and samples. *)
SortKey(row) == <<row.timestamp, Rank(row.symbol)>>

In(row, window) == window[1] <= row.timestamp /\ row.timestamp <= window[2]

Sorted(rows) == SortedBy(rows, [i \in DOMAIN rows |-> SortKey(rows[i])])

(* A set as the function it takes to sort it. *)
Members(set) == [member \in set |-> member]
-----------------------------------------------------------------------------
(* The rows the vendor has for a request, one symbol after the other. *)
Answer(market, window) ==
  LET places == {i \in DOMAIN market : In(market[i], window)}
  IN  SortedBy([i \in places |-> market[i]],
               [i \in places |-> <<Rank(market[i].symbol), market[i].timestamp>>])

(* A page of it, and whether a token for another one comes along. *)
get_stock_bars_page(answer, page_token, limit) ==
  LET last == Min({page_token + limit, Len(answer)})
  IN  [rows |-> SubSeq(answer, page_token + 1, last), next |-> last < Len(answer)]

(* Intraday rows outside the regular session are dropped, unless the filter is
   off. *)
filter_alpaca_session_rows(rows, enabled) ==
  Where(rows, {i \in DOMAIN rows :
                 ~enabled \/ is_regular_session(rows[i].timestamp, DefaultSessionConfig)})

(* A layout that is configured, a single file for a path, a directory of
   partitions otherwise. *)
output_layout(output) ==
  CASE output.layout # {}                     -> CHOOSE layout \in output.layout : TRUE
    [] output.layout = {} /\ output.path       -> "single_file"
    [] OTHER                                  -> "partitioned"

(* A single file at the path of the configuration, whatever the window. *)
FixedPath(output) == output_layout(output) = "single_file" /\ output.path

(* Mistake: the template leaves out the window. *)
template_without_window(output, window) == <<>>

(* The start and the end of the window, from the template of the file names. *)
template_values(output, window) == IF FixedPath(output) THEN <<>> ELSE window

(* The file of a row: in partitions one for each symbol= and date=, the UTC date. *)
file_name(row, output, window) ==
  IF output_layout(output) = "partitioned"
  THEN <<Rank(row.symbol), row.timestamp \div 1440, template_values(output, window)>>
  ELSE <<0, 0, template_values(output, window)>>

(* The files write_alpaca_bar_rows writes, in its order: none for no rows in a
   directory of partitions, always the one of a single file. *)
output_files(rows, output, window) ==
  IF output_layout(output) = "single_file" THEN <<<<0, 0, template_values(output, window)>>>>
  ELSE LET names == {file_name(rows[i], output, window) : i \in DOMAIN rows}
       IN  SortedBy(Members(names), [name \in names |-> <<name[1], name[2]>>])

RowsOfFile(rows, name, output, window) ==
  Where(rows, {i \in DOMAIN rows : file_name(rows[i], output, window) = name})
-----------------------------------------------------------------------------
(* CSVBarProvider over the directory or the file: the bars, or nothing when it
   raises, because there is no file, one without a header, or two rows of one
   symbol and time. *)
provider_bars(files) ==
  LET rows(name) == CHOOSE rows \in files[name] : TRUE
      places     == UNION {{name} \X DOMAIN rows(name) : name \in DOMAIN files}
      read       == [place \in places |-> rows(place[1])[place[2]]]
      unique     == \A p, q \in places :
                      read[p].symbol = read[q].symbol /\ read[p].timestamp = read[q].timestamp
                        => p = q
  IN  IF files = <<>> \/ (\E name \in DOMAIN files : files[name] = {}) \/ ~unique THEN {}
      ELSE {Sorted(read)}

(* get_history. *)
filter_bars(bars, symbols, window) ==
  Where(bars, {i \in DOMAIN bars : bars[i].symbol \in symbols /\ In(bars[i], window)})
=============================================================================
