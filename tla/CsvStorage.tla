----------------------------- MODULE CsvStorage -----------------------------
(***************************************************************************)
(* CsvBackend and its CsvWriter for one channel: three files a day, opened *)
(* when the first event of a day arrives, written through stream buffers,  *)
(* each with a header line.  mtx_ is held for a whole append, so an append *)
(* is one step.  A row is known by its number; the orderbook rows and      *)
(* headers also by their number of levels.                                 *)
(***************************************************************************)
EXTENDS Naturals, Sequences, FiniteSets

CONSTANT Days                  \* days of events, as days since 1970-01-01

ASSUME DaysAssumption == Days \subseteq Nat

VARIABLES
  csv,                         \* the writer and the files, see CsvClosed
  csvTaken                     \* history: rows the streams took in this run

csvVars == <<csv, csvTaken>>

Kinds == {"trade", "orderbook", "bookticker"}

\* TimestampToDate, with the clamps that no day below the year 9999 reaches.
CivilDate(day) ==
  LET z == day + 719468   era == z \div 146097   doe == z - era * 146097
      yoe == (doe - doe \div 1460 + doe \div 36524 - doe \div 146096) \div 365
      doy == doe - (365 * yoe + yoe \div 4 - yoe \div 100)
      mp == (5 * doy + 2) \div 153
      m == IF mp < 10 THEN mp + 3 ELSE mp - 9
  IN <<yoe + era * 400 + (IF m <= 2 THEN 1 ELSE 0), m, doy - (153 * mp + 2) \div 5 + 1>>

Dates == {CivilDate(d) : d \in Days}
NoDay == 10^9                  \* UINT64_MAX in current_date_day_

Header(width) == [type |-> "header", id |-> 0, day |-> NoDay, width |-> width]
Row(id, day, width) == [type |-> "row", id |-> id, day |-> day, width |-> width]

-----------------------------------------------------------------------------
(* The writer *)

\* A writer that has opened nothing yet, over the files on disk.
CsvClosed(disk) ==
  [disk |-> disk, buffer |-> [k \in Kinds |-> <<>>], open |-> {}, day |-> NoDay,
   headerWritten |-> FALSE, width |-> 0]

\* The first n buffered lines of each open stream reach its file.
Flushed(c, n) ==
  [c EXCEPT
    !.disk = [k \in Kinds |-> [d \in Dates |->
       c.disk[k][d] \o IF k \in c.open /\ d = CivilDate(c.day) THEN SubSeq(c.buffer[k], 1, n[k]) ELSE <<>>]],
    !.buffer = [k \in Kinds |-> SubSeq(c.buffer[k], n[k] + 1, Len(c.buffer[k]))]]

AllOf(c) == [k \in Kinds |-> Len(c.buffer[k])]

CloseKeepsHeaderFlag(c) ==
  [Flushed(c, AllOf(c)) EXCEPT !.open = {}]
CloseLosesBuffer(c) ==
  [Flushed(c, [k \in Kinds |-> 0]) EXCEPT !.open = {}, !.buffer = [k \in Kinds |-> <<>>],
                                          !.headerWritten = FALSE, !.width = 0]
Close(c) ==
  [Flushed(c, AllOf(c)) EXCEPT !.open = {}, !.headerWritten = FALSE, !.width = 0]

\* Opening for append; the trade and bookticker headers are written to a file
\* that is empty, the orderbook header waits for the first orderbook row.
OpenFile(c, k) ==
  [c EXCEPT !.open = @ \union {k},
            !.buffer[k] = IF k # "orderbook" /\ c.disk[k][CivilDate(c.day)] = <<>>
                          THEN <<Header(0)>> ELSE <<>>]

\* RotateIfNeeded; failing is the file that cannot be opened, or "none".  The
\* streams opened before it are closed again.
RotateIfNeeded(c, day, failing) ==
  LET closed == [Close(c) EXCEPT !.day = day]
      trade == OpenFile(closed, "trade")
      orderbook == OpenFile(trade, "orderbook")
  IN IF day = c.day /\ "trade" \in c.open THEN c
     ELSE CASE failing = "trade" -> closed
            [] failing = "orderbook" -> Close(trade)
            [] failing = "bookticker" -> Close(orderbook)
            [] OTHER -> OpenFile(orderbook, "bookticker")

AppendRow(c, k, line) == [c EXCEPT !.buffer[k] = Append(@, line)]

AppendOrderbook(c, id, day, depth) ==
  LET c2 == IF c.headerWritten THEN c
            ELSE [AppendRow(c, "orderbook", Header(depth)) EXCEPT !.headerWritten = TRUE, !.width = depth]
  IN AppendRow(c2, "orderbook", Row(id, day, c2.width))

-----------------------------------------------------------------------------
(* Actions of the backend *)

CsvInit ==
  /\ csv = CsvClosed([k \in Kinds |-> [d \in Dates |-> <<>>]])
  /\ csvTaken = {}

\* InsertTick, InsertOrderbook or InsertBookTicker of a registered channel.
CsvInsert(k, id, day, depth, failing) ==
  LET c == RotateIfNeeded(csv, day, failing)
      open == "trade" \in c.open
  IN /\ csv' = IF ~open THEN c
               ELSE IF k = "orderbook" THEN AppendOrderbook(c, id, day, depth)
               ELSE AppendRow(c, k, Row(id, day, 0))
     /\ csvTaken' = IF open THEN csvTaken \union {id} ELSE csvTaken

\* A stream buffer that has filled up is written, ahead of the others.
CsvSpill(k) ==
  /\ k \in csv.open /\ csv.buffer[k] # <<>>
  /\ csv' = Flushed(csv, [j \in Kinds |-> IF j = k THEN Len(csv.buffer[k]) ELSE 0])
  /\ UNCHANGED csvTaken

CsvFlushAndClose == csv' = Close(csv) /\ UNCHANGED csvTaken

\* The process is gone, and what was still buffered with it; a new one starts.
CsvRestart == csv' = CsvClosed(csv.disk) /\ csvTaken' = {}

-----------------------------------------------------------------------------
(* Properties *)

\* The calendar by its rules, to compare CivilDate with.
IsLeap(y) == y % 4 = 0 /\ (y % 100 # 0 \/ y % 400 = 0)
YearStart(y) == 365 * (y - 1970) + Cardinality({x \in 1970..(y - 1) : IsLeap(x)})
MonthLength(y, m) ==
  CASE m = 2 -> IF IsLeap(y) THEN 29 ELSE 28
    [] m \in {4, 6, 9, 11} -> 30
    [] OTHER -> 31
MonthStart(y) == [m \in 1..12 |-> YearStart(y) +
  (LET before[n \in 0..11] == IF n = 0 THEN 0 ELSE before[n - 1] + MonthLength(y, n) IN before[m - 1])]
DayOf(date) == MonthStart(date[1])[date[2]] + date[3] - 1

File(k, d) == csv.disk[k][d]
IsRow(line) == line.type = "row"

\* Types of the state.
CsvTypeOK ==
  /\ csv.open \subseteq Kinds /\ csv.day \in Days \union {NoDay}
  /\ csv.headerWritten \in BOOLEAN /\ csv.width \in Nat
  /\ \A k \in Kinds : k \notin csv.open => csv.buffer[k] = <<>>
  /\ csv.open # {} => csv.open = Kinds /\ csv.day # NoDay

\* RotateIfNeeded and AppendOrderbook: on disk, every file that has lines
\* begins with a header, and every row has the columns that the nearest header
\* above it announces, whatever days alternate, opens fail or runs are cut off.
\* A row is in the file whose name is the calendar date of its timestamp, the
\* rows of a file are in the order of their insertion, and none is there twice.
RowsInTheirPlace ==
  \A k \in Kinds, d \in Dates :
    LET f == File(k, d)  rows == {i \in 1..Len(f) : IsRow(f[i])}
    IN /\ \A i \in rows :
            /\ f[i].day = DayOf(d)
            /\ \E h \in 1..(i - 1) : /\ f[h].type = "header" /\ f[h].width = f[i].width
                                    /\ (h + 1)..i \subseteq rows
       /\ \A i, j \in rows : i < j => f[i].id < f[j].id

=============================================================================
