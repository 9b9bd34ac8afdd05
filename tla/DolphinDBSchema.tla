-------------------------- MODULE DolphinDBSchema --------------------------
(***************************************************************************)
(* DolphinDBSchema::InitSchema, which Connect and Reconnect of the client  *)
(* run against a server that several collectors share: the database with   *)
(* its RANGE partitions, one DFS table, one stream table and one           *)
(* subscription per event type, each created if a query does not find it.  *)
(* A step is one conn.run.  Any of them may throw; the collector may be    *)
(* killed between two of them; the server may restart, which forgets the   *)
(* shared stream tables and the subscriptions but no database.  As in      *)
(* DolphinDBBackend one table stands for order books and book tickers.     *)
(*                                                                         *)
(* The partitions matter for the dates they cover, so a RANGE domain is    *)
(* its first and its last boundary.  Days are counted from 1970-01-01.     *)
(***************************************************************************)
EXTENDS Integers, Sequences

CONSTANTS
  Instances,                   \* collectors that use the server
  Granularities,               \* partition_granularity values configured
  Clock                        \* days on which something happens

ASSUME SchemaAssumption == Clock \subseteq Nat

VARIABLES
  objects,                     \* what exists on the server
  range,                       \* the RANGE domain, see NoRange
  sch,                         \* each collector's place in InitSchema
  today                        \* the UTC day

schemaVars == <<objects, range, sch, today>>

\* UtcDaysFromEpoch(year, 1, 1).
UtcDaysFromEpoch(year) ==
  LET y == year - 1 IN y * 365 + y \div 4 - y \div 100 + y \div 400 - 719162

\* The year of gmtime_r, and the ones localtime_r may show at that moment.
Year(day) == CHOOSE y \in (1969 + day \div 365)..(1970 + day \div 365) :
  UtcDaysFromEpoch(y) <= day /\ day < UtcDaysFromEpoch(y + 1)
LocalYears == {Year(today - 1), Year(today), Year(today + 1)}

kPartitionYearBack == 1
kPartitionYearForward == 5

\* kMinValidDate and the maximum that is cached for the day.
IsValidTradeDate(day, year) ==
  day >= 10957 /\ day <= UtcDaysFromEpoch(year + kPartitionYearForward) - 1

-----------------------------------------------------------------------------
(* Partitions.  year is a history: the collector's year when it last found
   the domain long enough, or made it so. *)

NoRange == [first |-> 0, last |-> 0, year |-> 0]

\* The first and the last of the boundaries that BuildRangeSpec lists.
BuildRangeSpecToYear(from, to, granularity) ==
  [first |-> UtcDaysFromEpoch(from), last |-> UtcDaysFromEpoch(to - 1)]
BuildRangeSpec(from, to, granularity) ==
  [first |-> UtcDaysFromEpoch(from),
   last |-> CASE granularity = "day" -> UtcDaysFromEpoch(to + 1) - 1
              [] granularity = "month" -> UtcDaysFromEpoch(to + 1) - 31
              [] OTHER -> UtcDaysFromEpoch(to)]

Covering(r, spec, year) ==
  [first |-> IF r = NoRange \/ spec.first < r.first THEN spec.first ELSE r.first,
   last |-> IF spec.last > r.last THEN spec.last ELSE r.last,
   year |-> IF year > r.year THEN year ELSE r.year]

\* TryExtendPartitionRange for a collector in that year.  The last boundary may
\* not be found in the server's answer, which leaves last_year 0.
Extended(lastYear, year, granularity) ==
  LET start == year - kPartitionYearBack
      end == year + kPartitionYearForward
  IN IF lastYear < end
     THEN Covering(range, BuildRangeSpec(IF lastYear > start THEN lastYear ELSE start, end, granularity), year)
     ELSE Covering(range, range, year)

-----------------------------------------------------------------------------
(* InitSchema *)

Specs == <<"trades", "books">>
Sorts == <<"table", "stream", "subscription">>
Plan == << <<"database", "">> >> \o
  [n \in 1..(3 * Len(Specs)) |-> <<Sorts[(n - 1) \div Len(Specs) + 1], Specs[((n - 1) % Len(Specs)) + 1]>>]
Objects == {Plan[n] : n \in DOMAIN Plan}
Volatile == {o \in Objects : o[1] \in {"stream", "subscription"}}

Idle == [at |-> "off", step |-> 1, year |-> 0, granularity |-> "", disturbed |-> FALSE]

SchemaInit ==
  /\ objects = {} /\ range = NoRange
  /\ sch = [i \in Instances |-> Idle]
  /\ today \in Clock /\ \A day \in Clock : today <= day

Running(i) == sch[i].at \in {"check", "extend", "create"}
Object(i) == Plan[sch[i].step]

\* Past the checks of the configuration, with the window of this year.
SchemaBegin(i, granularity) ==
  /\ ~Running(i)
  /\ \E year \in LocalYears :
       sch' = [sch EXCEPT ![i] =
         [at |-> IF granularity \in {"day", "month", "year"} THEN "check" ELSE "down",
          step |-> 1, year |-> year, granularity |-> granularity, disturbed |-> FALSE]]
  /\ UNCHANGED <<objects, range, today>>

\* s, sent on to the next object; after the last one InitSchema returns true.
Advance(s) ==
  IF s.step = Len(Plan) THEN [s EXCEPT !.at = "up"]
  ELSE [s EXCEPT !.at = "check", !.step = @ + 1, !.year = 0]
Fail(s) == [s EXCEPT !.at = "down", !.step = 1, !.year = 0]
Disturbed(s) == [s EXCEPT !.disturbed = TRUE]

SchemaCheckForgets(i) ==
  /\ sch[i].at = "check"
  /\ sch' = [sch EXCEPT ![i] = [@ EXCEPT !.at = "create"]]
  /\ UNCHANGED <<objects, range, today>>
SchemaCheck(i) ==
  /\ sch[i].at = "check"
  /\ sch' = [sch EXCEPT ![i] =
       IF Object(i) \notin objects THEN [@ EXCEPT !.at = "create"]
       ELSE IF Object(i)[1] = "database" THEN [@ EXCEPT !.at = "extend"]
       ELSE Advance(@)]
  /\ UNCHANGED <<objects, range, today>>

\* A domain that cannot be extended is left as it is.
SchemaExtend(i) ==
  /\ sch[i].at = "extend"
  /\ \/ \E lastYear \in {Year(range.last), 0} :
          range' = Extended(lastYear, sch[i].year, sch[i].granularity)
     \/ UNCHANGED range
  /\ sch' = [sch EXCEPT ![i] = Advance(@)]
  /\ UNCHANGED <<objects, today>>

\* The object is created under the eyes of whoever is about to create it too.
Create(i) ==
  /\ objects' = objects \cup {Object(i)}
  /\ range' = IF Object(i)[1] # "database" THEN range
              ELSE Covering(range, BuildRangeSpec(sch[i].year - kPartitionYearBack,
                                                  sch[i].year + kPartitionYearForward,
                                                  sch[i].granularity), sch[i].year)
OthersSee(i, mine) ==
  sch' = [j \in Instances |-> IF j = i THEN mine
                              ELSE IF Running(j) THEN Disturbed(sch[j]) ELSE sch[j]]

\* Another collector was faster: the server says "already", which is ignored
\* for stream tables and subscriptions and is an exception for the others.
Tolerated(o) == o \in Volatile

SchemaCreate(i) ==
  /\ sch[i].at = "create"
  /\ IF Object(i) \notin objects
     THEN Create(i) /\ OthersSee(i, Advance(sch[i]))
     ELSE /\ sch' = [sch EXCEPT ![i] = IF Tolerated(Object(i)) THEN Advance(@) ELSE Fail(@)]
          /\ UNCHANGED <<objects, range>>
  /\ UNCHANGED today

\* conn.run throws, before or after the server has done its part.
SchemaIgnoresThrow(i) ==
  /\ sch[i].at \in {"check", "create"}
  /\ sch' = [sch EXCEPT ![i] = Disturbed(Advance(@))]
  /\ UNCHANGED <<objects, range, today>>
SchemaThrows(i) ==
  /\ sch[i].at \in {"check", "create"}
  /\ \/ UNCHANGED <<objects, range>> /\ sch' = [sch EXCEPT ![i] = Disturbed(Fail(@))]
     \/ /\ sch[i].at = "create" /\ Object(i) \notin objects
        /\ Create(i) /\ OthersSee(i, Disturbed(Fail(sch[i])))
  /\ UNCHANGED today

SchemaStep(i) == SchemaCheck(i) \/ SchemaExtend(i) \/ SchemaCreate(i) \/ SchemaThrows(i)

\* The collector is gone; what it has created stays.
SchemaOff(i) ==
  /\ sch' = [sch EXCEPT ![i] = Idle]
  /\ UNCHANGED <<objects, range, today>>

\* Connections break; InitSchema of a collector in the middle of it fails.
ServerRestart ==
  /\ objects' = objects \ Volatile
  /\ sch' = [i \in Instances |->
       CASE Running(i) -> Disturbed(Fail(sch[i]))
         [] sch[i].at = "up" -> [sch[i] EXCEPT !.at = "lost"]
         [] OTHER -> sch[i]]
  /\ UNCHANGED <<range, today>>

DayPasses ==
  /\ today' \in {d \in Clock : d > today}
  /\ UNCHANGED <<objects, range, sch>>

-----------------------------------------------------------------------------
(* Properties *)

SchemaTypeOK ==
  /\ objects \subseteq Objects
  /\ \A i \in Instances : /\ sch[i].at \in {"off", "check", "extend", "create", "down", "up", "lost"}
                          /\ sch[i].step \in DOMAIN Plan
  /\ today \in Clock

\* When InitSchema has returned true, everything rows pass on their way to disk
\* exists, until the server restarts: whatever earlier runs left behind half
\* done, and whoever else creates the same objects.
SchemaComplete ==
  /\ SchemaTypeOK
  /\ \A i \in Instances : sch[i].at = "up" => objects = Objects

\* InitSchema is idempotent: from whatever an interrupted run, a failed one or
\* a server restart has left, a call with a valid granularity returns true,
\* unless a conn.run throws or another collector creates objects meanwhile.
InitSchemaIdempotent ==
  \A i \in Instances : sch[i].at = "down" /\ sch[i].granularity \in {"day", "month", "year"}
                         => sch[i].disturbed

YearEdges == UNION {{UtcDaysFromEpoch(y), UtcDaysFromEpoch(y + 1) - 1} : y \in 2020..2032}

\* The validator of rows and the builder of partitions agree: a date that
\* IsValidTradeDate accepts is in a partition, from the first one on, in every
\* year for which the domain was found or made long enough, although one reads
\* the UTC year on every row and the other the local year at connect.
AcceptedHasPartition ==
  LET year == Year(today) IN
  year <= range.year => \A day \in YearEdges :
    IsValidTradeDate(day, year) /\ day >= range.first => day < range.last
=============================================================================
