----------------------------- MODULE TradingMain -----------------------------
(***************************************************************************)
(* trading_main: the arguments, CsvReader::read_all, the persistence file, *)
(* the replay with its LoggingEventSink, and the exit status.              *)
(*                                                                         *)
(* An input is a file of rows that may not open, may have no header, and   *)
(* may fail while it is read: bad_after lines can be read and then the     *)
(* stream goes bad.  A row is a sequence of fields, each an integer, empty *)
(* or junk.  The persistence file is a buffered stream: a write stays in   *)
(* the buffer or pushes it to the disk, which may fail and leaves the      *)
(* stream failed for good.  run_replay is what SideChannel shows it to be  *)
(* for its caller: events 1, 2, ... in order, each consumed or, when       *)
(* asynchronous, dropped and counted.  The header line is event 0.         *)
(***************************************************************************)
EXTENDS Integers, Sequences, SequencesExt

CONSTANTS
  Inputs,      \* the input files
  MaxEvents    \* bound: events of one replay

ASSUME MainAssumption ==
  /\ MaxEvents \in Nat
  /\ \A f \in Inputs :
       /\ f.opens \in BOOLEAN /\ f.header \in BOOLEAN /\ f.bad_after \in Nat
       /\ f.rows \in Seq(Seq([kind : {"int", "empty", "junk"}, value : Int]))

VARIABLES
  input,       \* argv[1]: [opens, header, rows, bad_after]
  sink_mode,   \* config.sink_mode
  pc,          \* where main is
  line,        \* line_number in read_all
  ticks,       \* the rows accepted so far
  error,       \* what CsvReadError carries
  disk,        \* the lines of the persistence file
  stream,      \* [good, buffer] of the open persistence stream
  emitted,     \* events of the replay so far
  failed,      \* the failure reasons of the run
  exit         \* exit status

mainVars ==
  <<input, sink_mode, pc, line, ticks, error, disk, stream, emitted, failed,
    exit>>

OldJournal == <<"old">>

Exit(code) == pc' = "exit" /\ exit' = code

-----------------------------------------------------------------------------
(* CsvReader::read_all *)

\* parse_line throws: not seven fields, or one that is no complete integer.
malformed(row) == Len(row) # 7 \/ \E i \in DOMAIN row : row[i].kind # "int"

parsed(row) ==
  [exchange_ts_ns |-> row[1].value, receive_ts_ns |-> row[2].value,
   symbol_id |-> row[3].value, bid_price |-> row[4].value,
   ask_price |-> row[5].value, bid_qty |-> row[6].value,
   ask_qty |-> row[7].value]

value_error(t) ==
  \/ t.bid_price <= 0 \/ t.ask_price <= 0
  \/ t.bid_qty < 0 \/ t.ask_qty < 0
  \/ t.bid_price > t.ask_price
  \/ t.receive_ts_ns < t.exchange_ts_ns

\* Mutant of previous: times are compared with the first row's.
previous_first(accepted) == Head(accepted)

previous(accepted) == Last(accepted)

\* The first check of a row that fails.
row_error(accepted, row) ==
  IF malformed(row) THEN "SchemaError"
  ELSE IF value_error(parsed(row)) THEN "ValueError"
  ELSE IF accepted = <<>> THEN "none"
  ELSE IF parsed(row).receive_ts_ns < previous(accepted).receive_ts_ns
  THEN "OrderingError"
  ELSE IF parsed(row).symbol_id # Head(accepted).symbol_id
  THEN "MultiSymbolError" ELSE "none"

NoError == [category |-> "none", line |-> 0]

Refuse(category, number) ==
  /\ error' = [category |-> category, line |-> number]
  /\ Exit("failure")
  /\ UNCHANGED <<line, ticks>>

ReadFails == input.bad_after = line

ReadHeader ==
  /\ pc = "header"
  /\ UNCHANGED <<input, sink_mode, disk, stream, emitted, failed>>
  /\ IF ~input.opens THEN Refuse("IoError", 0)
     ELSE IF ReadFails THEN Refuse("IoError", 1)
     ELSE IF ~input.header THEN Refuse("SchemaError", 1)
     ELSE /\ pc' = "rows"
          /\ line' = 1
          /\ UNCHANGED <<ticks, error, exit>>

ReadRow ==
  /\ pc = "rows"
  /\ ~ReadFails
  /\ line <= Len(input.rows)
  /\ UNCHANGED <<input, sink_mode, disk, stream, emitted, failed>>
  /\ LET row == input.rows[line]
     IN IF row_error(ticks, row) # "none"
        THEN Refuse(row_error(ticks, row), line + 1)
        ELSE /\ line' = line + 1
             /\ ticks' = Append(ticks, parsed(row))
             /\ UNCHANGED <<pc, error, exit>>

\* input.bad() after the loop
read_failed == ReadFails

EndOfRows ==
  /\ pc = "rows"
  /\ ReadFails \/ line > Len(input.rows)
  /\ UNCHANGED <<input, sink_mode, disk, stream, emitted, failed>>
  /\ IF read_failed THEN Refuse("IoError", line + 1)
     ELSE IF ticks = <<>> THEN Refuse("SchemaError", 1)
     ELSE /\ pc' = "open"
          /\ UNCHANGED <<line, ticks, error, exit>>

-----------------------------------------------------------------------------
(* The persistence stream *)

Persistence(good, buffer, lines) ==
  [stream |-> [good |-> good, buffer |-> buffer], disk |-> lines]

\* What a write of line e may lead to: it stays in the buffer, takes the
\* buffer to the disk, or fails there.
written(s, lines, e) ==
  IF ~s.good THEN {Persistence(FALSE, <<>>, lines)}
  ELSE {Persistence(TRUE, Append(s.buffer, e), lines),
        Persistence(TRUE, <<>>, lines \o Append(s.buffer, e)),
        Persistence(FALSE, <<>>, lines)}

flushed ==
  IF ~stream.good THEN {Persistence(FALSE, <<>>, disk)}
  ELSE {Persistence(TRUE, <<>>, disk \o stream.buffer),
        Persistence(FALSE, <<>>, disk)}

FreshStream == [good |-> TRUE, buffer |-> <<>>]

\* The stream takes one of these outcomes; a failed stream is a reason to fail.
Persist(outcomes) ==
  \E w \in outcomes :
    /\ stream' = w.stream
    /\ disk' = w.disk
    /\ failed' = failed \cup IF w.stream.good THEN {} ELSE {"persist_write"}

-----------------------------------------------------------------------------
(* main *)

MainInit ==
  /\ input \in Inputs
  /\ sink_mode \in {"Sync", "Async"}
  /\ pc = "config"
  /\ line = 0
  /\ ticks = <<>>
  /\ error = NoError
  /\ disk = OldJournal
  /\ stream = FreshStream
  /\ emitted = 0
  /\ failed = {}
  /\ exit = "running"

\* Mutant of ParseConfig: the journal is opened as soon as its path is known.
ParseConfig_opens_journal ==
  /\ pc = "config"
  /\ pc' = "header"
  /\ disk' = <<>>
  /\ UNCHANGED <<input, sink_mode, line, ticks, error, stream, emitted, failed,
                 exit>>

\* Bad arguments end the process before anything is opened.
ParseConfig ==
  /\ pc = "config"
  /\ \/ Exit("failure")
     \/ pc' = "header" /\ UNCHANGED exit
  /\ UNCHANGED <<input, sink_mode, line, ticks, error, disk, stream, emitted,
                 failed>>

\* The file is truncated as it is opened, and its header is written.
OpenPersistence ==
  /\ pc = "open"
  /\ UNCHANGED <<input, sink_mode, line, ticks, error, emitted>>
  /\ \/ Exit("failure") /\ UNCHANGED <<disk, stream, failed>>
     \/ /\ Persist(written(FreshStream, <<>>, 0))
        /\ pc' = "replay"
        /\ UNCHANGED exit

\* LoggingEventSink::consume, in the loop or in the sink thread.
Consume ==
  /\ pc = "replay"
  /\ emitted < MaxEvents
  /\ emitted' = emitted + 1
  /\ Persist(written(stream, disk, emitted + 1))
  /\ UNCHANGED <<input, sink_mode, pc, line, ticks, error, exit>>

Drop ==
  /\ pc = "replay"
  /\ sink_mode = "Async"
  /\ emitted < MaxEvents
  /\ emitted' = emitted + 1
  /\ failed' = failed \cup {"async_drop"}
  /\ UNCHANGED <<input, sink_mode, pc, line, ticks, error, disk, stream, exit>>

\* run_replay throws, or returns with or without an overflow of its own.
ReplayReturns ==
  /\ pc = "replay"
  /\ UNCHANGED <<input, sink_mode, line, ticks, error, disk, stream, emitted>>
  /\ \/ Exit("failure") /\ UNCHANGED failed
     \/ /\ pc' = "flush"
        /\ UNCHANGED exit
        /\ \E reasons \in SUBSET {"latency_overflow",
                                  "venue_event_batch_overflow"} :
             failed' = failed \cup reasons

\* Mutant of stream_failed: the sink has looked at every event.
stream_failed_never(good) == FALSE

\* !persistence after the flush
stream_failed(good) == ~good

Finish ==
  /\ pc = "flush"
  /\ \E w \in flushed :
       /\ stream' = w.stream
       /\ disk' = w.disk
       /\ failed' = failed \cup IF stream_failed(w.stream.good)
                                THEN {"persist_write"} ELSE {}
  /\ Exit(IF failed' = {} THEN "success" ELSE "failure")
  /\ UNCHANGED <<input, sink_mode, line, ticks, error, emitted>>

Exited == pc = "exit" /\ UNCHANGED mainVars

MainNext ==
  \/ ParseConfig
  \/ ReadHeader
  \/ ReadRow
  \/ EndOfRows
  \/ OpenPersistence
  \/ Consume
  \/ Drop
  \/ ReplayReturns
  \/ Finish
  \/ Exited

MainSpec == MainInit /\ [][MainNext]_mainVars

-----------------------------------------------------------------------------

\* Exit status 0 means that the run is complete at both ends: every row of
\* the input was replayed, and the file on the disk holds the header and every
\* event in order, nothing lost in a ring, a buffer or a failed write.
SuccessMeansCompleteJournal ==
  exit = "success" =>
    /\ ticks = [i \in DOMAIN input.rows |-> parsed(input.rows[i])]
    /\ disk = [i \in 1 .. emitted + 1 |-> i - 1]

\* A row that no well-formed file has: compared with all rows before it.
Offends(rows, i) ==
  LET tick(j) == parsed(rows[j])
  IN \/ malformed(rows[i])
     \/ value_error(tick(i))
     \/ \E j \in 1 .. i - 1 :
          \/ tick(j).receive_ts_ns > tick(i).receive_ts_ns
          \/ tick(j).symbol_id # tick(i).symbol_id

\* The first row that offends, or the end of the file.
IsFirst(rows, i) ==
  /\ i <= Len(rows) => Offends(rows, i)
  /\ \A j \in 1 .. i - 1 : ~Offends(rows, j)

FirstOffense(rows) == CHOOSE i \in 1 .. Len(rows) + 1 : IsFirst(rows, i)

\* The reader fails fast: it names the line of the first row that does not
\* belong into the file, if it can read that far, and accepts a file only when
\* every row of it belongs there.
FirstErrorReported ==
  LET first == FirstOffense(input.rows)
      readable == input.opens /\ input.header /\ input.bad_after > first
  IN /\ error.category \in {"ValueError", "OrderingError", "MultiSymbolError"}
          => error.line = first + 1
     /\ pc = "open" => first = Len(input.rows) + 1
     /\ error # NoError /\ readable /\ first <= Len(input.rows)
          => error.line = first + 1

\* A run that is refused for its arguments or its input leaves the journal of
\* the previous run as it was.
BadInputKeepsOldJournal ==
  pc = "exit" /\ (error # NoError \/ ticks = <<>>) => disk = OldJournal
=============================================================================
