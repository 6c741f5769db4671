------------------------------- MODULE FifoLog -------------------------------
(***************************************************************************)
(* The event log of the gateway (Final_Project/src/logger/logger.c and     *)
(* start_log_process of main.c): threads of the gateway process number     *)
(* their events and write them to a FIFO, the log process copies the FIFO  *)
(* into gateway.log.                                                       *)
(*                                                                         *)
(* An event stands for one call of fifo_log, and any of them may overlap,  *)
(* as those of the connection, timeout, data, storage and main threads do. *)
(* The call's number is taken before the mutex, by a load and a store; the *)
(* write, under the mutex and shorter than PIPE_BUF, is one step and       *)
(* succeeds or fails as a whole.  A line of the log is longer than the     *)
(* header that a clear puts at the beginning of the file.                  *)
(*                                                                         *)
(* Ctrl+C reaches both processes.  The handler leaves SIGPIPE at its       *)
(* default, so a write to a FIFO that has lost its reader ends the gateway.*)
(***************************************************************************)
EXTENDS Integers, Sequences, FiniteSets, SequencesExt

CONSTANTS Event,      \* calls of fifo_log
          Capacity,   \* events the FIFO holds
          Chunk       \* events one read of the log process can return

ASSUME LogAssumption == /\ IsFiniteSet(Event)
                        /\ Capacity \in Nat \ {0} /\ Chunk \in Nat \ {0}

VARIABLES
  count,     \* FifoLogger.log_count
  call,      \* progress of each call
  number,    \* the number each call has loaded
  fifo,      \* events in the FIFO
  file,      \* events in gateway.log
  reader,    \* does the log process still read?
  logger,    \* system_manager.log_manager.impl: live or destroyed
  gateway,   \* the gateway process
  main,      \* its main thread: reads commands, clears the log, cleans up
  stop       \* stop_requested, in both processes

vars == <<count, call, number, fifo, file, reader, logger, gateway, main, stop>>

TypeOK ==
  /\ count \in 0 .. Cardinality(Event)
  /\ call \in [Event -> {"none", "loaded", "numbered", "written", "lost"}]
  /\ number \in [Event -> Nat]
  /\ fifo \in Seq(Event) /\ Len(fifo) <= Capacity
  /\ file \in Seq(Event)
  /\ reader \in BOOLEAN
  /\ logger \in {"live", "destroyed"}
  /\ gateway \in {"up", "done", "killed"}
  /\ main \in {"input", "clear", "cleanup"}
  /\ stop \in BOOLEAN

\* init_log_manager found the log process reading.
Init ==
  /\ count = 0
  /\ call = [e \in Event |-> "none"]
  /\ number = [e \in Event |-> 0]
  /\ fifo = <<>> /\ file = <<>>
  /\ reader = TRUE /\ logger = "live" /\ gateway = "up" /\ main = "input" /\ stop = FALSE
------------------------------------------------------------------------------
(* The gateway's threads: fifo_log. *)

\* Mutant of Load: the number is taken after the increment.
LoadPreIncrement(e) ==
  /\ gateway = "up" /\ logger = "live"
  /\ call[e] = "none"
  /\ number' = [number EXCEPT ![e] = count + 1]
  /\ call' = [call EXCEPT ![e] = "loaded"]
  /\ UNCHANGED <<count, fifo, file, reader, logger, gateway, main, stop>>

\* log_count++ reads ...
Load(e) ==
  /\ gateway = "up" /\ logger = "live"
  /\ call[e] = "none"
  /\ number' = [number EXCEPT ![e] = count]
  /\ call' = [call EXCEPT ![e] = "loaded"]
  /\ UNCHANGED <<count, fifo, file, reader, logger, gateway, main, stop>>

\* Mutant of Store: the counter is incremented from its present value, twice.
StoreTwice(e) ==
  /\ gateway = "up" /\ call[e] = "loaded"
  /\ count' = count + 2
  /\ call' = [call EXCEPT ![e] = "numbered"]
  /\ UNCHANGED <<number, fifo, file, reader, logger, gateway, main, stop>>

\* ... and writes.
Store(e) ==
  /\ gateway = "up" /\ call[e] = "loaded"
  /\ count' = number[e] + 1
  /\ call' = [call EXCEPT ![e] = "numbered"]
  /\ UNCHANGED <<number, fifo, file, reader, logger, gateway, main, stop>>

WriteOk(e) ==
  /\ gateway = "up" /\ call[e] = "numbered"
  /\ logger = "live" /\ reader /\ Len(fifo) < Capacity
  /\ fifo' = Append(fifo, e)
  /\ call' = [call EXCEPT ![e] = "written"]
  /\ UNCHANGED <<count, number, file, reader, logger, gateway, main, stop>>

\* The FIFO was opened O_NONBLOCK: a full one refuses the event, and so does
\* a descriptor cleanup has closed.
WriteFails(e) ==
  /\ gateway = "up" /\ call[e] = "numbered"
  /\ logger = "destroyed" \/ (reader /\ Len(fifo) = Capacity)
  /\ call' = [call EXCEPT ![e] = "lost"]
  /\ UNCHANGED <<count, number, fifo, file, reader, logger, gateway, main, stop>>

\* A FIFO without a reader: SIGPIPE.  A call that was past the check of impl
\* locks and writes through the freed logger, which may end the process too.
WriteKills(e) ==
  /\ gateway = "up" /\ call[e] = "numbered"
  /\ logger = "destroyed" \/ ~reader
  /\ call' = [call EXCEPT ![e] = "lost"]
  /\ gateway' = "killed"
  /\ UNCHANGED <<count, number, fifo, file, reader, logger, main, stop>>

\* Calls that come after fifo_destroy return at once.
LogAfterDestroy(e) ==
  /\ gateway = "up" /\ logger = "destroyed"
  /\ call[e] = "none"
  /\ call' = [call EXCEPT ![e] = "lost"]
  /\ UNCHANGED <<count, number, fifo, file, reader, logger, gateway, main, stop>>

------------------------------------------------------------------------------
(* The main thread: commands and cleanup. *)

\* clear_log_file: fopen truncates the file, to which the log process appends ...
ClearTruncates ==
  /\ gateway = "up" /\ main = "input"
  /\ file' = <<>>
  /\ main' = "clear"
  /\ UNCHANGED <<count, call, number, fifo, reader, logger, gateway, stop>>

\* ... and fclose writes the header at offset 0, over the first event that has
\* been appended meanwhile.
ClearWritesHeader ==
  /\ gateway = "up" /\ main = "clear"
  /\ file' = SubSeq(file, 2, Len(file))
  /\ main' = "input"
  /\ UNCHANGED <<count, call, number, fifo, reader, logger, gateway, stop>>

\* The signal ends the input loop, and so does a select() that fails.
InputEnds ==
  /\ gateway = "up" /\ main = "input"
  /\ main' = "cleanup"
  /\ UNCHANGED <<count, call, number, fifo, file, reader, logger, gateway, stop>>

\* fifo_destroy; the threads that log are cancelled only afterwards.
DestroyLogger ==
  /\ gateway = "up" /\ main = "cleanup" /\ logger = "live"
  /\ logger' = "destroyed"
  /\ UNCHANGED <<count, call, number, fifo, file, reader, gateway, main, stop>>

Exit ==
  /\ gateway = "up" /\ logger = "destroyed"
  /\ gateway' = "done"
  /\ UNCHANGED <<count, call, number, fifo, file, reader, logger, main, stop>>

\* Ctrl+C.
Interrupt ==
  /\ gateway = "up" /\ ~stop
  /\ stop' = TRUE
  /\ UNCHANGED <<count, call, number, fifo, file, reader, logger, gateway, main>>
------------------------------------------------------------------------------
(* The log process: log_manager. *)

\* Mutant of Read: the last event of a read is left in the FIFO.
ReadLeavesLast ==
  /\ reader
  /\ \E n \in 1 .. Len(fifo) :
       /\ n <= Chunk
       /\ file' = file \o SubSeq(fifo, 1, n)
       /\ fifo' = SubSeq(fifo, n, Len(fifo))
  /\ reader' = ~stop
  /\ UNCHANGED <<count, call, number, logger, gateway, main, stop>>

\* Mutant of Read: the loop's condition is inverted.
ReadUntilRunning ==
  /\ reader
  /\ \E n \in 1 .. Len(fifo) :
       /\ n <= Chunk
       /\ file' = file \o SubSeq(fifo, 1, n)
       /\ fifo' = SubSeq(fifo, n + 1, Len(fifo))
  /\ reader' = stop
  /\ UNCHANGED <<count, call, number, logger, gateway, main, stop>>

\* One read, copied to the file; then stop_requested is looked at.
Read ==
  /\ reader
  /\ \E n \in 1 .. Len(fifo) :
       /\ n <= Chunk
       /\ file' = file \o SubSeq(fifo, 1, n)
       /\ fifo' = SubSeq(fifo, n + 1, Len(fifo))
  /\ reader' = ~stop
  /\ UNCHANGED <<count, call, number, logger, gateway, main, stop>>

\* The signal interrupts the read, which the code takes for an error.
ReadInterrupted ==
  /\ reader /\ stop
  /\ reader' = FALSE
  /\ UNCHANGED <<count, call, number, fifo, file, logger, gateway, main, stop>>

\* The FIFO is empty and has no writer left.
ReadEof ==
  /\ reader /\ fifo = <<>>
  /\ logger = "destroyed" \/ gateway = "killed"
  /\ reader' = FALSE
  /\ UNCHANGED <<count, call, number, fifo, file, logger, gateway, main, stop>>
------------------------------------------------------------------------------
LogProcess == Read \/ ReadInterrupted \/ ReadEof

Next ==
  \/ LogProcess \/ ClearTruncates \/ ClearWritesHeader
  \/ Interrupt \/ InputEnds \/ DestroyLogger \/ Exit
  \/ \E e \in Event : \/ Load(e) \/ Store(e) \/ LogAfterDestroy(e)
                      \/ WriteOk(e) \/ WriteFails(e) \/ WriteKills(e)

Spec == Init /\ [][Next]_vars

\* The log process keeps running.
FairSpec == Spec /\ WF_vars(LogProcess)
------------------------------------------------------------------------------
(* Properties. *)

Finished == {e \in Event : call[e] \in {"written", "lost"}}

\* The log, seen from outside: no event twice, none out of order, and nothing
\* leaves the file except by a clear, which takes what is in it and may take the
\* first event recorded since, whatever the reads return.
Lossy == INSTANCE LossyLog WITH queue <- fifo, log <- file, done <- Finished

LogSpec == Lossy!Spec

\* log_count never runs ahead of the calls, and an event is never numbered
\* past those that were numbered before it.
NumbersBounded ==
  \A e \in Event : call[e] # "none" =>
    number[e] < Cardinality({d \in Event : call[d] # "none"})

\* An event in the FIFO reaches the log process's file, unless the gateway is
\* interrupted: nothing stays in the FIFO for ever.
FifoDrains == fifo # <<>> ~> (fifo = <<>> \/ stop)

\* Whatever the reads return and the FIFO refuses, neither process ends and the
\* logger is not destroyed before Ctrl+C or the end of the input loop: only a
\* write of the shutdown can meet a FIFO without a reader, whose SIGPIPE ends
\* the gateway.
RunUntilStop == ~stop /\ main # "cleanup" => reader /\ logger = "live" /\ gateway = "up"
==============================================================================
