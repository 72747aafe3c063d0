------------------------------ MODULE AuditLog -------------------------------
(***************************************************************************)
(* src/src/audit.rs: producers hand events to a bounded channel without    *)
(* blocking (AuditWriter::record); one task (writer_loop) writes them to   *)
(* the file, keeps what it cannot write in a bounded degraded buffer and   *)
(* retries that buffer before each later event.  Server::shutdown_audit    *)
(* records the Shutdown event.  Events are numbered in the order record is *)
(* called.                                                                 *)
(*                                                                         *)
(* AuditFile::write_event opens, appends and closes.  It may fail without  *)
(* writing, or after a part of the line (write_all on a full disk).        *)
(***************************************************************************)
EXTENDS Integers, Sequences, FiniteSets, Functions

CONSTANTS MaxEvents,            \* bound: events ever recorded
          CHANNEL_CAP,
          DEGRADED_BUFFER_CAP,
          Faults                \* whether writing the file may fail

ASSUME AuditAssumption ==
  /\ MaxEvents \in Nat
  /\ CHANNEL_CAP \in Nat \ {0} /\ DEGRADED_BUFFER_CAP \in Nat \ {0}
  /\ Faults \in BOOLEAN

VARIABLES
  recorded,   \* events recorded so far
  channel,    \* the mpsc queue
  dropped,    \* AuditWriter.dropped
  open,       \* some AuditWriter clone is alive
  pc,         \* where writer_loop is
  event,      \* the event it received: <<e>>, or << >>
  degraded,   \* the degraded buffer
  written,    \* events_written
  file,       \* what is in the file: lines, and beginnings of lines
  shutdown,   \* the Shutdown event's fields, with its number
  lost,       \* ghost: events dropped on a full channel
  evicted     \* ghost: events pushed out of the degraded buffer

vars == <<recorded, channel, dropped, open, pc, event, degraded, written, file,
          shutdown, lost, evicted>>

Events == 1..MaxEvents

NoShutdown == [number |-> 0, events_dropped |-> 0, events_in_degraded_buffer |-> 0]

Init ==
  /\ recorded = 0 /\ channel = << >> /\ dropped = 0 /\ open = TRUE
  /\ pc = "recv" /\ event = << >> /\ degraded = << >> /\ written = 0
  /\ file = << >>
  /\ shutdown = NoShutdown
  /\ lost = {} /\ evicted = {}
-----------------------------------------------------------------------------
MutTrySendUnbounded(e) ==
  /\ recorded' = e
  /\ channel' = Append(channel, e)
  /\ UNCHANGED <<dropped, lost>>

MutTrySendUncounted(e) ==
  /\ recorded' = e
  /\ IF Len(channel) < CHANNEL_CAP
     THEN channel' = Append(channel, e) /\ UNCHANGED lost
     ELSE lost' = lost \cup {e} /\ UNCHANGED channel
  /\ UNCHANGED dropped

\* try_send: queued, or dropped and counted when the queue is full.  While
\* a sender exists the writer is alive, so Closed does not happen.
try_send(e) ==
  /\ recorded' = e
  /\ IF Len(channel) < CHANNEL_CAP
     THEN channel' = Append(channel, e) /\ UNCHANGED <<dropped, lost>>
     ELSE dropped' = dropped + 1 /\ lost' = lost \cup {e} /\ UNCHANGED channel

record ==
  /\ open /\ recorded < MaxEvents
  /\ try_send(recorded + 1)
  /\ UNCHANGED <<open, pc, event, degraded, written, file, shutdown, evicted>>

\* Other tasks may still hold clones, and record, after this.
shutdown_audit ==
  /\ open /\ shutdown = NoShutdown /\ recorded < MaxEvents
  /\ shutdown' = [number |-> recorded + 1, events_dropped |-> dropped,
                  events_in_degraded_buffer |-> 0]
  /\ try_send(recorded + 1)
  /\ UNCHANGED <<open, pc, event, degraded, written, file, evicted>>

DropLastSender ==
  /\ open /\ shutdown # NoShutdown
  /\ open' = FALSE
  /\ UNCHANGED <<recorded, channel, dropped, pc, event, degraded, written, file,
                 shutdown, lost, evicted>>
-----------------------------------------------------------------------------
(* writer_loop *)

Line(e, whole) == [number |-> e, whole |-> whole]

WriteOk(e) ==
  /\ file' = Append(file, Line(e, TRUE))
  /\ written' = written + 1

WriteFails(e) ==
  /\ Faults
  /\ file' \in {file, Append(file, Line(e, FALSE))}
  /\ UNCHANGED written

Receive ==
  /\ pc = "recv" /\ channel # << >>
  /\ event' = <<Head(channel)>>
  /\ channel' = Tail(channel)
  /\ pc' = "flush"
  /\ UNCHANGED <<recorded, dropped, open, degraded, written, file, shutdown, lost, evicted>>

MutFinishWhenFlushed ==
  /\ pc = "recv" /\ channel = << >> /\ ~open /\ degraded = << >>
  /\ pc' = "done"
  /\ UNCHANGED <<recorded, channel, dropped, open, event, degraded, written, file,
                 shutdown, lost, evicted>>

Finish ==
  /\ pc = "recv" /\ channel = << >> /\ ~open
  /\ pc' = "done"
  /\ UNCHANGED <<recorded, channel, dropped, open, event, degraded, written, file,
                 shutdown, lost, evicted>>

MutFlushKeepsFront ==
  /\ pc = "flush" /\ degraded # << >>
  /\ WriteOk(Head(degraded))
  /\ degraded' = degraded
  /\ pc' = "write"
  /\ UNCHANGED <<recorded, channel, dropped, open, event, shutdown, lost, evicted>>

\* The degraded buffer is retried first, oldest first ...
FlushOk ==
  /\ pc = "flush" /\ degraded # << >>
  /\ WriteOk(Head(degraded))
  /\ degraded' = Tail(degraded)
  /\ UNCHANGED <<recorded, channel, dropped, open, pc, event, shutdown, lost, evicted>>

\* ... up to the first failure, after which the new event is tried.
FlushFails ==
  /\ pc = "flush" /\ degraded # << >>
  /\ WriteFails(Head(degraded))
  /\ pc' = "write"
  /\ UNCHANGED <<recorded, channel, dropped, open, event, degraded, shutdown,
                 lost, evicted>>

FlushDone ==
  /\ pc = "flush" /\ degraded = << >>
  /\ pc' = "write"
  /\ UNCHANGED <<recorded, channel, dropped, open, event, degraded, written, file,
                 shutdown, lost, evicted>>

EventOk ==
  /\ pc = "write"
  /\ WriteOk(Head(event))
  /\ event' = << >>
  /\ pc' = "recv"
  /\ UNCHANGED <<recorded, channel, dropped, open, degraded, shutdown, lost, evicted>>

MutEvictNewest ==
  /\ pc = "write"
  /\ WriteFails(Head(event))
  /\ IF Len(degraded) = DEGRADED_BUFFER_CAP
     THEN /\ degraded' = Append(SubSeq(degraded, 1, Len(degraded) - 1), Head(event))
          /\ evicted' = evicted \cup {degraded[Len(degraded)]}
     ELSE degraded' = Append(degraded, Head(event)) /\ UNCHANGED evicted
  /\ event' = << >>
  /\ pc' = "recv"
  /\ UNCHANGED <<recorded, channel, dropped, open, shutdown, lost>>

\* The event is buffered; at the cap the oldest buffered one makes room.
EventFails ==
  /\ pc = "write"
  /\ WriteFails(Head(event))
  /\ IF Len(degraded) = DEGRADED_BUFFER_CAP
     THEN /\ degraded' = Append(Tail(degraded), Head(event))
          /\ evicted' = evicted \cup {Head(degraded)}
     ELSE degraded' = Append(degraded, Head(event)) /\ UNCHANGED evicted
  /\ event' = << >>
  /\ pc' = "recv"
  /\ UNCHANGED <<recorded, channel, dropped, open, shutdown, lost>>

writer_loop ==
  \/ Receive \/ Finish \/ FlushOk \/ FlushFails \/ FlushDone
  \/ EventOk \/ EventFails

Next == record \/ shutdown_audit \/ DropLastSender \/ writer_loop

Spec == Init /\ [][Next]_vars

\* The writer task is scheduled; whether a write succeeds is not assumed.
FairSpec == Spec /\ WF_vars(writer_loop)
-----------------------------------------------------------------------------
Buffered == degraded \o event \o channel

\* Where the file has whole lines, and the events on them.
Whole  == {i \in DOMAIN file : file[i].whole}
Logged == {file[i].number : i \in Whole}

TypeOK ==
  /\ recorded \in 0..MaxEvents
  /\ channel \in Seq(Events) /\ Len(channel) <= CHANNEL_CAP
  /\ degraded \in Seq(Events) /\ Len(degraded) <= DEGRADED_BUFFER_CAP
  /\ event \in {<< >>} \cup {<<e>> : e \in Events}
  /\ pc \in {"recv", "flush", "write", "done"}
  /\ event = << >> <=> pc \in {"recv", "done"}
  /\ dropped \in Nat /\ written \in Nat
  /\ file \in Seq([number : Events, whole : BOOLEAN])
  /\ shutdown \in [number : 0..MaxEvents, events_dropped : Nat,
                   events_in_degraded_buffer : {0}]
  /\ open \in BOOLEAN
  /\ lost \subseteq Events /\ evicted \subseteq Events

(* The tallies of AuditWriter are exact: what it counts as dropped and as  *)
(* written is what happened, and with what is still queued or buffered and *)
(* what the degraded buffer evicted it adds up to every event ever         *)
(* recorded, each counted once.                                            *)
Accounting ==
  /\ dropped = Cardinality(lost)
  /\ written = Cardinality(Logged)
  /\ written = Cardinality(Whole)
  /\ recorded = dropped + written + Len(Buffered) + Cardinality(evicted)

(* The events in memory are in the order they were recorded, and whatever  *)
(* was evicted is older than all of them: the degraded buffer keeps the    *)
(* latest failures (the "last 1000 events").                               *)
LatestKeptInOrder ==
  /\ \A i, j \in DOMAIN Buffered : i < j => Buffered[i] < Buffered[j]
  /\ \A e \in evicted : \A i \in DOMAIN Buffered : e < Buffered[i]

(* The audit trail is a lossy log: no event is written twice, written      *)
(* after it was given up, or written without having been recorded.         *)
Log == INSTANCE LossyLog
         WITH held <- Range(Buffered), logged <- Logged,
              given_up <- lost \cup evicted

ImplementsLossyLog == Log!Spec

\* What the writer has still to do: four steps for an event in the queue,
\* one for a buffered one, and the rest of its present turn.
Turn == IF pc = "done" THEN 0 ELSE IF pc = "recv" THEN 1 ELSE IF pc = "write" THEN 3 ELSE 4

WorkLeft == 4 * Len(channel) + Len(degraded) + Turn

(* Without senders the writer winds down: each of its steps leaves it less *)
(* to do, a failed write that puts an event back into the buffer included. *)
WindsDown == [][~open => WorkLeft' < WorkLeft]_vars

(* Once the last sender is dropped the writer task ends, so main's wait    *)
(* for it ends: also with an unwritable file (writer_loop).                *)
WriterEnds == WindsDown /\ (~open ~> pc = "done")
=============================================================================
