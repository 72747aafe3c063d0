---------------------------- MODULE AuditLogProofs ----------------------------
(***************************************************************************)
(* Proofs about AuditLog: for any number of events, any capacity of the    *)
(* channel and of the degraded buffer, and any pattern of write failures.  *)
(***************************************************************************)
EXTENDS AuditLog, TLAPS

\* The leaves are Zenon's, except those that say SMT.
USE Zenon

(* Sequences of numbers, as the buffers are. *)

Inc(s) == \A i, j \in DOMAIN s : i < j => s[i] < s[j]

LEMMA EmptyBuffer ==
  ASSUME NEW s \in Seq(Nat), s = << >>
  PROVE  Range(s) = {} /\ Inc(s) /\ Len(s) = 0
<1>1. Len(s) = 0
  BY SMT
<1>2. \A i \in DOMAIN s : FALSE
  BY SMT
<1>3. Range(s) = {}
  BY <1>2 DEF Range
<1>4. Inc(s)
  BY <1>2 DEF Inc
<1> QED
  BY <1>1, <1>3, <1>4

LEMMA OneEvent ==
  ASSUME NEW e
  PROVE  Range(<<e>>) = {e} /\ Inc(<<e>>) /\ Len(<<e>>) = 1 /\ Head(<<e>>) = e
BY SMT DEF Range, Inc

LEMMA AppendBuffer ==
  ASSUME NEW s \in Seq(Nat), NEW e \in Nat
  PROVE  /\ Append(s, e) \in Seq(Nat) /\ Len(Append(s, e)) = Len(s) + 1
         /\ Range(Append(s, e)) = Range(s) \cup {e}
         /\ Inc(s) /\ (\A x \in Range(s) : x < e) => Inc(Append(s, e))
<1>1. Append(s, e) \in Seq(Nat) /\ Len(Append(s, e)) = Len(s) + 1
  BY SMT
<1>2. Range(Append(s, e)) = Range(s) \cup {e}
  <2>1. /\ DOMAIN Append(s, e) = 1..Len(s) + 1 /\ DOMAIN s = 1..Len(s)
        /\ \A i \in 1..Len(s) : Append(s, e)[i] = s[i] /\ i \in 1..Len(s) + 1
        /\ Append(s, e)[Len(s) + 1] = e /\ Len(s) + 1 \in 1..Len(s) + 1
    BY SMT
  <2>2. \A i \in 1..Len(s) + 1 : i \in 1..Len(s) \/ i = Len(s) + 1
    BY SMT
  <2> QED BY <2>1, <2>2 DEF Range
<1>3. ASSUME Inc(s), \A x \in Range(s) : x < e PROVE Inc(Append(s, e))
  <2> SUFFICES ASSUME NEW i \in 1..Len(s) + 1, NEW j \in 1..Len(s) + 1, i < j
               PROVE  Append(s, e)[i] < Append(s, e)[j]
    BY <1>1, SMT DEF Inc
  <2>1. i \in 1..Len(s) /\ Append(s, e)[i] = s[i]
    BY SMT
  <2>2. CASE j \in 1..Len(s)
    BY <1>3, <2>1, <2>2, SMT DEF Inc
  <2>3. CASE j = Len(s) + 1
    <3>1. Append(s, e)[j] = e
      BY <2>3, SMT
    <3>2. s[i] \in Range(s)
      BY <2>1, SMT DEF Range
    <3> QED BY <1>3, <2>1, <3>1, <3>2
  <2> QED BY <2>2, <2>3, SMT
<1> QED BY <1>1, <1>2, <1>3

LEMMA TailBuffer ==
  ASSUME NEW s \in Seq(Nat), s # << >>, Inc(s)
  PROVE  /\ Tail(s) \in Seq(Nat) /\ Len(Tail(s)) = Len(s) - 1 /\ Len(s) > 0
         /\ Head(s) \in Nat /\ Head(s) \in Range(s)
         /\ Range(Tail(s)) = Range(s) \ {Head(s)}
         /\ \A x \in Range(Tail(s)) : Head(s) < x
         /\ Inc(Tail(s))
<1>1. Tail(s) \in Seq(Nat) /\ Len(Tail(s)) = Len(s) - 1 /\ Len(s) > 0
  BY SMT
<1>2. Head(s) \in Nat /\ Head(s) \in Range(s)
  BY SMT DEF Range
<1>3. ASSUME NEW x \in Range(Tail(s)) PROVE Head(s) < x /\ x \in Range(s)
  <2>1. PICK i \in DOMAIN Tail(s) : x = Tail(s)[i]
    BY DEF Range
  <2>2. i \in Nat /\ 1 \in DOMAIN s /\ i + 1 \in DOMAIN s /\ 1 < i + 1 /\ x = s[i + 1]
    BY <1>1, <2>1, SMT
  <2>3. Head(s) = s[1]
    BY SMT
  <2>4. s[1] < s[i + 1]
    BY <2>2, SMT DEF Inc
  <2> QED BY <2>2, <2>3, <2>4 DEF Range
<1>4. Range(Tail(s)) \subseteq Range(s)
  BY <1>3
<1>5. ASSUME NEW x \in Range(s), x # Head(s) PROVE x \in Range(Tail(s))
  <2>1. PICK i \in 1..Len(s) : x = s[i]
    BY SMT DEF Range
  <2>2. i # 1 /\ i - 1 \in 1..Len(Tail(s)) /\ Tail(s)[i - 1] = x
    BY <1>1, <1>5, <2>1, SMT
  <2>3. i - 1 \in DOMAIN Tail(s)
    BY <1>1, <2>2, SMT
  <2> QED BY <2>2, <2>3 DEF Range
<1>6. Head(s) \notin Range(Tail(s))
  <2>1. ~(Head(s) < Head(s))
    BY <1>2, SMT
  <2> QED BY <1>3, <2>1
<1>7. Inc(Tail(s))
  BY <1>1, SMT DEF Inc
<1> QED BY <1>1, <1>2, <1>3, <1>4, <1>5, <1>6, <1>7

LEMMA ConcatBuffers ==
  ASSUME NEW s \in Seq(Nat), NEW t \in Seq(Nat)
  PROVE  /\ s \o t \in Seq(Nat) /\ Len(s \o t) = Len(s) + Len(t)
         /\ Range(s \o t) = Range(s) \cup Range(t)
         /\ Inc(s) /\ Inc(t) /\ (\A x \in Range(s), y \in Range(t) : x < y) => Inc(s \o t)
<1>1. s \o t \in Seq(Nat) /\ Len(s \o t) = Len(s) + Len(t)
  BY SMT
<1>2. \A i \in 1..Len(s) + Len(t) :
        /\ i \in 1..Len(s) => (s \o t)[i] = s[i]
        /\ i \notin 1..Len(s) => i - Len(s) \in 1..Len(t) /\ (s \o t)[i] = t[i - Len(s)]
  BY SMT
<1>3. Range(s \o t) \subseteq Range(s) \cup Range(t)
  BY <1>1, <1>2, SMT DEF Range
<1>4. Range(s) \subseteq Range(s \o t)
  BY <1>1, SMT DEF Range
<1>5. ASSUME NEW y \in Range(t) PROVE y \in Range(s \o t)
  <2>1. PICK i \in 1..Len(t) : y = t[i]
    BY SMT DEF Range
  <2>2. i + Len(s) \in DOMAIN (s \o t) /\ (s \o t)[i + Len(s)] = y
    BY <1>1, <2>1, SMT
  <2> QED BY <2>2 DEF Range
<1>6. ASSUME Inc(s), Inc(t), \A x \in Range(s), y \in Range(t) : x < y PROVE Inc(s \o t)
  <2> SUFFICES ASSUME NEW i \in 1..Len(s) + Len(t), NEW j \in 1..Len(s) + Len(t), i < j
               PROVE  (s \o t)[i] < (s \o t)[j]
    BY <1>1, SMT DEF Inc
  <2>1. CASE j \in 1..Len(s)
    BY <1>2, <1>6, <2>1, SMT DEF Inc
  <2>2. CASE i \notin 1..Len(s)
    BY <1>2, <1>6, <2>2, SMT DEF Inc
  <2>3. CASE i \in 1..Len(s) /\ j \notin 1..Len(s)
    <3>1. s[i] \in Range(s) /\ t[j - Len(s)] \in Range(t)
      BY <1>2, <2>3, SMT DEF Range
    <3> QED BY <1>2, <1>6, <2>3, <3>1
  <2> QED BY <2>1, <2>2, <2>3
<1> QED BY <1>1, <1>3, <1>4, <1>5, <1>6
-----------------------------------------------------------------------------
(* The file. *)

Lines == [number : Events, whole : BOOLEAN]

LEMMA Numbering == Events \subseteq Nat /\ \A n \in 0..MaxEvents : n < MaxEvents => n + 1 \in Events
BY AuditAssumption, SMT DEF Events

LEMMA LineOf ==
  ASSUME NEW e \in Events, NEW w \in BOOLEAN
  PROVE  Line(e, w) \in Lines /\ Line(e, w).number = e /\ Line(e, w).whole = w
BY DEF Line, Lines

(* A line is appended after the last.                                      *)
LEMMA AppendLine ==
  ASSUME file \in Seq(Lines), NEW l \in Lines, file' = Append(file, l)
  PROVE  /\ file' \in Seq(Lines)
         /\ DOMAIN file' = DOMAIN file \cup {Len(file) + 1} /\ Len(file) + 1 \notin DOMAIN file
         /\ \A i \in DOMAIN file : file'[i] = file[i]
         /\ file'[Len(file) + 1] = l
<1>1. file' \in Seq(Lines)
  BY SMT
<1>2. DOMAIN file' = 1..Len(file) + 1 /\ DOMAIN file = 1..Len(file) /\ Len(file) + 1 \notin 1..Len(file)
  BY SMT
<1>3. 1..Len(file) + 1 = 1..Len(file) \cup {Len(file) + 1}
  BY SMT
<1>4. \A i \in 1..Len(file) : file'[i] = file[i]
  BY SMT
<1>5. file'[Len(file) + 1] = l
  BY SMT
<1> QED BY <1>1, <1>2, <1>3, <1>4, <1>5

LEMMA FileOk ==
  ASSUME TypeOK, NEW e \in Events, WriteOk(e)
  PROVE  /\ file' \in Seq(Lines) /\ written' = written + 1
         /\ Whole' = Whole \cup {Len(file) + 1} /\ Len(file) + 1 \notin Whole
         /\ Logged' = Logged \cup {e}
<1> DEFINE l == Line(e, TRUE)
           k == Len(file) + 1
<1>1. file' = Append(file, l) /\ written' = written + 1
  BY DEF WriteOk
<1>2. l \in Lines /\ l.number = e /\ l.whole = TRUE
  BY LineOf
<1>3. file \in Seq(Lines)
  BY DEF TypeOK, Lines
<1> HIDE DEF l
<1>4. /\ file' \in Seq(Lines) /\ DOMAIN file' = DOMAIN file \cup {k} /\ k \notin DOMAIN file
      /\ (\A i \in DOMAIN file : file'[i] = file[i]) /\ file'[k] = l
  BY <1>1, <1>2, <1>3, AppendLine
<1> HIDE DEF k
<1>5. Whole' = Whole \cup {k} /\ k \notin Whole
  <2>1. file'[k].whole = TRUE
    BY <1>2, <1>4
  <2>2. file'[k].whole
    BY <2>1
  <2>3. \A i : i \in Whole' <=> i \in Whole \/ i = k
    BY <1>4, <2>2 DEF Whole
  <2> QED BY <1>4, <2>3 DEF Whole
<1>6. Logged' = Logged \cup {e}
  <2>1. \A i \in Whole : file'[i] = file[i]
    BY <1>4 DEF Whole
  <2>2. file'[k].number = e
    BY <1>2, <1>4
  <2> QED BY <1>5, <2>1, <2>2 DEF Logged
<1> QED BY <1>1, <1>4, <1>5, <1>6 DEF k

LEMMA FileFails ==
  ASSUME TypeOK, NEW e \in Events, WriteFails(e)
  PROVE  file' \in Seq(Lines) /\ written' = written /\ Whole' = Whole /\ Logged' = Logged
<1> DEFINE l == Line(e, FALSE)
           k == Len(file) + 1
<1>1. file' \in {file, Append(file, l)} /\ written' = written
  BY DEF WriteFails
<1>2. l \in Lines /\ l.whole = FALSE
  BY LineOf
<1>3. file \in Seq(Lines)
  BY DEF TypeOK, Lines
<1> HIDE DEF l
<1>4. CASE file' = file
  BY <1>1, <1>3, <1>4 DEF Whole, Logged
<1>5. CASE file' = Append(file, l)
  <2>1. /\ file' \in Seq(Lines) /\ DOMAIN file' = DOMAIN file \cup {k} /\ k \notin DOMAIN file
        /\ (\A i \in DOMAIN file : file'[i] = file[i]) /\ file'[k] = l
    BY <1>2, <1>3, <1>5, AppendLine
  <2> HIDE DEF k
  <2>2. Whole' = Whole
    <3>1. file'[k].whole = FALSE
      BY <1>2, <2>1
    <3>2. ~file'[k].whole
      BY <3>1
    <3>3. \A i : i \in Whole' <=> i \in Whole
      BY <2>1, <3>2 DEF Whole
    <3> QED BY <3>3
  <2>3. \A i \in Whole : file'[i] = file[i]
    BY <2>1 DEF Whole
  <2>4. Logged' = Logged
    BY <2>2, <2>3 DEF Logged
  <2> QED BY <1>1, <2>1, <2>2, <2>4
<1> QED BY <1>1, <1>4, <1>5
-----------------------------------------------------------------------------
(* Types. *)

(* The event the writer works on, and the one it would retry, are events.  *)
LEMMA InHand ==
  ASSUME TypeOK
  PROVE  /\ pc \in {"flush", "write"} => Head(event) \in Events /\ event = <<Head(event)>>
         /\ degraded # << >> => Head(degraded) \in Events
         /\ channel # << >> => Head(channel) \in Events
<1>1. ASSUME pc \in {"flush", "write"} PROVE Head(event) \in Events /\ event = <<Head(event)>>
  <2>1. event # << >>
    BY <1>1 DEF TypeOK
  <2>2. PICK e \in Events : event = <<e>>
    BY <2>1 DEF TypeOK
  <2> QED BY <2>2, OneEvent
<1>2. \A s \in Seq(Events) : s # << >> => Head(s) \in Events
  BY SMT
<1> QED BY <1>1, <1>2 DEF TypeOK

LEMMA SendType ==
  ASSUME TypeOK, recorded < MaxEvents, try_send(recorded + 1)
  PROVE  /\ recorded' \in 0..MaxEvents
         /\ channel' \in Seq(Events) /\ Len(channel') <= CHANNEL_CAP
         /\ dropped' \in Nat /\ lost' \subseteq Events
<1>1. recorded + 1 \in Events /\ recorded' \in 0..MaxEvents
  BY AuditAssumption, SMT DEF TypeOK, try_send, Events
<1>2. CASE Len(channel) < CHANNEL_CAP
  <2>1. channel' = Append(channel, recorded + 1) /\ dropped' = dropped /\ lost' = lost
    BY <1>2 DEF try_send
  <2>2. channel' \in Seq(Events) /\ Len(channel') <= CHANNEL_CAP
    BY <1>1, <1>2, <2>1, AuditAssumption, SMT DEF TypeOK
  <2> QED BY <1>1, <2>1, <2>2 DEF TypeOK
<1>3. CASE ~(Len(channel) < CHANNEL_CAP)
  <2>1. channel' = channel /\ dropped' = dropped + 1 /\ lost' = lost \cup {recorded + 1}
    BY <1>3 DEF try_send
  <2>2. dropped' \in Nat
    BY <2>1, SMT DEF TypeOK
  <2> QED BY <1>1, <2>1, <2>2 DEF TypeOK
<1> QED BY <1>2, <1>3

LEMMA TypeStep ==
  ASSUME TypeOK, [Next]_vars
  PROVE  TypeOK'
<1> DEFINE Goal == TypeOK'
<1> SUFFICES Goal
  OBVIOUS
<1>1. ASSUME recorded' \in 0..MaxEvents, channel' \in Seq(Events), Len(channel') <= CHANNEL_CAP,
             dropped' \in Nat, lost' \subseteq Events, open' \in BOOLEAN,
             shutdown' \in [number : 0..MaxEvents, events_dropped : Nat, events_in_degraded_buffer : {0}],
             UNCHANGED <<pc, event, degraded, written, file, evicted>>
      PROVE  Goal
  BY <1>1 DEF TypeOK
<1>2. ASSUME channel' \in Seq(Events), Len(channel') <= CHANNEL_CAP,
             degraded' \in Seq(Events), Len(degraded') <= DEGRADED_BUFFER_CAP,
             event' \in {<< >>} \cup {<<e>> : e \in Events},
             pc' \in {"recv", "flush", "write", "done"},
             event' = << >> <=> pc' \in {"recv", "done"},
             written' \in Nat, file' \in Seq(Lines), evicted' \subseteq Events,
             UNCHANGED <<recorded, dropped, open, shutdown, lost>>
      PROVE  Goal
  BY <1>2 DEF TypeOK, Lines
<1> HIDE DEF Goal
<1>3. file \in Seq(Lines) /\ (event = << >> <=> pc \in {"recv", "done"})
  BY DEF TypeOK, Lines
<1>4. ASSUME record PROVE Goal
  BY <1>1, <1>4, SendType DEF record, TypeOK
<1>5. ASSUME shutdown_audit PROVE Goal
  <2>1. shutdown' \in [number : 0..MaxEvents, events_dropped : Nat, events_in_degraded_buffer : {0}]
    BY <1>5, AuditAssumption, SMT DEF shutdown_audit, TypeOK
  <2> QED BY <1>1, <1>5, <2>1, SendType DEF shutdown_audit, TypeOK
<1>6. ASSUME DropLastSender \/ UNCHANGED vars PROVE Goal
  BY <1>1, <1>6 DEF DropLastSender, vars, TypeOK
<1>7. ASSUME Receive PROVE Goal
  <2>1. Head(channel) \in Events /\ channel' \in Seq(Events) /\ Len(channel') <= CHANNEL_CAP
    BY <1>7, AuditAssumption, SMT DEF Receive, TypeOK
  <2>2. event' \in {<<e>> : e \in Events} /\ event' # << >>
    <3>1. <<Head(channel)>> # << >>
      BY SMT
    <3> QED BY <1>7, <2>1, <3>1 DEF Receive
  <2> QED BY <1>2, <1>3, <1>7, <2>1, <2>2 DEF Receive, TypeOK
<1>8. ASSUME Finish \/ FlushDone PROVE Goal
  <2>1. event' = << >> <=> pc' \in {"recv", "done"}
    BY <1>3, <1>8 DEF Finish, FlushDone
  <2> QED BY <1>2, <1>3, <1>8, <2>1 DEF Finish, FlushDone, TypeOK
<1>9. ASSUME FlushOk PROVE Goal
  <2>1. degraded' \in Seq(Events) /\ Len(degraded') <= DEGRADED_BUFFER_CAP
    BY <1>9, AuditAssumption, SMT DEF FlushOk, TypeOK
  <2>2. file' \in Seq(Lines) /\ written' = written + 1
    BY <1>9, InHand, FileOk DEF FlushOk
  <2>3. written' \in Nat
    BY <2>2, SMT DEF TypeOK
  <2> QED BY <1>2, <1>3, <1>9, <2>1, <2>2, <2>3 DEF FlushOk, TypeOK
<1>10. ASSUME FlushFails PROVE Goal
  <2>1. file' \in Seq(Lines) /\ written' = written
    BY <1>10, InHand, FileFails DEF FlushFails
  <2>2. event' = << >> <=> pc' \in {"recv", "done"}
    BY <1>3, <1>10 DEF FlushFails
  <2> QED BY <1>2, <1>3, <1>10, <2>1, <2>2 DEF FlushFails, TypeOK
<1>11. ASSUME EventOk PROVE Goal
  <2>1. file' \in Seq(Lines) /\ written' = written + 1
    BY <1>11, InHand, FileOk DEF EventOk
  <2>2. written' \in Nat
    BY <2>1, SMT DEF TypeOK
  <2> QED BY <1>2, <1>3, <1>11, <2>1, <2>2 DEF EventOk, TypeOK
<1>12. ASSUME EventFails PROVE Goal
  <2>1. file' \in Seq(Lines) /\ written' = written
    BY <1>12, InHand, FileFails DEF EventFails
  <2>2. pc = "write" /\ Head(event) \in Events
    BY <1>12, InHand DEF EventFails
  <2>3. degraded \in Seq(Events) /\ Len(degraded) <= DEGRADED_BUFFER_CAP /\ evicted \subseteq Events
    BY DEF TypeOK
  <2>4. CASE Len(degraded) = DEGRADED_BUFFER_CAP
    <3>1. degraded' = Append(Tail(degraded), Head(event)) /\ evicted' = evicted \cup {Head(degraded)}
      BY <1>12, <2>4 DEF EventFails
    <3>2. /\ degraded' \in Seq(Events) /\ Len(degraded') <= DEGRADED_BUFFER_CAP
          /\ Head(degraded) \in Events
      BY <2>2, <2>3, <2>4, <3>1, AuditAssumption, SMT
    <3> QED BY <1>2, <1>3, <1>12, <2>1, <2>3, <3>1, <3>2 DEF EventFails, TypeOK
  <2>5. CASE Len(degraded) # DEGRADED_BUFFER_CAP
    <3>1. degraded' = Append(degraded, Head(event)) /\ evicted' = evicted
      BY <1>12, <2>5 DEF EventFails
    <3>2. degraded' \in Seq(Events) /\ Len(degraded') <= DEGRADED_BUFFER_CAP
      BY <2>2, <2>3, <2>5, <3>1, AuditAssumption, SMT
    <3> QED BY <1>2, <1>3, <1>12, <2>1, <3>1, <3>2 DEF EventFails, TypeOK
  <2> QED BY <2>4, <2>5
<1> QED
  BY <1>4, <1>5, <1>6, <1>7, <1>8, <1>9, <1>10, <1>11, <1>12 DEF Next, writer_loop

LEMMA InitType == Init => TypeOK
<1> SUFFICES ASSUME Init PROVE TypeOK
  OBVIOUS
<1>1. /\ recorded \in 0..MaxEvents /\ dropped \in Nat /\ written \in Nat
      /\ channel \in Seq(Events) /\ Len(channel) <= CHANNEL_CAP
      /\ degraded \in Seq(Events) /\ Len(degraded) <= DEGRADED_BUFFER_CAP
  BY AuditAssumption, SMT DEF Init
<1>2. file \in Seq(Lines)
  BY SMT DEF Init
<1>3. shutdown \in [number : 0..MaxEvents, events_dropped : Nat, events_in_degraded_buffer : {0}]
  BY AuditAssumption, SMT DEF Init, NoShutdown
<1> QED BY <1>1, <1>2, <1>3 DEF Init, TypeOK, Lines

(* Neither buffer outgrows its capacity (CHANNEL_CAP, DEGRADED_BUFFER_CAP) *)
(* and the writer has an event in hand exactly when it is handling one,    *)
(* however many events come and writes fail (record, writer_loop).         *)
THEOREM TypeCorrect == Spec => []TypeOK
<1>1. TypeOK /\ [Next]_vars => TypeOK'
  BY TypeStep
<1> QED BY <1>1, InitType, PTL DEF Spec

(* The writer winds down. *)

LEMMA BufferLengths ==
  ASSUME TypeOK
  PROVE  /\ Len(channel) \in Nat /\ Len(degraded) \in Nat
         /\ channel # << >> => Len(Tail(channel)) = Len(channel) - 1
         /\ degraded # << >> => Len(Tail(degraded)) = Len(degraded) - 1 /\ Len(degraded) > 0
         /\ \A e \in Events : Len(Append(degraded, e)) = Len(degraded) + 1
         /\ \A e \in Events : degraded # << >> => Len(Append(Tail(degraded), e)) = Len(degraded)
BY SMT DEF TypeOK

LEMMA LessLeft ==
  ASSUME TypeOK, Next, ~open
  PROVE  WorkLeft' < WorkLeft
<1>1. writer_loop
  BY DEF Next, record, shutdown_audit, DropLastSender
<1>2. CASE Receive
  <2>1. pc = "recv" /\ pc' = "flush" /\ channel # << >> /\ channel' = Tail(channel) /\ degraded' = degraded
    BY <1>2 DEF Receive
  <2> QED BY <2>1, BufferLengths, SMT DEF WorkLeft, Turn
<1>3. CASE Finish
  <2>1. pc = "recv" /\ pc' = "done" /\ channel' = channel /\ degraded' = degraded
    BY <1>3 DEF Finish
  <2> QED BY <2>1, BufferLengths, SMT DEF WorkLeft, Turn
<1>4. CASE FlushOk
  <2>1. pc' = pc /\ degraded # << >> /\ channel' = channel /\ degraded' = Tail(degraded)
    BY <1>4 DEF FlushOk
  <2> QED BY <2>1, BufferLengths, SMT DEF WorkLeft, Turn
<1>5. CASE FlushFails \/ FlushDone
  <2>1. pc = "flush" /\ pc' = "write" /\ channel' = channel /\ degraded' = degraded
    BY <1>5 DEF FlushFails, FlushDone
  <2> QED BY <2>1, BufferLengths, SMT DEF WorkLeft, Turn
<1>6. CASE EventOk
  <2>1. pc = "write" /\ pc' = "recv" /\ channel' = channel /\ degraded' = degraded
    BY <1>6 DEF EventOk
  <2> QED BY <2>1, BufferLengths, SMT DEF WorkLeft, Turn
<1>7. CASE EventFails
  <2>1. pc = "write" /\ pc' = "recv" /\ channel' = channel
    BY <1>7 DEF EventFails
  <2>2. Head(event) \in Events
    BY <2>1, SMT DEF TypeOK
  <2>3. \/ Len(degraded) = DEGRADED_BUFFER_CAP /\ degraded' = Append(Tail(degraded), Head(event))
        \/ degraded' = Append(degraded, Head(event))
    BY <1>7 DEF EventFails
  <2>4. Len(degraded) = DEGRADED_BUFFER_CAP => degraded # << >>
    BY AuditAssumption, SMT
  <2>5. Len(degraded') = Len(degraded) \/ Len(degraded') = Len(degraded) + 1
    BY <2>2, <2>3, <2>4, BufferLengths
  <2> QED BY <2>1, <2>5, BufferLengths, SMT DEF WorkLeft, Turn
<1> QED BY <1>1, <1>2, <1>3, <1>4, <1>5, <1>6, <1>7 DEF writer_loop

\* The most that can be left when the last sender is dropped.
MaxWork == 4 * CHANNEL_CAP + DEGRADED_BUFFER_CAP + 4

(* writer_loop: once no sender is left, each step leaves the writer less   *)
(* to do, and what it has to do is never more than a few steps for each    *)
(* place in the channel and the degraded buffer.  So it takes at most      *)
(* MaxWork more steps, however many writes fail, and cannot go round in    *)
(* circles over a file it cannot write.                                    *)
THEOREM WriterWindsDown == Spec => WindsDown /\ [](WorkLeft \in 0..MaxWork)
<1>1. TypeOK /\ [Next]_vars => [~open => WorkLeft' < WorkLeft]_vars
  BY LessLeft
<1>2. TypeOK => WorkLeft \in 0..MaxWork
  <2> SUFFICES ASSUME TypeOK PROVE WorkLeft \in 0..MaxWork
    OBVIOUS
  <2>1. Turn \in 0..4
    BY SMT DEF Turn
  <2>2. Len(channel) <= CHANNEL_CAP /\ Len(degraded) <= DEGRADED_BUFFER_CAP
    BY DEF TypeOK
  <2> QED BY <2>1, <2>2, BufferLengths, AuditAssumption, SMT DEF WorkLeft, MaxWork
<1> QED BY <1>1, <1>2, TypeCorrect, PTL DEF Spec, WindsDown
=============================================================================
