--------------------------- MODULE AuditTrailProofs ---------------------------
(***************************************************************************)
(* Proofs about AuditLog, continued: the order in which events are kept,   *)
(* the tallies, and that the audit trail is a lossy log.                   *)
(***************************************************************************)
EXTENDS AuditLogProofs, FiniteSetTheorems

\* The leaves are Zenon's, except those that say SMT.
USE Zenon

(* The order of events, and where an event can be. *)

Held == Range(degraded) \cup Range(event) \cup Range(channel)

(* The degraded buffer is older than the event in hand, which is older     *)
(* than the channel; evicted events are older than all of them; no event   *)
(* is in two places; and none is newer than the last recorded one.         *)
TrailInv ==
  /\ Inc(degraded) /\ Inc(channel)
  /\ \A d \in Range(degraded), e \in Range(event) : d < e
  /\ \A d \in Range(degraded), c \in Range(channel) : d < c
  /\ \A e \in Range(event), c \in Range(channel) : e < c
  /\ \A v \in evicted, x \in Held : v < x
  /\ \A x \in Held \cup Logged \cup lost \cup evicted : x <= recorded
  /\ lost \cap (Held \cup Logged \cup evicted) = {}
  /\ Logged \cap (Held \cup evicted) = {}

LEMMA Places ==
  ASSUME TypeOK
  PROVE  /\ degraded \in Seq(Nat) /\ channel \in Seq(Nat) /\ event \in Seq(Nat)
         /\ Held \subseteq Events /\ Logged \subseteq Events /\ recorded \in Nat
<1>1. degraded \in Seq(Nat) /\ channel \in Seq(Nat)
  BY AuditAssumption, SMT DEF TypeOK, Events
<1>2. event \in Seq(Nat) /\ event \in Seq(Events)
  <2>1. CASE event = << >>
    BY <2>1, SMT
  <2>2. ASSUME NEW e \in Events, event = <<e>> PROVE event \in Seq(Nat) /\ event \in Seq(Events)
    BY <2>2, Numbering, SMT
  <2> QED BY <2>1, <2>2 DEF TypeOK
<1>3. \A s \in Seq(Events) : Range(s) \subseteq Events
  BY SMT DEF Range
<1>4. Held \subseteq Events
  BY <1>2, <1>3 DEF TypeOK, Held
<1>5. Logged \subseteq Events
  <2>1. file \in Seq(Lines)
    BY DEF TypeOK, Lines
  <2>2. \A i \in DOMAIN file : file[i] \in Lines
    BY <2>1, SMT
  <2>3. \A l \in Lines : l.number \in Events
    BY DEF Lines
  <2> QED BY <2>2, <2>3 DEF Logged, Whole
<1>6. recorded \in Nat
  BY SMT DEF TypeOK
<1> QED BY <1>1, <1>2, <1>4, <1>5, <1>6

LEMMA Below == \A x \in Nat : ~(x < x)
BY SMT

LEMMA SendTrail ==
  ASSUME TypeOK, TrailInv, recorded < MaxEvents, try_send(recorded + 1),
         UNCHANGED <<degraded, event, file, evicted>>
  PROVE  /\ TrailInv'
         /\ recorded + 1 \in Events \ (Held \cup Logged \cup lost \cup evicted)
         /\ Logged' = Logged
         /\ \/ Held' = Held \cup {recorded + 1} /\ lost' = lost
            \/ Held' = Held /\ lost' = lost \cup {recorded + 1}
<1> DEFINE n == recorded + 1
           All == Held \cup Logged \cup lost \cup evicted
<1>0. All \subseteq Nat
  BY Places, Numbering DEF TypeOK
<1>1. n \in Events /\ n \in Nat /\ recorded' = n
  BY AuditAssumption, SMT DEF TypeOK, try_send, Events
<1>2. \A x \in Nat : x <= recorded => x < n /\ x <= n /\ x # n
  BY Places, SMT
<1>3. n <= n
  BY <1>1, SMT
<1> HIDE DEF n
<1>4. \A x \in All : x < n /\ x <= n /\ x # n
  BY <1>0, <1>2 DEF TrailInv
<1>5. Logged' = Logged
  BY DEF Logged, Whole
<1>6. CASE Len(channel) < CHANNEL_CAP
  <2>1. channel' = Append(channel, n) /\ lost' = lost
    BY <1>6 DEF try_send, n
  <2>2. \A c \in Range(channel) : c < n
    BY <1>4 DEF Held
  <2>3. Range(channel') = Range(channel) \cup {n} /\ Inc(channel')
    BY <1>1, <2>1, <2>2, Places, AppendBuffer DEF TrailInv
  <2>4. Held' = Held \cup {n}
    BY <2>3 DEF Held
  <2>5. TrailInv'
    <3>1. /\ \A d \in Range(degraded), c \in Range(channel') : d < c
          /\ \A e \in Range(event), c \in Range(channel') : e < c
      BY <1>4, <2>3 DEF TrailInv, Held
    <3>2. \A v \in evicted, x \in Held' : v < x
      BY <1>4, <2>4 DEF TrailInv
    <3>3. \A x \in Held' \cup Logged \cup lost \cup evicted : x <= n
      BY <1>3, <1>4, <2>4
    <3>4. lost \cap (Held' \cup Logged \cup evicted) = {} /\ Logged \cap (Held' \cup evicted) = {}
      BY <1>4, <2>4 DEF TrailInv
    <3> QED BY <1>1, <1>5, <2>1, <2>3, <3>1, <3>2, <3>3, <3>4 DEF TrailInv
  <2> QED BY <1>1, <1>4, <1>5, <2>1, <2>4, <2>5 DEF n
<1>7. CASE ~(Len(channel) < CHANNEL_CAP)
  <2>1. channel' = channel /\ lost' = lost \cup {n}
    BY <1>7 DEF try_send, n
  <2>2. Held' = Held
    BY <2>1 DEF Held
  <2>3. TrailInv'
    BY <1>1, <1>3, <1>4, <1>5, <2>1, <2>2 DEF TrailInv
  <2> QED BY <1>1, <1>4, <1>5, <2>1, <2>2, <2>3 DEF n
<1> QED BY <1>6, <1>7

(* An event that moves from the channel to the writer is still held.       *)
LEMMA ReceiveTrail ==
  ASSUME TypeOK, TrailInv, Receive
  PROVE  TrailInv' /\ Held' = Held /\ UNCHANGED <<Logged, lost, evicted>>
<1> DEFINE n == Head(channel)
<1>1. /\ channel # << >> /\ event' = <<n>> /\ channel' = Tail(channel)
      /\ UNCHANGED <<degraded, file, lost, evicted, recorded>>
  BY DEF Receive
<1>2. Range(event) = {}
  <2>1. event = << >>
    BY DEF Receive, TypeOK
  <2> QED BY <2>1, Places, EmptyBuffer
<1>3. /\ n \in Range(channel) /\ Range(channel') = Range(channel) \ {n} /\ Inc(channel')
      /\ \A c \in Range(channel') : n < c
  BY <1>1, Places, TailBuffer DEF TrailInv
<1>4. Range(event') = {n}
  BY <1>1, OneEvent
<1>5. Logged' = Logged
  BY <1>1 DEF Logged, Whole
<1> HIDE DEF n
<1>6. Held' = Held
  BY <1>1, <1>2, <1>3, <1>4 DEF Held
<1>7. /\ \A d \in Range(degraded), e \in Range(event') : d < e
      /\ \A d \in Range(degraded), c \in Range(channel') : d < c
      /\ \A e \in Range(event'), c \in Range(channel') : e < c
  BY <1>3, <1>4 DEF TrailInv
<1>8. TrailInv'
  BY <1>1, <1>3, <1>5, <1>6, <1>7 DEF TrailInv
<1> QED BY <1>1, <1>5, <1>6, <1>8

(* The oldest buffered event is written.                                   *)
LEMMA FlushTrail ==
  ASSUME TypeOK, TrailInv, FlushOk
  PROVE  /\ TrailInv' /\ UNCHANGED <<lost, evicted>>
         /\ Head(degraded) \in Held /\ Head(degraded) \notin Logged
         /\ Held' = Held \ {Head(degraded)} /\ Logged' = Logged \cup {Head(degraded)}
<1> DEFINE n == Head(degraded)
<1>1. /\ degraded # << >> /\ WriteOk(n) /\ degraded' = Tail(degraded)
      /\ UNCHANGED <<channel, event, lost, evicted, recorded>>
  BY DEF FlushOk
<1>2. /\ n \in Nat /\ n \in Range(degraded) /\ Range(degraded') = Range(degraded) \ {n}
      /\ Inc(degraded')
  BY <1>1, Places, TailBuffer DEF TrailInv
<1>3. Logged' = Logged \cup {n}
  BY <1>1, InHand, FileOk
<1> HIDE DEF n
<1>4. n \notin Range(event) /\ n \notin Range(channel) /\ n \notin evicted
  BY <1>2, Below DEF TrailInv, Held
<1>5. n \in Held /\ n \notin Logged /\ n \notin lost
  BY <1>2 DEF TrailInv, Held
<1>6. Held' = Held \ {n}
  BY <1>1, <1>2, <1>4 DEF Held
<1>7. /\ \A d \in Range(degraded'), e \in Range(event) : d < e
      /\ \A d \in Range(degraded'), c \in Range(channel) : d < c
      /\ \A v \in evicted, x \in Held' : v < x
  BY <1>2, <1>6 DEF TrailInv
<1>8. /\ \A x \in Held' \cup Logged' \cup lost \cup evicted : x <= recorded
      /\ lost \cap (Held' \cup Logged' \cup evicted) = {}
      /\ Logged' \cap (Held' \cup evicted) = {}
  BY <1>3, <1>4, <1>5, <1>6 DEF TrailInv
<1>9. TrailInv'
  BY <1>1, <1>2, <1>7, <1>8 DEF TrailInv
<1> QED BY <1>1, <1>3, <1>5, <1>6, <1>9 DEF n

(* The event in hand is written.                                           *)
LEMMA EventTrail ==
  ASSUME TypeOK, TrailInv, EventOk
  PROVE  /\ TrailInv' /\ UNCHANGED <<lost, evicted>>
         /\ Head(event) \in Held /\ Head(event) \notin Logged
         /\ Held' = Held \ {Head(event)} /\ Logged' = Logged \cup {Head(event)}
<1> DEFINE n == Head(event)
<1>1. /\ pc = "write" /\ WriteOk(n) /\ event' = << >>
      /\ UNCHANGED <<channel, degraded, lost, evicted, recorded>>
  BY DEF EventOk
<1>2. n \in Events /\ event = <<n>>
  BY <1>1, InHand
<1>3. Range(event) = {n} /\ n \in Nat
  BY <1>2, OneEvent, Numbering
<1>4. Range(event') = {}
  <2>1. << >> \in Seq(Nat)
    BY SMT
  <2> QED BY <1>1, <2>1, EmptyBuffer
<1>5. Logged' = Logged \cup {n}
  BY <1>1, <1>2, FileOk
<1> HIDE DEF n
<1>6. n \notin Range(degraded) /\ n \notin Range(channel) /\ n \notin evicted
  BY <1>3, Below DEF TrailInv, Held
<1>7. n \in Held /\ n \notin Logged /\ n \notin lost
  BY <1>3 DEF TrailInv, Held
<1>8. Held' = Held \ {n}
  BY <1>1, <1>3, <1>4, <1>6 DEF Held
<1>9. /\ \A x \in Held' \cup Logged' \cup lost \cup evicted : x <= recorded
      /\ lost \cap (Held' \cup Logged' \cup evicted) = {}
      /\ Logged' \cap (Held' \cup evicted) = {}
      /\ \A v \in evicted, x \in Held' : v < x
  BY <1>5, <1>6, <1>7, <1>8 DEF TrailInv
<1>10. TrailInv'
  BY <1>1, <1>4, <1>9 DEF TrailInv
<1> QED BY <1>1, <1>5, <1>7, <1>8, <1>10 DEF n

(* The event in hand is buffered, and at the cap the oldest one makes room.*)
LEMMA BufferTrail ==
  ASSUME TypeOK, TrailInv, EventFails
  PROVE  /\ TrailInv' /\ UNCHANGED <<lost, Logged>>
         /\ \/ Held' = Held /\ evicted' = evicted /\ Len(degraded') = Len(degraded) + 1
            \/ /\ Head(degraded) \in Held /\ Head(degraded) \notin evicted
               /\ Held' = Held \ {Head(degraded)} /\ evicted' = evicted \cup {Head(degraded)}
               /\ Len(degraded') = Len(degraded)
<1> DEFINE n == Head(event)
           h == Head(degraded)
<1>1. /\ pc = "write" /\ WriteFails(n) /\ event' = << >>
      /\ UNCHANGED <<channel, lost, recorded>>
  BY DEF EventFails
<1>2. n \in Events /\ event = <<n>>
  BY <1>1, InHand
<1>3. Range(event) = {n} /\ n \in Nat
  BY <1>2, OneEvent, Numbering
<1>4. Range(event') = {}
  <2>1. << >> \in Seq(Nat)
    BY SMT
  <2> QED BY <1>1, <2>1, EmptyBuffer
<1>5. Logged' = Logged
  BY <1>1, <1>2, FileFails
<1>6. CASE Len(degraded) = DEGRADED_BUFFER_CAP
  <2>1. degraded' = Append(Tail(degraded), n) /\ evicted' = evicted \cup {h}
    BY <1>6 DEF EventFails
  <2>2. degraded # << >>
    <3>1. Len(degraded) # 0
      BY <1>6, AuditAssumption, SMT
    <3> QED BY <3>1, Places, EmptyBuffer
  <2>3. /\ Tail(degraded) \in Seq(Nat) /\ h \in Nat /\ h \in Range(degraded)
        /\ Range(Tail(degraded)) = Range(degraded) \ {h} /\ Inc(Tail(degraded))
        /\ Len(Tail(degraded)) = Len(degraded) - 1
        /\ \A x \in Range(Tail(degraded)) : h < x
    BY <2>2, Places, TailBuffer DEF TrailInv
  <2>4. \A x \in Range(Tail(degraded)) : x < n
    BY <1>3, <2>3 DEF TrailInv
  <2>5. /\ Range(degraded') = (Range(degraded) \ {h}) \cup {n} /\ Inc(degraded')
        /\ Len(degraded') = Len(Tail(degraded)) + 1
    BY <1>3, <2>1, <2>3, <2>4, AppendBuffer
  <2>6. Len(degraded') = Len(degraded)
    BY <2>3, <2>5, Places, SMT
  <2> HIDE DEF n, h
  <2>7. h \notin Range(event) /\ h \notin Range(channel) /\ h \notin evicted
    BY <2>3, Below DEF TrailInv, Held
  <2>8. h \in Held /\ h \notin Logged /\ h \notin lost
    BY <2>3 DEF TrailInv, Held
  <2>9. Held' = Held \ {h}
    BY <1>1, <1>3, <1>4, <2>5, <2>7 DEF Held
  <2>10. \A x \in Held' : h < x
    BY <1>1, <1>3, <1>4, <2>3, <2>5 DEF TrailInv, Held
  <2>11. /\ \A v \in evicted', x \in Held' : v < x
         /\ \A x \in Held' \cup Logged \cup lost \cup evicted' : x <= recorded
         /\ lost \cap (Held' \cup Logged \cup evicted') = {}
         /\ Logged \cap (Held' \cup evicted') = {}
    BY <2>1, <2>8, <2>9, <2>10 DEF TrailInv
  <2>12. \A d \in Range(degraded'), c \in Range(channel) : d < c
    BY <1>3, <2>5 DEF TrailInv
  <2>13. TrailInv'
    BY <1>1, <1>4, <1>5, <2>5, <2>11, <2>12 DEF TrailInv
  <2> QED BY <1>1, <1>5, <2>1, <2>6, <2>7, <2>8, <2>9, <2>13 DEF h
<1>7. CASE Len(degraded) # DEGRADED_BUFFER_CAP
  <2>1. degraded' = Append(degraded, n) /\ evicted' = evicted
    BY <1>7 DEF EventFails
  <2>2. \A x \in Range(degraded) : x < n
    BY <1>3 DEF TrailInv
  <2>3. /\ Range(degraded') = Range(degraded) \cup {n} /\ Inc(degraded')
        /\ Len(degraded') = Len(degraded) + 1
    BY <1>3, <2>1, <2>2, Places, AppendBuffer DEF TrailInv
  <2> HIDE DEF n, h
  <2>4. Held' = Held
    BY <1>1, <1>3, <1>4, <2>3 DEF Held
  <2>5. \A d \in Range(degraded'), c \in Range(channel) : d < c
    BY <1>3, <2>3 DEF TrailInv
  <2>6. TrailInv'
    BY <1>1, <1>4, <1>5, <2>1, <2>3, <2>4, <2>5 DEF TrailInv
  <2> QED BY <1>1, <1>5, <2>1, <2>3, <2>4, <2>6
<1> QED BY <1>6, <1>7

(* The other steps move no event.                                          *)
LEMMA QuietTrail ==
  ASSUME TypeOK, TrailInv, DropLastSender \/ Finish \/ FlushDone \/ FlushFails \/ UNCHANGED vars
  PROVE  TrailInv' /\ UNCHANGED <<degraded, event, channel, Held, Logged, Whole, lost, evicted, recorded>>
<1>1. UNCHANGED <<degraded, event, channel, lost, evicted, recorded>>
  BY DEF DropLastSender, Finish, FlushDone, FlushFails, vars
<1>2. Logged' = Logged /\ Whole' = Whole
  <2>1. CASE FlushFails
    BY <2>1, InHand, FileFails DEF FlushFails
  <2>2. CASE file' = file
    BY <2>2 DEF Logged, Whole
  <2> QED BY <2>1, <2>2 DEF DropLastSender, Finish, FlushDone, vars
<1>3. Held' = Held
  BY <1>1 DEF Held
<1> QED BY <1>1, <1>2, <1>3 DEF TrailInv

LEMMA TrailStep ==
  ASSUME TypeOK, TrailInv, [Next]_vars
  PROVE  TrailInv'
<1>1. ASSUME record \/ shutdown_audit PROVE TrailInv'
  BY <1>1, SendTrail DEF record, shutdown_audit
<1> QED
  BY <1>1, ReceiveTrail, FlushTrail, EventTrail, BufferTrail, QuietTrail DEF Next, writer_loop

LEMMA TrailInit ==
  ASSUME Init
  PROVE  TrailInv /\ Held = {} /\ Logged = {} /\ Whole = {}
<1>1. << >> \in Seq(Nat)
  BY SMT
<1>2. Range(degraded) = {} /\ Range(event) = {} /\ Range(channel) = {} /\ Inc(degraded) /\ Inc(channel)
  BY <1>1, EmptyBuffer DEF Init
<1>3. DOMAIN file = {}
  BY SMT DEF Init
<1>4. Whole = {} /\ Logged = {}
  BY <1>3 DEF Whole, Logged
<1>5. Held = {}
  BY <1>2 DEF Held
<1> QED BY <1>2, <1>4, <1>5 DEF Init, TrailInv

LEMMA Invariant == Spec => [](TypeOK /\ TrailInv)
<1>1. TypeOK /\ TrailInv /\ [Next]_vars => (TypeOK /\ TrailInv)'
  BY TypeStep, TrailStep
<1>2. Init => TypeOK /\ TrailInv
  BY InitType, TrailInit
<1> QED BY <1>1, <1>2, PTL DEF Spec

(* The buffers, one after the other.                                       *)
LEMMA BufferedIs ==
  ASSUME TypeOK
  PROVE  /\ Buffered \in Seq(Nat) /\ Range(Buffered) = Held
         /\ Len(Buffered) = Len(degraded) + Len(event) + Len(channel)
         /\ TrailInv => Inc(Buffered)
<1>1. degraded \in Seq(Nat) /\ channel \in Seq(Nat) /\ event \in Seq(Nat)
  BY Places
<1> DEFINE s == degraded \o event
<1>2. /\ s \in Seq(Nat) /\ Len(s) = Len(degraded) + Len(event)
      /\ Range(s) = Range(degraded) \cup Range(event)
  BY <1>1, ConcatBuffers
<1>3. Inc(event)
  <2>1. CASE event = << >>
    BY <1>1, <2>1, EmptyBuffer
  <2>2. ASSUME NEW e \in Events, event = <<e>> PROVE Inc(event)
    BY <2>2, OneEvent
  <2> QED BY <2>1, <2>2 DEF TypeOK
<1>4. TrailInv => Inc(s)
  BY <1>1, <1>3, ConcatBuffers DEF TrailInv
<1>5. Buffered = s \o channel
  BY DEF Buffered
<1> HIDE DEF s
<1>6. TrailInv => \A x \in Range(s), c \in Range(channel) : x < c
  BY <1>2 DEF TrailInv
<1>7. /\ Buffered \in Seq(Nat) /\ Len(Buffered) = Len(s) + Len(channel)
      /\ Range(Buffered) = Range(s) \cup Range(channel)
  BY <1>1, <1>2, <1>5, ConcatBuffers
<1>8. TrailInv => Inc(Buffered)
  BY <1>1, <1>2, <1>4, <1>5, <1>6, ConcatBuffers DEF TrailInv
<1> QED BY <1>2, <1>7, <1>8 DEF Held

(* What is in memory is in the order it was recorded, and what the         *)
(* degraded buffer evicted is older: it keeps the latest failures.         *)
THEOREM LatestKept == Spec => []LatestKeptInOrder
<1>1. ASSUME TypeOK, TrailInv PROVE LatestKeptInOrder
  <2>1. Inc(Buffered) /\ Range(Buffered) = Held
    BY <1>1, BufferedIs
  <2>2. \A i \in DOMAIN Buffered : Buffered[i] \in Held
    BY <2>1 DEF Range
  <2>3. \A v \in evicted, x \in Held : v < x
    BY <1>1 DEF TrailInv
  <2> QED BY <2>1, <2>2, <2>3 DEF Inc, LatestKeptInOrder
<1>2. TypeOK /\ TrailInv => LatestKeptInOrder
  BY <1>1
<1> QED BY <1>2, Invariant, PTL
-----------------------------------------------------------------------------
(* Every step is a step of the lossy log, or none. *)

LEMMA HeldNow == TypeOK => Range(Buffered) = Held
BY BufferedIs

LEMMA HeldIs ==
  ASSUME TypeOK, TypeOK'
  PROVE  Range(Buffered) = Held /\ Range(Buffered)' = Held'
<1>1. (TypeOK => Range(Buffered) = Held)'
  BY HeldNow, PTL
<1> QED BY <1>1, HeldNow

LEMMA LogSteps ==
  ASSUME TypeOK, TypeOK', NEW e \in Events
  PROVE  /\ /\ e \notin Held \cup Logged \cup lost \cup evicted /\ Held' = Held \cup {e}
            /\ UNCHANGED <<Logged, lost, evicted>>
            => Log!Next
         /\ /\ e \notin Held \cup Logged \cup lost \cup evicted /\ lost' = lost \cup {e}
            /\ UNCHANGED <<Held, Logged, evicted>>
            => Log!Next
         /\ /\ e \in Held /\ Held' = Held \ {e} /\ Logged' = Logged \cup {e}
            /\ UNCHANGED <<lost, evicted>>
            => Log!Next
         /\ /\ e \in Held /\ Held' = Held \ {e} /\ evicted' = evicted \cup {e}
            /\ UNCHANGED <<lost, Logged>>
            => Log!Next
         /\ UNCHANGED <<Held, Logged, lost, evicted>> => UNCHANGED Log!logVars
<1>1. Range(Buffered) = Held /\ Range(Buffered)' = Held'
  BY HeldIs
<1>2. ASSUME e \notin Held \cup Logged \cup lost \cup evicted, Held' = Held \cup {e},
             UNCHANGED <<Logged, lost, evicted>>
      PROVE  Log!Accept(e)
  BY <1>1, <1>2 DEF Log!Accept, Log!Fresh
<1>3. ASSUME e \notin Held \cup Logged \cup lost \cup evicted, lost' = lost \cup {e},
             UNCHANGED <<Held, Logged, evicted>>
      PROVE  Log!Refuse(e)
  BY <1>1, <1>3 DEF Log!Refuse, Log!Fresh
<1>4. ASSUME e \in Held, Held' = Held \ {e}, Logged' = Logged \cup {e}, UNCHANGED <<lost, evicted>>
      PROVE  Log!Log(e)
  BY <1>1, <1>4 DEF Log!Log
<1>5. ASSUME e \in Held, Held' = Held \ {e}, evicted' = evicted \cup {e}, UNCHANGED <<lost, Logged>>
      PROVE  Log!GiveUp(e)
  BY <1>1, <1>5 DEF Log!GiveUp
<1>6. UNCHANGED <<Held, Logged, lost, evicted>> => UNCHANGED Log!logVars
  BY <1>1 DEF Log!logVars
<1> QED BY <1>2, <1>3, <1>4, <1>5, <1>6 DEF Log!Next

(* The channel, the writer and its degraded buffer together are a lossy    *)
(* log: no event is written twice, written after it was given up, or       *)
(* written without having been recorded, for any capacities and failures.  *)
THEOREM Refinement == Spec => ImplementsLossyLog
<1>1. Init => Log!Init
  <2> SUFFICES ASSUME Init PROVE Log!Init
    OBVIOUS
  <2>1. Range(Buffered) = {} /\ Logged = {}
    BY InitType, TrailInit, BufferedIs
  <2> QED BY <2>1 DEF Init, Log!Init
<1>2. ASSUME TypeOK, TrailInv, [Next]_vars PROVE [Log!Next]_Log!logVars
  <2>0. TypeOK'
    BY <1>2, TypeStep
  <2>1. ASSUME record \/ shutdown_audit PROVE Log!Next
    <3>1. /\ recorded + 1 \in Events \ (Held \cup Logged \cup lost \cup evicted)
          /\ Logged' = Logged /\ evicted' = evicted
          /\ \/ Held' = Held \cup {recorded + 1} /\ lost' = lost
             \/ Held' = Held /\ lost' = lost \cup {recorded + 1}
      BY <1>2, <2>1, SendTrail DEF record, shutdown_audit
    <3> QED BY <1>2, <2>0, <3>1, LogSteps
  <2>2. ASSUME FlushOk PROVE Log!Next
    <3>1. Head(degraded) \in Events
      BY <1>2, <2>2, InHand DEF FlushOk
    <3> QED BY <1>2, <2>0, <2>2, <3>1, FlushTrail, LogSteps
  <2>3. ASSUME EventOk PROVE Log!Next
    <3>1. Head(event) \in Events
      BY <1>2, <2>3, InHand DEF EventOk
    <3> QED BY <1>2, <2>0, <2>3, <3>1, EventTrail, LogSteps
  <2>4. ASSUME UNCHANGED <<Held, Logged, lost, evicted>> PROVE UNCHANGED Log!logVars
    <3>1. Range(Buffered) = Held /\ Range(Buffered)' = Held'
      BY <1>2, <2>0, HeldIs
    <3> QED BY <2>4, <3>1 DEF Log!logVars
  <2>5. ASSUME EventFails PROVE [Log!Next]_Log!logVars
    <3>1. CASE Held' = Held /\ evicted' = evicted
      BY <1>2, <2>4, <2>5, <3>1, BufferTrail
    <3>2. CASE /\ Head(degraded) \in Held /\ Held' = Held \ {Head(degraded)}
               /\ evicted' = evicted \cup {Head(degraded)}
      BY <1>2, <2>0, <2>5, <3>2, BufferTrail, Places, LogSteps
    <3> QED BY <1>2, <2>5, <3>1, <3>2, BufferTrail
  <2>6. ASSUME Receive PROVE UNCHANGED Log!logVars
    BY <1>2, <2>4, <2>6, ReceiveTrail
  <2>7. ASSUME DropLastSender \/ Finish \/ FlushDone \/ FlushFails \/ UNCHANGED vars
        PROVE  UNCHANGED Log!logVars
    BY <1>2, <2>4, <2>7, QuietTrail
  <2> QED BY <1>2, <2>1, <2>2, <2>3, <2>5, <2>6, <2>7 DEF Next, writer_loop
<1>3. TypeOK /\ TrailInv /\ [Next]_vars => [Log!Next]_Log!logVars
  BY <1>2
<1> QED BY <1>1, <1>3, Invariant, PTL DEF Spec, ImplementsLossyLog, Log!Spec
-----------------------------------------------------------------------------
(* The tallies. *)

LEMMA AddOne ==
  ASSUME NEW S, NEW x, IsFiniteSet(S), x \notin S
  PROVE  /\ IsFiniteSet(S \cup {x}) /\ Cardinality(S) \in Nat
         /\ Cardinality(S \cup {x}) = Cardinality(S) + 1
BY FS_AddElement, FS_CardinalityType

Finite == IsFiniteSet(lost) /\ IsFiniteSet(Logged) /\ IsFiniteSet(Whole) /\ IsFiniteSet(evicted)

CountInv ==
  /\ Finite
  /\ dropped = Cardinality(lost)
  /\ written = Cardinality(Logged) /\ written = Cardinality(Whole)
  /\ recorded = dropped + written + (Len(degraded) + Len(event) + Len(channel)) + Cardinality(evicted)

LEMMA Lengths ==
  ASSUME TypeOK
  PROVE  /\ Len(degraded) \in Nat /\ Len(event) \in Nat /\ Len(channel) \in Nat
         /\ recorded \in Nat /\ dropped \in Nat /\ written \in Nat
         /\ event = << >> => Len(event) = 0
         /\ pc \in {"flush", "write"} => Len(event) = 1
<1>1. Len(degraded) \in Nat /\ Len(event) \in Nat /\ Len(channel) \in Nat
  BY Places, SMT
<1>2. pc \in {"flush", "write"} => Len(event) = 1
  BY InHand, OneEvent
<1> QED BY <1>1, <1>2, Places, EmptyBuffer DEF TypeOK

LEMMA CountStep ==
  ASSUME TypeOK, TrailInv, CountInv, [Next]_vars
  PROVE  CountInv'
<1> DEFINE Goal == CountInv'
<1> SUFFICES Goal
  OBVIOUS
<1> DEFINE d == Len(degraded)
           e == Len(event)
           c == Len(channel)
           v == Cardinality(evicted)
<1>0. /\ d \in Nat /\ e \in Nat /\ c \in Nat /\ v \in Nat
      /\ recorded \in Nat /\ dropped \in Nat /\ written \in Nat
      /\ recorded = dropped + written + (d + e + c) + v
  BY Lengths, FS_CardinalityType DEF CountInv, Finite
<1>1. ASSUME Finite', dropped' = Cardinality(lost'),
             written' = Cardinality(Logged'), written' = Cardinality(Whole'),
             recorded' = dropped' + written' + (d' + e' + c') + v'
      PROVE  Goal
  BY <1>1 DEF CountInv
<1> HIDE DEF Goal
<1>2. ASSUME record \/ shutdown_audit PROVE Goal
  <2>1. /\ try_send(recorded + 1) /\ recorded < MaxEvents
        /\ UNCHANGED <<degraded, event, written, file, evicted>>
    BY <1>2 DEF record, shutdown_audit
  <2>2. recorded + 1 \notin lost
    BY <2>1, SendTrail
  <2>3. Logged' = Logged /\ Whole' = Whole
    BY <2>1 DEF Logged, Whole
  <2>4. CASE c < CHANNEL_CAP
    <3>1. recorded' = recorded + 1 /\ channel' = Append(channel, recorded + 1) /\ UNCHANGED <<dropped, lost>>
      BY <2>1, <2>4 DEF try_send
    <3>2. Len(channel') = Len(channel) + 1
      BY <1>0, <3>1, Places, SMT
    <3>3. recorded' = dropped' + written' + (d' + e' + c') + v'
      <4>1. d' = d /\ e' = e /\ c' = c + 1 /\ v' = v /\ written' = written
        BY <2>1, <3>2
      <4> HIDE DEF d, e, c, v
      <4> QED BY <1>0, <3>1, <4>1, SMT
    <3> QED BY <1>1, <2>1, <2>3, <3>1, <3>3 DEF CountInv, Finite
  <2>5. CASE ~(c < CHANNEL_CAP)
    <3>1. /\ recorded' = recorded + 1 /\ dropped' = dropped + 1 /\ lost' = lost \cup {recorded + 1}
          /\ channel' = channel
      BY <2>1, <2>5 DEF try_send
    <3>2. IsFiniteSet(lost') /\ Cardinality(lost') = Cardinality(lost) + 1
      BY <2>2, <3>1, AddOne DEF CountInv, Finite
    <3>3. recorded' = dropped' + written' + (d' + e' + c') + v'
      <4>1. d' = d /\ e' = e /\ c' = c /\ v' = v /\ written' = written
        BY <2>1, <3>1
      <4> HIDE DEF d, e, c, v
      <4> QED BY <1>0, <3>1, <4>1, SMT
    <3> QED BY <1>1, <2>1, <2>3, <3>1, <3>2, <3>3 DEF CountInv, Finite
  <2> QED BY <2>4, <2>5
<1>3. ASSUME DropLastSender \/ Finish \/ FlushDone \/ FlushFails \/ UNCHANGED vars PROVE Goal
  <2>1. UNCHANGED <<degraded, event, channel, Logged, Whole, lost, evicted, recorded>>
    BY <1>3, QuietTrail
  <2>2. UNCHANGED <<dropped, written>>
    BY <1>3 DEF DropLastSender, Finish, FlushDone, FlushFails, WriteFails, vars
  <2> QED BY <1>1, <2>1, <2>2 DEF CountInv, Finite
<1>4. ASSUME Receive PROVE Goal
  <2>1. /\ pc = "recv" /\ channel # << >> /\ event' = <<Head(channel)>> /\ channel' = Tail(channel)
        /\ UNCHANGED <<degraded, dropped, written, file, lost, evicted, recorded>>
    BY <1>4 DEF Receive
  <2>2. Logged' = Logged /\ Whole' = Whole
    BY <2>1 DEF Logged, Whole
  <2>3. d' = d /\ e = 0 /\ e' = 1 /\ c' = c - 1 /\ v' = v
    <3>1. event = << >>
      BY <2>1 DEF TypeOK
    <3>2. Len(event) = 0 /\ Len(event') = 1
      BY <2>1, <3>1, Lengths, OneEvent
    <3>3. Len(channel') = Len(channel) - 1
      BY <2>1, Places, TailBuffer DEF TrailInv
    <3> QED BY <2>1, <3>2, <3>3
  <2>4. recorded' = dropped' + written' + (d' + e' + c') + v'
    <3> HIDE DEF d, e, c, v
    <3> QED BY <1>0, <2>1, <2>3, SMT
  <2> QED BY <1>1, <2>1, <2>2, <2>4 DEF CountInv, Finite
\* A whole line is one more in the file and in the tally.
<1>5. ASSUME NEW n \in Events, WriteOk(n), Logged' = Logged \cup {n}, n \notin Logged
      PROVE  /\ IsFiniteSet(Logged') /\ IsFiniteSet(Whole') /\ written' = written + 1
             /\ written' = Cardinality(Logged') /\ written' = Cardinality(Whole')
  <2>1. written' = written + 1 /\ Whole' = Whole \cup {Len(file) + 1} /\ Len(file) + 1 \notin Whole
    BY <1>5, FileOk
  <2>2. IsFiniteSet(Logged') /\ Cardinality(Logged') = Cardinality(Logged) + 1
    BY <1>5, AddOne DEF CountInv, Finite
  <2>3. IsFiniteSet(Whole') /\ Cardinality(Whole') = Cardinality(Whole) + 1
    BY <2>1, AddOne DEF CountInv, Finite
  <2> QED BY <2>1, <2>2, <2>3 DEF CountInv
<1>6. ASSUME FlushOk PROVE Goal
  <2>1. /\ WriteOk(Head(degraded)) /\ degraded # << >> /\ degraded' = Tail(degraded)
        /\ Head(degraded) \in Events /\ UNCHANGED <<channel, event, dropped, lost, evicted, recorded>>
    BY <1>6, InHand DEF FlushOk
  <2>2. Logged' = Logged \cup {Head(degraded)} /\ Head(degraded) \notin Logged
    BY <1>6, FlushTrail
  <2>3. /\ IsFiniteSet(Logged') /\ IsFiniteSet(Whole') /\ written' = written + 1
        /\ written' = Cardinality(Logged') /\ written' = Cardinality(Whole')
    BY <1>5, <2>1, <2>2
  <2>4. d' = d - 1 /\ e' = e /\ c' = c /\ v' = v
    BY <2>1, Places, TailBuffer DEF TrailInv
  <2>5. recorded' = dropped' + written' + (d' + e' + c') + v'
    <3> HIDE DEF d, e, c, v
    <3> QED BY <1>0, <2>1, <2>3, <2>4, SMT
  <2> QED BY <1>1, <2>1, <2>3, <2>5 DEF CountInv, Finite
<1>7. ASSUME EventOk PROVE Goal
  <2>1. /\ WriteOk(Head(event)) /\ pc = "write" /\ event' = << >>
        /\ Head(event) \in Events /\ UNCHANGED <<channel, degraded, dropped, lost, evicted, recorded>>
    BY <1>7, InHand DEF EventOk
  <2>2. Logged' = Logged \cup {Head(event)} /\ Head(event) \notin Logged
    BY <1>7, EventTrail
  <2>3. /\ IsFiniteSet(Logged') /\ IsFiniteSet(Whole') /\ written' = written + 1
        /\ written' = Cardinality(Logged') /\ written' = Cardinality(Whole')
    BY <1>5, <2>1, <2>2
  <2>4. d' = d /\ e = 1 /\ e' = 0 /\ c' = c /\ v' = v
    <3>1. << >> \in Seq(Nat)
      BY SMT
    <3> QED BY <2>1, <3>1, Lengths, EmptyBuffer
  <2>5. recorded' = dropped' + written' + (d' + e' + c') + v'
    <3> HIDE DEF d, e, c, v
    <3> QED BY <1>0, <2>1, <2>3, <2>4, SMT
  <2> QED BY <1>1, <2>1, <2>3, <2>5 DEF CountInv, Finite
<1>8. ASSUME EventFails PROVE Goal
  <2>1. /\ WriteFails(Head(event)) /\ pc = "write" /\ event' = << >>
        /\ Head(event) \in Events /\ UNCHANGED <<channel, dropped, lost, recorded>>
    BY <1>8, InHand DEF EventFails
  <2>2. written' = written /\ Whole' = Whole /\ Logged' = Logged
    BY <2>1, FileFails
  <2>3. e = 1 /\ e' = 0 /\ c' = c
    <3>1. << >> \in Seq(Nat)
      BY SMT
    <3> QED BY <2>1, <3>1, Lengths, EmptyBuffer
  <2>4. IsFiniteSet(evicted') /\ ((d' = d + 1 /\ v' = v) \/ (d' = d /\ v' = v + 1))
    <3>1. CASE evicted' = evicted /\ Len(degraded') = Len(degraded) + 1
      BY <3>1 DEF CountInv, Finite
    <3>2. CASE /\ Head(degraded) \notin evicted /\ evicted' = evicted \cup {Head(degraded)}
               /\ Len(degraded') = Len(degraded)
      BY <3>2, AddOne DEF CountInv, Finite
    <3> QED BY <1>8, <3>1, <3>2, BufferTrail
  <2>5. recorded' = dropped' + written' + (d' + e' + c') + v'
    <3>1. recorded' = recorded /\ dropped' = dropped /\ written' = written
      BY <2>1, <2>2
    <3> HIDE DEF d, e, c, v
    <3>2. CASE d' = d + 1 /\ v' = v
      BY <1>0, <2>3, <3>1, <3>2, SMT
    <3>3. CASE d' = d /\ v' = v + 1
      BY <1>0, <2>3, <3>1, <3>3, SMT
    <3> QED BY <2>4, <3>2, <3>3
  <2> QED BY <1>1, <2>1, <2>2, <2>4, <2>5 DEF CountInv, Finite
<1> QED
  BY <1>2, <1>3, <1>4, <1>6, <1>7, <1>8 DEF Next, writer_loop

LEMMA CountInit ==
  ASSUME Init
  PROVE  CountInv
<1>1. Logged = {} /\ Whole = {}
  BY TrailInit
<1>2. IsFiniteSet({}) /\ Cardinality({}) = 0
  BY FS_EmptySet
<1>3. Len(degraded) = 0 /\ Len(event) = 0 /\ Len(channel) = 0
  BY SMT DEF Init
<1>4. 0 = 0 + 0 + (0 + 0 + 0) + 0
  BY SMT
<1> QED BY <1>1, <1>2, <1>3, <1>4 DEF Init, CountInv, Finite

(* The tallies of dropped and written events are exact, and account for    *)
(* every event that was ever recorded (AuditWriter.dropped,                *)
(* events_written).                                                        *)
THEOREM Accounted == Spec => []Accounting
<1>1. ASSUME TypeOK, CountInv PROVE Accounting
  BY <1>1, BufferedIs DEF CountInv, Accounting
<1>2. TypeOK /\ TrailInv /\ CountInv /\ [Next]_vars => CountInv'
  BY CountStep
<1>3. Init => CountInv
  BY CountInit
<1>4. TypeOK /\ CountInv => Accounting
  BY <1>1
<1> QED BY <1>2, <1>3, <1>4, Invariant, PTL DEF Spec
-----------------------------------------------------------------------------
(* What the lossy log promises, in terms of the file and the buffers. *)

Fates ==
  /\ Range(Buffered) \cap (Logged \cup lost \cup evicted) = {}
  /\ Logged \cap (lost \cup evicted) = {}

(* The fate of an event is decided once: it is in memory, on a whole line  *)
(* of the file, or given up, never two of these, and what is on a whole    *)
(* line or given up stays so.  A retry from the degraded buffer thus never *)
(* repeats a line or revives an event that was counted as dropped          *)
(* (writer_loop, AuditWriter::record).                                     *)
THEOREM FateIsFinal ==
  Spec => /\ []Fates
          /\ [][Logged \subseteq Logged' /\ lost \cup evicted \subseteq lost' \cup evicted']_vars
<1>1. Log!Init => Fates
  BY DEF Log!Init, Fates
<1>2. ASSUME Fates, [Log!Next]_Log!logVars
      PROVE  Fates' /\ Logged \subseteq Logged' /\ lost \cup evicted \subseteq lost' \cup evicted'
  <2> DEFINE h == Range(Buffered)
             g == lost \cup evicted
  <2>1. h \cap (Logged \cup g) = {} /\ Logged \cap g = {}
    BY <1>2 DEF Fates
  <2>2. \/ \E e : /\ e \notin h \cup Logged \cup g
                  /\ \/ h' = h \cup {e} /\ Logged' = Logged /\ g' = g
                     \/ h' = h /\ Logged' = Logged /\ g' = g \cup {e}
        \/ \E e \in h : /\ h' = h \ {e}
                        /\ \/ Logged' = Logged \cup {e} /\ g' = g
                           \/ Logged' = Logged /\ g' = g \cup {e}
        \/ h' = h /\ Logged' = Logged /\ g' = g
    BY <1>2 DEF Log!Next, Log!Accept, Log!Refuse, Log!Log, Log!GiveUp, Log!Fresh, Log!logVars
  <2> HIDE DEF h, g
  <2>3. h' \cap (Logged' \cup g') = {} /\ Logged' \cap g' = {} /\ Logged \subseteq Logged' /\ g \subseteq g'
    BY <2>1, <2>2
  <2> QED BY <2>3 DEF h, g, Fates
<1> QED BY <1>1, <1>2, Refinement, PTL DEF ImplementsLossyLog, Log!Spec
=============================================================================
