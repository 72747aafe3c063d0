---------------------------- MODULE AnswersProofs -----------------------------
(***************************************************************************)
(* Proofs about the request loops of Requests: every answer is to its own  *)
(* line, every line is answered, and the requests have the effects that    *)
(* RegistryService promises.                                               *)
(***************************************************************************)
EXTENDS RequestsProofs

\* The leaves are Zenon's, except those that say SMT.
USE Zenon

-----------------------------------------------------------------------------
(* Answers and lines. *)

\* The sequence `rest' is what follows the first n elements of `all'.
Aligned(all, n, rest) ==
  /\ Len(all) = n + Len(rest)
  /\ \A k \in 1..Len(rest) : rest[k] = all[n + k]

LEMMA AlignedAppend ==
  ASSUME NEW S, NEW all \in Seq(S), NEW rest \in Seq(S), NEW n \in Nat, NEW x \in S,
         Aligned(all, n, rest)
  PROVE  Aligned(Append(all, x), n, Append(rest, x))
<1>1. Len(all) \in Nat /\ Len(rest) \in Nat /\ Len(all) = n + Len(rest)
  BY SMT DEF Aligned
<1>2. Len(Append(all, x)) = Len(all) + 1 /\ Len(Append(rest, x)) = Len(rest) + 1
  BY SMT
<1>3. ASSUME NEW k \in 1..(Len(rest) + 1) PROVE Append(rest, x)[k] = Append(all, x)[n + k]
  <2>1. CASE k = Len(rest) + 1
    <3>1. n + k = Len(all) + 1
      BY <1>1, <2>1, SMT
    <3> QED BY <2>1, <3>1, AppendProperties, SMT
  <2>2. CASE k \in 1..Len(rest)
    <3>1. n + k \in 1..Len(all)
      BY <1>1, <2>2, SMT
    <3> QED BY <2>2, <3>1, AppendProperties, SMT DEF Aligned
  <2> QED BY <1>1, <2>1, <2>2, SMT
<1> QED BY <1>1, <1>2, <1>3, SMT DEF Aligned

LEMMA AlignedTail ==
  ASSUME NEW S, NEW all \in Seq(S), NEW rest \in Seq(S), NEW n \in Nat, rest # << >>,
         Aligned(all, n, rest)
  PROVE  /\ Aligned(all, n + 1, Tail(rest))
         /\ Head(rest) = all[n + 1] /\ n + 1 \in 1..Len(all)
<1>1. /\ Len(all) \in Nat /\ Len(rest) \in Nat \ {0} /\ Len(all) = n + Len(rest)
      /\ Len(Tail(rest)) = Len(rest) - 1
  BY EmptySeq, HeadTailProperties, SMT DEF Aligned
<1>2. ASSUME NEW k \in 1..Len(Tail(rest)) PROVE Tail(rest)[k] = all[(n + 1) + k]
  <2>1. k + 1 \in 1..Len(rest) /\ n + (k + 1) = (n + 1) + k
    BY <1>1, SMT
  <2>2. Tail(rest)[k] = rest[k + 1]
    BY <1>1, HeadTailProperties
  <2> QED BY <2>1, <2>2 DEF Aligned
<1>3. Head(rest) = rest[1] /\ 1 \in 1..Len(rest)
  BY <1>1, HeadTailProperties, SMT
<1>4. Len(all) = (n + 1) + Len(Tail(rest)) /\ n + 1 \in 1..Len(all)
  BY <1>1, SMT
<1> QED BY <1>2, <1>3, <1>4 DEF Aligned

Busy(c) == IF pc[c] = "read" THEN 0 ELSE 1

\* The answer number i of c is to the line number i.
AnswersLine(c, i) ==
  /\ i <= Len(sent[c])
  /\ outbox[c][i].to = from_slice(plane[c], sent[c][i])
  /\ sent[c][i].got < MAX_MESSAGE_BYTES

\* AnsweredInOrder is not inductive: it speaks of the lines already
\* answered.  The lines a client has sent are those, then the one being
\* handled, then those still in the stream, each at its place.
OrderInv(c) ==
  /\ plane[c] = "new" => sent[c] = << >> /\ outbox[c] = << >>
  /\ \A i \in 1..Len(outbox[c]) : AnswersLine(c, i)
  /\ ~closed[c] => Aligned(sent[c], Len(outbox[c]) + Busy(c), stream[c])
  /\ pc[c] # "read" =>
       /\ ~closed[c] /\ Len(outbox[c]) + 1 <= Len(sent[c])
       /\ req[c] = from_slice(plane[c], sent[c][Len(outbox[c]) + 1])
       /\ sent[c][Len(outbox[c]) + 1].got < MAX_MESSAGE_BYTES
  /\ pc[c] = "write" => reply[c].to = req[c]

Order == \A c \in Conns : OrderInv(c)

LEMMA OutboxType ==
  ASSUME TypeOK, NEW c \in Conns
  PROVE  /\ DOMAIN outbox[c] = 1..Len(outbox[c]) /\ Len(outbox[c]) \in Nat
         /\ \A a \in [to : Reqs, code : Codes] :
              /\ Len(Append(outbox[c], a)) = Len(outbox[c]) + 1
              /\ \A i \in 1..Len(outbox[c]) : Append(outbox[c], a)[i] = outbox[c][i]
              /\ Append(outbox[c], a)[Len(outbox[c]) + 1] = a
<1> DEFINE A == [to : Reqs, code : Codes]
<1>0. outbox \in [Conns -> Seq(A)]
  BY DEF TypeOK
<1> HIDE DEF A
<1>1. outbox[c] \in Seq(A)
  BY <1>0
<1>2. DOMAIN outbox[c] = 1..Len(outbox[c]) /\ Len(outbox[c]) \in Nat
  BY <1>1, LenProperties
<1>3. \A a \in A :
        /\ Len(Append(outbox[c], a)) = Len(outbox[c]) + 1
        /\ \A i \in 1..Len(outbox[c]) : Append(outbox[c], a)[i] = outbox[c][i]
        /\ Append(outbox[c], a)[Len(outbox[c]) + 1] = a
  BY <1>1, AppendProperties, SMT
<1> QED BY <1>2, <1>3 DEF A

LEMMA OrderGives ==
  ASSUME TypeOK, Order
  PROVE  AnsweredInOrder
<1> SUFFICES ASSUME NEW c \in Conns, NEW i \in DOMAIN outbox[c] PROVE AnswersLine(c, i)
  BY DEF AnsweredInOrder, AnswersLine
<1>1. DOMAIN outbox[c] = 1..Len(outbox[c])
  BY OutboxType
<1> QED BY <1>1 DEF Order, OrderInv

\* Nothing on the connection changes, and a handler goes on with its
\* request or has an answer to it.
Undisturbed(c) ==
  /\ plane'[c] = plane[c] /\ closed'[c] = closed[c] /\ sent'[c] = sent[c] /\ stream'[c] = stream[c]
  /\ outbox'[c] = outbox[c] /\ req'[c] = req[c]
  /\ pc'[c] = "read" <=> pc[c] = "read"
  /\ pc'[c] = "write" => \/ pc[c] = "write" /\ reply'[c] = reply[c]
                         \/ reply'[c].to = req[c]

LEMMA UndisturbedOrder ==
  ASSUME NEW c \in Conns, OrderInv(c), Undisturbed(c)
  PROVE  OrderInv(c)'
<1>1. Busy(c)' = Busy(c)
  BY DEF Busy, Undisturbed
<1>2. \A i \in 1..Len(outbox[c]) : AnswersLine(c, i)'
  BY DEF OrderInv, AnswersLine, Undisturbed
<1> QED BY <1>1, <1>2 DEF OrderInv, Undisturbed

OthersUndisturbed(c) == \A b \in Conns \ {c} : Undisturbed(b)

LEMMA OneOrderMoved ==
  ASSUME NEW c \in Conns, Order, OrderInv(c)', OthersUndisturbed(c)
  PROVE  Order'
<1> SUFFICES ASSUME NEW b \in Conns PROVE OrderInv(b)'
  BY DEF Order
<1>1. CASE b = c
  BY <1>1
<1>2. CASE b # c
  BY <1>2, UndisturbedOrder DEF Order, OthersUndisturbed
<1> QED BY <1>1, <1>2

(* A line more, at the end of both.                                        *)
LEMMA TransmitOrder ==
  ASSUME TypeOK, Order, NEW c \in Conns, NEW line \in Lines, Transmit(c, line)
  PROVE  Order'
<1>1. /\ plane[c] # "new" /\ ~closed[c]
      /\ sent' = [sent EXCEPT ![c] = Append(sent[c], line)]
      /\ stream' = [stream EXCEPT ![c] = Append(stream[c], line)]
      /\ UNCHANGED <<plane, closed, outbox, pc, req, reply>>
  BY DEF Transmit, Open, taskVars
<1>2. sent[c] \in Seq(Lines) /\ stream[c] \in Seq(Lines) /\ Len(outbox[c]) \in Nat
  BY SMT DEF TypeOK
<1>3. sent'[c] = Append(sent[c], line) /\ stream'[c] = Append(stream[c], line)
  BY <1>1 DEF TypeOK
<1>4. /\ Len(sent[c]) \in Nat /\ Len(sent'[c]) = Len(sent[c]) + 1
      /\ \A i \in 1..Len(sent[c]) : sent'[c][i] = sent[c][i]
  BY <1>2, <1>3, AppendProperties, SMT
<1>5. Busy(c)' = Busy(c) /\ Busy(c) \in Nat
  BY <1>1 DEF Busy
<1>6. Aligned(sent[c], Len(outbox[c]) + Busy(c), stream[c])
  BY <1>1 DEF Order, OrderInv
<1>7. OrderInv(c)'
  <2>1. \A i \in 1..Len(outbox[c]) : AnswersLine(c, i)'
    BY <1>1, <1>2, <1>4, SMT DEF Order, OrderInv, AnswersLine
  <2>2. Len(outbox[c]) + Busy(c) \in Nat
    BY <1>2, <1>5, SMT
  <2>3. Aligned(sent'[c], Len(outbox'[c]) + Busy(c)', stream'[c])
    BY <1>1, <1>2, <1>3, <1>5, <1>6, <2>2, AlignedAppend
  <2>4. pc[c] # "read" => /\ Len(outbox[c]) + 1 \in 1..Len(sent[c])
                          /\ Len(outbox[c]) + 1 <= Len(sent'[c])
    BY <1>2, <1>4, SMT DEF Order, OrderInv
  <2> QED BY <1>1, <1>4, <2>1, <2>3, <2>4 DEF Order, OrderInv
<1>8. OthersUndisturbed(c)
  BY <1>1 DEF TypeOK, OthersUndisturbed, Undisturbed
<1> QED BY <1>7, <1>8, OneOrderMoved

(* A handler returns with its answer, or goes on.                          *)
LEMMA RespondOrder ==
  ASSUME TypeOK, Order, NEW c \in Conns, pc[c] # "read", NEW code, NEW data, Respond(c, code, data),
         UNCHANGED <<wireVars, req>>
  PROVE  Order'
<1>1. /\ pc' = [pc EXCEPT ![c] = "write"]
      /\ reply' = [reply EXCEPT ![c] = [to |-> req[c], code |-> code, data |-> data]]
      /\ UNCHANGED <<plane, closed, sent, stream, outbox, req>>
  BY DEF Respond, wireVars
<1>2. reply'[c].to = req[c] /\ pc'[c] = "write"
  BY <1>1 DEF TypeOK
<1>3. Undisturbed(c)
  BY <1>1, <1>2 DEF Undisturbed
<1>4. OthersUndisturbed(c)
  BY <1>1 DEF TypeOK, OthersUndisturbed, Undisturbed
<1> QED BY <1>3, <1>4, UndisturbedOrder, OneOrderMoved DEF Order

LEMMA MoveOrder ==
  ASSUME TypeOK, Order, NEW c \in Conns, pc[c] # "read", NEW l, l # "read", l # "write",
         pc' = [pc EXCEPT ![c] = l], UNCHANGED <<wireVars, req, reply>>
  PROVE  Order'
<1>1. UNCHANGED <<plane, closed, sent, stream, outbox, req, reply>>
  BY DEF wireVars
<1>2. pc'[c] = l /\ \A b \in Conns \ {c} : pc'[b] = pc[b]
  BY DEF TypeOK
<1>3. Undisturbed(c) /\ OthersUndisturbed(c)
  BY <1>1, <1>2 DEF OthersUndisturbed, Undisturbed
<1> QED BY <1>3, UndisturbedOrder, OneOrderMoved DEF Order

LEMMA AdminOrder ==
  ASSUME TypeOK, Order, NEW c \in Conns, dispatch_admin(c)
  PROVE  Order'
<1>1. ASSUME Discover(c) PROVE Order'
  <2>1. pc[c] # "read" /\ UNCHANGED wireVars
    BY <1>1 DEF Discover, Dispatch
  <2>2. CASE discover(disk[LoadDir(c)]) = None
    BY <1>1, <2>1, <2>2, RespondOrder DEF Discover, Fail
  <2>3. CASE discover(disk[LoadDir(c)]) # None
    <3> DEFINE l == "read_file"
    <3>1. pc' = [pc EXCEPT ![c] = l] /\ UNCHANGED <<wireVars, req, reply>>
      BY <1>1, <2>3 DEF Discover
    <3>2. l # "read" /\ l # "write"
      OBVIOUS
    <3> HIDE DEF l
    <3> QED BY <2>1, <3>1, <3>2, MoveOrder
  <2> QED BY <2>2, <2>3
<1>2. ASSUME ReadFile(c) PROVE Order'
  <2> DEFINE r == read_manifest(disk[LoadDir(c)][path[c]], file_name[LoadDir(c)])
             l == IF req[c].op = "register" THEN "insert" ELSE "set_config"
  <2>1. pc[c] # "read" /\ UNCHANGED wireVars
    BY <1>2 DEF ReadFile
  <2>2. \/ Fail(c, load_manifest(r.error)) \/ Fail(c, "ManifestInvalid")
        \/ pc' = [pc EXCEPT ![c] = l] /\ UNCHANGED <<req, reply>>
    BY <1>2 DEF ReadFile
  <2>3. l # "read" /\ l # "write"
    OBVIOUS
  <2> HIDE DEF r, l
  <2>4. ASSUME NEW e, Fail(c, e) PROVE Order'
    BY <2>1, <2>4, RespondOrder DEF Fail
  <2> QED BY <2>1, <2>2, <2>3, <2>4, MoveOrder
<1>3. ASSUME Insert(c) \/ RemoveSocket(c) \/ StoreManifest(c) PROVE Order'
  BY <1>3, RespondOrder DEF Insert, RemoveSocket, StoreManifest
<1>4. ASSUME Exists(c) \/ BindFails(c) \/ Unknown(c) PROVE Order'
  BY <1>4, RespondOrder DEF Exists, BindFails, Unknown, Dispatch, Fail
<1>5. ASSUME Unregister(c) \/ Lookup(c) \/ SetConfig(c) PROVE Order'
  BY <1>5, MoveOrder DEF Unregister, Lookup, SetConfig, Dispatch
<1>6. ASSUME status(c) \/ rotate_bootstrap(c) PROVE Order'
  BY <1>6, RespondOrder DEF status, rotate_bootstrap, Dispatch
<1> QED BY <1>1, <1>2, <1>3, <1>4, <1>5, <1>6 DEF dispatch_admin

LEMMA CloseOrder ==
  ASSUME TypeOK, Order, NEW c \in Conns, Close(c)
  PROVE  Order'
<1>1. /\ closed' = [closed EXCEPT ![c] = TRUE] /\ stream' = [stream EXCEPT ![c] = << >>]
      /\ pc' = [pc EXCEPT ![c] = "read"] /\ req' = [req EXCEPT ![c] = Malformed]
      /\ reply' = [reply EXCEPT ![c] = NoReply]
      /\ UNCHANGED <<plane, sent, outbox>>
  BY DEF Close
<1>2. closed'[c] = TRUE /\ pc'[c] = "read"
  BY <1>1 DEF TypeOK
<1>3. \A i \in 1..Len(outbox[c]) : AnswersLine(c, i)'
  BY <1>1 DEF Order, OrderInv, AnswersLine
<1>4. OrderInv(c)'
  BY <1>1, <1>2, <1>3 DEF Order, OrderInv
<1>5. OthersUndisturbed(c)
  BY <1>1 DEF TypeOK, OthersUndisturbed, Undisturbed
<1> QED BY <1>4, <1>5, OneOrderMoved

(* The next line is taken from the stream, or its answer is written.       *)
LEMMA ReadOrder ==
  ASSUME TypeOK, Order, NEW c \in Conns, ReadRequest(c)
  PROVE  Order'
<1>1. /\ ~closed[c] /\ pc[c] = "read" /\ plane[c] # "new"
      /\ read_line_capped(stream[c], hungup[c]) = "line"
      /\ req' = [req EXCEPT ![c] = from_slice(plane[c], Head(stream[c]))]
      /\ stream' = [stream EXCEPT ![c] = Tail(stream[c])]
      /\ pc' = [pc EXCEPT ![c] = "dispatch"]
      /\ UNCHANGED <<plane, closed, sent, outbox, reply>>
  BY DEF ReadRequest, Reading, Open
<1>2. sent[c] \in Seq(Lines) /\ stream[c] \in Seq(Lines) /\ Len(outbox[c]) \in Nat
  BY OutboxType DEF TypeOK
<1>3. stream[c] # << >> /\ ~(Head(stream[c]).got >= MAX_MESSAGE_BYTES)
  BY <1>1 DEF read_line_capped
<1>4. Aligned(sent[c], Len(outbox[c]), stream[c])
  <2>1. Aligned(sent[c], Len(outbox[c]) + Busy(c), stream[c])
    BY <1>1 DEF Order, OrderInv
  <2>2. Busy(c) = 0
    BY <1>1 DEF Busy
  <2>3. Len(outbox[c]) + Busy(c) = Len(outbox[c])
    BY <1>2, <2>2, SMT
  <2> QED BY <2>1, <2>3
<1>5. /\ Aligned(sent[c], Len(outbox[c]) + 1, Tail(stream[c]))
      /\ Head(stream[c]) = sent[c][Len(outbox[c]) + 1]
      /\ Len(outbox[c]) + 1 \in 1..Len(sent[c])
  BY <1>2, <1>3, <1>4, AlignedTail
<1>6. Len(outbox[c]) + 1 <= Len(sent[c]) /\ Head(stream[c]).got < MAX_MESSAGE_BYTES
  <2>1. Head(stream[c]).got \in Nat
    <3>1. Head(stream[c]) \in Lines
      BY <1>2, <1>3, SMT
    <3> QED BY <3>1 DEF Lines
  <2> QED BY <1>2, <1>3, <1>5, <2>1, RequestsAssumption, SMT
<1>7. pc'[c] = "dispatch" /\ req'[c] = from_slice(plane[c], Head(stream[c])) /\ stream'[c] = Tail(stream[c])
  BY <1>1 DEF TypeOK
<1>8. Busy(c)' = 1
  BY <1>7 DEF Busy
<1>9. \A i \in 1..Len(outbox[c]) : AnswersLine(c, i)'
  BY <1>1 DEF Order, OrderInv, AnswersLine
<1>10. OrderInv(c)'
  BY <1>1, <1>5, <1>6, <1>7, <1>8, <1>9 DEF OrderInv
<1>11. OthersUndisturbed(c)
  BY <1>1 DEF TypeOK, OthersUndisturbed, Undisturbed
<1> QED BY <1>10, <1>11, OneOrderMoved

LEMMA WriteOrder ==
  ASSUME TypeOK, Order, NEW c \in Conns, Write(c)
  PROVE  Order'
<1> DEFINE n == Len(outbox[c])
           answer == [to |-> reply[c].to, code |-> reply[c].code]
<1>1. /\ ~closed[c] /\ pc[c] = "write" /\ plane[c] # "new"
      /\ outbox' = [outbox EXCEPT ![c] = Append(outbox[c], answer)]
      /\ pc' = [pc EXCEPT ![c] = "read"] /\ req' = [req EXCEPT ![c] = Malformed]
      /\ reply' = [reply EXCEPT ![c] = NoReply]
      /\ UNCHANGED <<plane, closed, sent, stream>>
  BY DEF Write, Open
<1>2. answer \in [to : Reqs, code : Codes]
  <2>1. reply[c] \in [to : Reqs, code : Codes, data : SUBSET Texts]
    BY DEF TypeOK
  <2> QED BY <2>1
<1>3. /\ n + 1 <= Len(sent[c])
      /\ answer.to = from_slice(plane[c], sent[c][n + 1])
      /\ sent[c][n + 1].got < MAX_MESSAGE_BYTES
      /\ Aligned(sent[c], n + Busy(c), stream[c])
  BY <1>1 DEF Order, OrderInv
<1>4. Busy(c) = 1
  BY <1>1 DEF Busy
<1>5. outbox'[c] = Append(outbox[c], answer) /\ pc'[c] = "read"
  BY <1>1 DEF TypeOK
<1> HIDE DEF answer
<1>6. /\ n \in Nat /\ Len(outbox'[c]) = n + 1
      /\ \A i \in 1..n : outbox'[c][i] = outbox[c][i]
      /\ outbox'[c][n + 1] = answer
  BY <1>2, <1>5, OutboxType, SMT
<1>7. Busy(c)' = 0 /\ Len(outbox'[c]) + Busy(c)' = n + Busy(c)
  <2>1. Busy(c)' = 0
    BY <1>5 DEF Busy
  <2> QED BY <1>4, <1>6, <2>1, SMT
<1>8. ASSUME NEW i \in 1..Len(outbox'[c]) PROVE AnswersLine(c, i)'
  <2>1. CASE i = n + 1
    BY <1>1, <1>3, <1>6, <2>1 DEF AnswersLine
  <2>2. CASE i \in 1..n
    BY <1>1, <1>6, <2>2 DEF Order, OrderInv, AnswersLine
  <2> QED BY <1>6, <2>1, <2>2, SMT
<1>9. OrderInv(c)'
  BY <1>1, <1>3, <1>5, <1>7, <1>8 DEF OrderInv
<1>10. OthersUndisturbed(c)
  BY <1>1 DEF TypeOK, OthersUndisturbed, Undisturbed
<1> QED BY <1>9, <1>10, OneOrderMoved

(* The client connects, sends or goes away.                                *)
LEMMA ClientOrder ==
  ASSUME IInv, Order, NEW c \in Conns, Client(c)
  PROVE  Order'
<1>1. TypeOK /\ TaskInv(c)
  BY DEF IInv, Tasks
<1>2. ASSUME Connect(c) \/ \E m \in Names : ConnectProject(c, m) PROVE Order'
  <2>1. /\ plane[c] = "new" /\ plane' \in {[plane EXCEPT ![c] = "admin"], [plane EXCEPT ![c] = "project"]}
        /\ UNCHANGED <<closed, sent, stream, outbox, pc, req, reply>>
    BY <1>2 DEF Connect, ConnectProject, taskVars
  <2>2. plane'[c] # "new" /\ \A b \in Conns \ {c} : plane'[b] = plane[b]
    BY <1>1, <2>1 DEF TypeOK
  <2>3. pc[c] = "read" /\ outbox[c] = << >>
    BY <1>1, <2>1 DEF TaskInv, Order, OrderInv
  <2>4. 1..Len(outbox[c]) = {}
    BY <2>3, SMT
  <2>5. Busy(c)' = Busy(c)
    BY <2>1 DEF Busy
  <2>6. OrderInv(c)'
    BY <2>1, <2>2, <2>3, <2>4, <2>5 DEF Order, OrderInv
  <2>7. OthersUndisturbed(c)
    BY <2>1, <2>2 DEF OthersUndisturbed, Undisturbed
  <2> QED BY <2>6, <2>7, OneOrderMoved
<1>3. ASSUME NEW m \in Script[c], Send(c, m) PROVE Order'
  <2> DEFINE line == Line(m, m.size, TRUE)
  <2>1. line \in Lines
    BY RequestsAssumption DEF Line, Lines
  <2>2. Transmit(c, line)
    BY <1>3 DEF Send
  <2> HIDE DEF line
  <2> QED BY <1>1, <2>1, <2>2, TransmitOrder
<1>4. ASSUME NEW m \in Script[c], NEW got \in Cuts[c], HangUpWithin(c, m, got) PROVE Order'
  <2> DEFINE line == Line(m, got, FALSE)
  <2>1. line \in Lines
    BY RequestsAssumption DEF Line, Lines
  <2>2. Transmit(c, line)
    BY <1>4 DEF HangUpWithin
  <2> HIDE DEF line
  <2> QED BY <1>1, <2>1, <2>2, TransmitOrder
<1>5. ASSUME HangUp(c) PROVE Order'
  <2>1. UNCHANGED <<plane, closed, sent, stream, outbox, pc, req, reply>>
    BY <1>5 DEF HangUp, taskVars
  <2> QED BY <2>1, UndisturbedOrder DEF Order, Undisturbed
<1> QED BY <1>2, <1>3, <1>4, <1>5 DEF Client

LEMMA OrderStep ==
  ASSUME IInv, Order, [Next]_vars
  PROVE  Order'
<1>1. TypeOK
  BY DEF IInv
<1>2. ASSUME UNCHANGED vars \/ \E d \in Edited, i \in MANIFEST_CANDIDATES : \E f \in Contents[i] : Edit(d, i, f)
      PROVE  Order'
  <2>1. UNCHANGED <<plane, closed, sent, stream, outbox, pc, req, reply>>
    BY <1>2 DEF Edit, vars, wireVars, taskVars
  <2> QED BY <2>1, UndisturbedOrder DEF Order, Undisturbed
<1>3. ASSUME NEW c \in Conns, ReadEof(c) \/ ReadTooLong(c) \/ WriteFails(c) \/ Drained(c)
      PROVE  Order'
  BY <1>1, <1>3, CloseOrder DEF ReadEof, ReadTooLong, WriteFails, Drained
<1>4. ASSUME NEW c \in Conns, protocol_error(c) \/ ping(c) \/ info(c) \/ get(c)
      PROVE  Order'
  BY <1>1, <1>4, RespondOrder DEF protocol_error, ping, info, get, Dispatch
<1> QED
  BY <1>1, <1>2, <1>3, <1>4, AdminOrder, ReadOrder, WriteOrder, ClientOrder DEF Next, Loop

LEMMA OrderInvariant == Spec => []Order
<1>1. Init => Order
  <2> SUFFICES ASSUME Init, NEW c \in Conns PROVE OrderInv(c)
    BY DEF Order
  <2>1. /\ sent[c] = << >> /\ outbox[c] = << >> /\ stream[c] = << >> /\ pc[c] = "read"
    BY DEF Init
  <2>2. Busy(c) = 0
    BY <2>1 DEF Busy
  <2>3. Aligned(sent[c], Len(outbox[c]) + Busy(c), stream[c]) /\ 1..Len(outbox[c]) = {}
    BY <2>1, <2>2, SMT DEF Aligned
  <2> QED BY <2>1, <2>3 DEF OrderInv
<1>2. IInv /\ Order /\ [Next]_vars => Order'
  BY OrderStep
<1> QED BY <1>1, <1>2, Invariant, PTL DEF Spec

(* The i-th answer on a connection is to the i-th line, and no line that   *)
(* does not fit MAX_MESSAGE_BYTES is taken for a request (read_line_capped *)
(* and the request loops), for any number of lines, clients and requests.  *)
THEOREM AnswersInOrder == Spec => []AnsweredInOrder
<1>1. IInv /\ Order => AnsweredInOrder
  BY OrderGives DEF IInv
<1> QED BY <1>1, Invariant, OrderInvariant, PTL
-----------------------------------------------------------------------------
(* The registry as a service. *)

\* What the mapping to RegistryService rests on: there is no answer in a
\* task before it responds, a task of the admin plane has a project only
\* while it reloads it, and a request belongs to the plane it came from.
ServiceInv(c) ==
  /\ pc[c] # "write" => reply[c].data = {}
  /\ plane[c] # "project" /\ pc[c] \in {"read", "dispatch", "write"} => inst[c] = 0
  /\ plane[c] = "project" => pc[c] \in {"read", "dispatch", "write"}
  /\ pc[c] = "dispatch" =>
       req[c].op \in (IF plane[c] = "admin" THEN AdminRequest ELSE ProjectRequest) \cup {"malformed"}

Services == \A c \in Conns : ServiceInv(c)

\* Only the task of c moves.
Mine(c) == \A b \in Conns \ {c} : TaskKept(b) /\ reply'[b] = reply[b]

LEMMA KeptService ==
  ASSUME NEW c, ServiceInv(c), TaskKept(c), reply'[c] = reply[c]
  PROVE  ServiceInv(c)'
BY DEF ServiceInv, TaskKept

LEMMA OneServiceMoved ==
  ASSUME NEW c \in Conns, Services, Mine(c), ServiceInv(c)'
  PROVE  Services'
<1> SUFFICES ASSUME NEW b \in Conns PROVE ServiceInv(b)'
  BY DEF Services
<1>1. CASE b = c
  BY <1>1
<1>2. CASE b # c
  BY <1>2, KeptService DEF Services, Mine
<1> QED BY <1>1, <1>2

Stages == [c \in Conns |-> Stage(c)]

LEMMA OneStageMoved ==
  ASSUME NEW c \in Conns, Mine(c)
  PROVE  Stages' = [Stages EXCEPT ![c] = Stage(c)']
<1>1. ASSUME NEW b \in Conns \ {c} PROVE Stage(b)' = Stage(b)
  BY DEF Mine, TaskKept, Stage
<1> QED BY <1>1 DEF Stages

LEMMA NoStageMoved ==
  ASSUME NEW c \in Conns, Mine(c), Stage(c)' = Stage(c)
  PROVE  Stages' = Stages
<1>1. ASSUME NEW b \in Conns \ {c} PROVE Stage(b)' = Stage(b)
  BY DEF Mine, TaskKept, Stage
<1> QED BY <1>1 DEF Stages

(* A request under way, in the terms of the service.                       *)
LEMMA AskedStage ==
  ASSUME NEW c \in Conns, pc[c] \notin {"read", "write", "remove_socket"}
  PROVE  /\ Stages[c].at = "asked" /\ Stages[c].req = req[c]
         /\ Stages[c].project = IF req[c].op \in {"reload", "get", "ping", "info"} THEN inst[c] ELSE 0
         /\ \A op : Service!Asking(c, op) <=> req[c].op = op
<1>1. Stages[c] = [at |-> "asked", req |-> req[c],
        project |-> IF req[c].op \in {"reload", "get", "ping", "info"} THEN inst[c] ELSE 0]
  BY DEF Stages, Stage
<1>2. /\ Stages[c].at = "asked" /\ Stages[c].req = req[c]
      /\ Stages[c].project = IF req[c].op \in {"reload", "get", "ping", "info"} THEN inst[c] ELSE 0
  BY <1>1, SMT
<1> QED BY <1>2 DEF Service!Asking, Stages

LEMMA AnsweredStage ==
  ASSUME NEW c \in Conns, Mine(c), NEW code, NEW data,
         Stage(c)' = [at |-> "done", code |-> code, data |-> data]
  PROVE  Service!Answer(c, code, data)
BY OneStageMoved DEF Service!Answer, Service!Done, Stages

(* The handler returns.                                                    *)
LEMMA RespondStage ==
  ASSUME TypeOK, NEW c \in Conns, NEW code, NEW data, Respond(c, code, data),
         UNCHANGED <<req, plane, closed>>
  PROVE  /\ Mine(c) /\ ServiceInv(c)'
         /\ Stage(c)' = [at |-> "done", code |-> code, data |-> data]
         /\ Service!Answer(c, code, data)
<1>1. /\ pc' = [pc EXCEPT ![c] = "write"]
      /\ path' = [path EXCEPT ![c] = None]
      /\ loaded' = [loaded EXCEPT ![c] = None]
      /\ inst' = IF plane[c] = "project" THEN inst ELSE [inst EXCEPT ![c] = 0]
      /\ reply' = [reply EXCEPT ![c] = [to |-> req[c], code |-> code, data |-> data]]
  BY DEF Respond
<1>2. Mine(c)
  BY <1>1 DEF TypeOK, Mine, TaskKept
<1>3. pc'[c] = "write" /\ reply'[c] = [to |-> req[c], code |-> code, data |-> data]
      /\ (plane[c] # "project" => inst'[c] = 0)
  BY <1>1 DEF TypeOK
<1>4. ServiceInv(c)'
  BY <1>3 DEF ServiceInv
<1>5. reply'[c].code = code /\ reply'[c].data = data
  BY <1>3, SMT
<1>6. Stage(c)' = [at |-> "done", code |-> code, data |-> data]
  BY <1>3, <1>5 DEF Stage
<1> QED BY <1>2, <1>4, <1>6, AnsweredStage

(* The task ends.                                                          *)
LEMMA CloseStage ==
  ASSUME TypeOK, NEW c \in Conns, Close(c)
  PROVE  Mine(c) /\ ServiceInv(c)' /\ Stage(c)' = [at |-> "quiet"]
<1>1. /\ closed' = [closed EXCEPT ![c] = TRUE] /\ plane' = plane
      /\ pc' = [pc EXCEPT ![c] = "read"] /\ req' = [req EXCEPT ![c] = Malformed]
      /\ inst' = [inst EXCEPT ![c] = 0] /\ path' = [path EXCEPT ![c] = None]
      /\ loaded' = [loaded EXCEPT ![c] = None] /\ reply' = [reply EXCEPT ![c] = NoReply]
  BY DEF Close
<1>2. Mine(c)
  BY <1>1 DEF TypeOK, Mine, TaskKept
<1>3. pc'[c] = "read" /\ inst'[c] = 0 /\ reply'[c].data = {}
  BY <1>1 DEF TypeOK, NoReply
<1> QED BY <1>2, <1>3 DEF ServiceInv, Stage

\* The manifests in force, in the terms of the service.
InForce == [i \in DOMAIN projects |-> projects[i].manifest]

LEMMA InForceType ==
  ASSUME TypeOK
  PROVE  /\ InForce \in Seq(Raws) /\ Len(InForce) = Len(projects) /\ Len(projects) \in Nat
         /\ DOMAIN projects = 1..Len(projects)
<1> DEFINE P == [dir : Dirs, manifest : Raws, bounds : Bounds]
<1>1. projects \in Seq(P)
  BY DEF TypeOK
<1>2. \A i \in DOMAIN projects : projects[i].manifest \in Raws
  BY ProjectType
<1> HIDE DEF P
<1>3. Len(projects) \in Nat /\ DOMAIN projects = 1..Len(projects)
  BY <1>1, LenProperties
<1>4. InForce \in [1..Len(projects) -> Raws]
  BY <1>2, <1>3 DEF InForce
<1>5. InForce \in Seq(Raws)
  BY <1>3, <1>4, SMT
<1>6. Len(InForce) = Len(projects)
  <2>1. DOMAIN InForce = 1..Len(projects) /\ DOMAIN InForce = 1..Len(InForce) /\ Len(InForce) \in Nat
    BY <1>4, <1>5, LenProperties
  <2> QED BY <1>3, <2>1, SMT
<1> QED BY <1>3, <1>5, <1>6

\* A step of the task of c is one of the service, or none.
Simulated(c) == Mine(c) /\ ServiceInv(c)' /\ [Service!Next]_(Service!serviceVars)

LEMMA ServiceStutters ==
  ASSUME Stages' = Stages, registry' = registry, InForce' = InForce
  PROVE  [Service!Next]_(Service!serviceVars)
BY DEF Service!serviceVars, Stages, InForce

LEMMA Unmoved ==
  ASSUME NEW c \in Conns, Mine(c), ServiceInv(c)', Stage(c)' = Stage(c),
         registry' = registry, InForce' = InForce
  PROVE  Simulated(c)
BY NoStageMoved, ServiceStutters DEF Simulated

(* A request line arrives.                                                 *)
LEMMA ReadService ==
  ASSUME IInv, NEW c \in Conns, ServiceInv(c), ReadRequest(c)
  PROVE  Simulated(c)
<1> DEFINE r == from_slice(plane[c], Head(stream[c]))
<1> DEFINE i == IF r.op \in {"reload", "get", "ping", "info"} THEN inst[c] ELSE 0
<1>1. TypeOK /\ TaskInv(c)
  BY DEF IInv, Tasks
<1>2. /\ plane[c] # "new" /\ ~closed[c] /\ pc[c] = "read"
      /\ read_line_capped(stream[c], hungup[c]) = "line"
      /\ req' = [req EXCEPT ![c] = r] /\ pc' = [pc EXCEPT ![c] = "dispatch"]
      /\ UNCHANGED <<registry, projects, plane, closed, inst, path, loaded, reply>>
  BY DEF ReadRequest, Reading, Open, daemonVars
<1>3. r \in Reqs
  <2>1. stream[c] \in Seq(Lines) /\ stream[c] # << >>
    BY <1>1, <1>2 DEF TypeOK, read_line_capped
  <2>2. Head(stream[c]) \in Lines
    BY <2>1, SMT
  <2> QED BY <2>2 DEF from_slice, Lines, Reqs
<1>4. r.op \in (IF plane[c] = "admin" THEN AdminRequest ELSE ProjectRequest) \cup {"malformed"}
  BY DEF from_slice, Malformed
<1>5. plane[c] \in {"admin", "project"}
  BY <1>1, <1>2 DEF TypeOK
<1>6. i \in 0..Len(InForce) /\ (r.op \in {"get", "ping", "info"} <=> i # 0)
  <2>1. CASE plane[c] = "admin"
    <3>1. inst[c] = 0 /\ r.op \notin {"get", "ping", "info"}
      BY <1>2, <1>4, <2>1 DEF ServiceInv, AdminRequest
    <3>2. 0 \in 0..Len(InForce)
      BY <1>1, InForceType, SMT
    <3> QED BY <3>1, <3>2
  <2>2. CASE plane[c] = "project"
    <3>1. inst[c] \in 1..Len(InForce)
      BY <1>1, <1>2, <2>2, InForceType DEF TaskInv
    <3>2. inst[c] # 0 /\ inst[c] \in 0..Len(InForce) /\ 0 \in 0..Len(InForce)
      BY <1>1, <3>1, InForceType, SMT
    <3>3. r.op # "reload"
      BY <1>4, <2>2 DEF ProjectRequest
    <3> QED BY <3>2, <3>3
  <2> QED BY <1>5, <2>1, <2>2
<1> HIDE DEF r
<1>7. Mine(c)
  BY <1>1, <1>2 DEF TypeOK, Mine, TaskKept
<1>8. pc'[c] = "dispatch" /\ req'[c] = r
  BY <1>1, <1>2 DEF TypeOK
<1>9. ServiceInv(c)'
  BY <1>2, <1>4, <1>8 DEF ServiceInv
<1>10. Stages[c] = [at |-> "quiet"]
  BY <1>2 DEF Stages, Stage
<1>11. Stage(c)' = [at |-> "asked", req |-> r, project |-> i]
  BY <1>2, <1>8 DEF Stage
<1> HIDE DEF i
<1>12. Stages' = [Stages EXCEPT ![c] = [at |-> "asked", req |-> r, project |-> i]]
  BY <1>7, <1>11, OneStageMoved
<1>13. registry' = registry /\ InForce' = InForce
  BY <1>2 DEF InForce
<1>14. Service!Ask(c)
  BY <1>3, <1>6, <1>10, <1>12, <1>13
     DEF Service!Ask, Service!Quiet, Service!Asked, Service!OnProject, Stages, InForce
<1> QED BY <1>7, <1>9, <1>14 DEF Simulated, Service!Next

(* The answer is written, or the connection ends.                          *)
LEMMA LeaveService ==
  ASSUME IInv, NEW c \in Conns, ServiceInv(c),
         ReadEof(c) \/ ReadTooLong(c) \/ Write(c) \/ WriteFails(c) \/ Drained(c)
  PROVE  Simulated(c)
<1>1. TypeOK /\ TaskInv(c)
  BY DEF IInv, Tasks
<1>2. ASSUME pc[c] \in {"read", "dispatch", "write"},
             pc[c] = "dispatch" => req[c].op \in ProjectRequest \cup {"malformed"},
             Mine(c), ServiceInv(c)', Stage(c)' = [at |-> "quiet"],
             registry' = registry, InForce' = InForce
      PROVE  Simulated(c)
  <2>1. CASE pc[c] = "read"
    <3>1. Stage(c) = [at |-> "quiet"]
      BY <2>1 DEF Stage
    <3> QED BY <1>2, <3>1, Unmoved
  <2>2. CASE pc[c] # "read"
    <3>1. Stages' = [Stages EXCEPT ![c] = [at |-> "quiet"]]
      BY <1>2, OneStageMoved
    <3>2. Stages[c].at = "done" \/ \E op \in {"get", "ping", "info", "malformed"} : Service!Asking(c, op)
      <4>1. CASE pc[c] = "write"
        <5>1. Stages[c] = [at |-> "done", code |-> reply[c].code, data |-> reply[c].data]
          BY <4>1 DEF Stages, Stage
        <5> QED BY <5>1, SMT
      <4>2. CASE pc[c] = "dispatch"
        BY <1>2, <4>2, AskedStage DEF ProjectRequest
      <4> QED BY <1>2, <2>2, <4>1, <4>2
    <3>3. Service!Leave(c)
      BY <1>2, <3>1, <3>2 DEF Service!Leave, Service!Quiet, Service!OnProject, Stages, InForce
    <3> QED BY <1>2, <3>3 DEF Simulated, Service!Next
  <2> QED BY <2>1, <2>2
<1>3. ASSUME Close(c), pc[c] \in {"read", "write"} \/ plane[c] = "project" PROVE Simulated(c)
  <2>1. registry' = registry /\ InForce' = InForce
    BY <1>3 DEF Close, daemonVars, InForce
  <2>2. pc[c] \in {"read", "dispatch", "write"}
    BY <1>3 DEF ServiceInv
  <2>3. pc[c] = "dispatch" => req[c].op \in ProjectRequest \cup {"malformed"}
    BY <1>3 DEF ServiceInv
  <2> QED BY <1>1, <1>2, <1>3, <2>1, <2>2, <2>3, CloseStage
<1>4. ASSUME Write(c) PROVE Simulated(c)
  <2>1. /\ pc[c] = "write" /\ pc' = [pc EXCEPT ![c] = "read"]
        /\ req' = [req EXCEPT ![c] = Malformed] /\ reply' = [reply EXCEPT ![c] = NoReply]
        /\ UNCHANGED <<registry, projects, plane, closed, inst, path, loaded>>
    BY <1>4 DEF Write, daemonVars
  <2>2. Mine(c)
    BY <1>1, <2>1 DEF TypeOK, Mine, TaskKept
  <2>3. pc'[c] = "read" /\ reply'[c].data = {}
    BY <1>1, <2>1 DEF TypeOK, NoReply
  <2>4. ServiceInv(c)' /\ Stage(c)' = [at |-> "quiet"]
    BY <2>1, <2>3 DEF ServiceInv, Stage
  <2>5. registry' = registry /\ InForce' = InForce
    BY <2>1 DEF InForce
  <2> QED BY <1>2, <2>1, <2>2, <2>4, <2>5
<1> QED BY <1>3, <1>4 DEF ReadEof, ReadTooLong, WriteFails, Drained, Reading

(* The requests that change nothing in the registry.                       *)
LEMMA AnswerService ==
  ASSUME IInv, NEW c \in Conns, ServiceInv(c),
         \/ protocol_error(c) \/ ping(c) \/ info(c) \/ get(c) \/ status(c) \/ rotate_bootstrap(c)
  PROVE  Simulated(c)
<1>1. TypeOK /\ TaskInv(c)
  BY DEF IInv, Tasks
<1>2. /\ pc[c] = "dispatch" /\ UNCHANGED <<registry, projects, req, plane, closed>>
      /\ \E code, data : Respond(c, code, data)
  BY DEF protocol_error, ping, info, get, status, rotate_bootstrap, Dispatch, daemonVars, wireVars
<1>3. Mine(c) /\ ServiceInv(c)'
  BY <1>1, <1>2, RespondStage
<1>4. \A code, data : Respond(c, code, data) => Service!Answer(c, code, data)
  BY <1>1, <1>2, RespondStage
<1>5. registry' = registry /\ InForce' = InForce
  BY <1>2 DEF InForce
<1>6. \A op : Service!Asking(c, op) <=> req[c].op = op
  BY <1>2, AskedStage
<1>7. ASSUME protocol_error(c) PROVE Service!Reject(c)
  BY <1>4, <1>5, <1>6, <1>7 DEF protocol_error, Dispatch, Service!Reject, InForce
<1>8. ASSUME ping(c) PROVE Service!Ping(c)
  BY <1>4, <1>5, <1>6, <1>8 DEF ping, Dispatch, Service!Ping, InForce
<1>9. ASSUME status(c) PROVE Service!Status(c)
  BY <1>4, <1>5, <1>6, <1>9 DEF status, Dispatch, Service!Status, InForce
<1>10. ASSUME rotate_bootstrap(c) PROVE Service!Rotate(c)
  BY <1>4, <1>5, <1>6, <1>10 DEF rotate_bootstrap, Dispatch, Service!Rotate, InForce
<1>11. ASSUME info(c) \/ get(c)
       PROVE  Allowlist(projects[inst[c]].manifest) = Service!Allowlist(InForce[Stages[c].project])
  <2>1. req[c].op \in {"info", "get"}
    BY <1>11 DEF info, get, Dispatch
  <2>2. inst[c] \in DOMAIN projects
    BY <1>1, <1>2, <2>1 DEF TaskInv, ProjectRequest
  <2>3. Stages[c].project = inst[c]
    BY <1>2, <2>1, AskedStage
  <2>4. InForce[Stages[c].project] = projects[inst[c]].manifest
    BY <2>2, <2>3 DEF InForce
  <2> QED BY <2>4 DEF Allowlist, Service!Allowlist
<1>12. ASSUME info(c) PROVE Service!Info(c)
  BY <1>4, <1>5, <1>6, <1>11, <1>12 DEF info, Dispatch, Service!Info, InForce, Stages
<1>13. ASSUME get(c) PROVE Service!Get(c)
  <2>1. Stages[c].req = req[c]
    BY <1>2, AskedStage
  <2>2. PICK code \in {"ok", "denied", "not_found", "backend_error"} :
          /\ Respond(c, code, {})
          /\ code = "denied" <=> req[c].name \notin Allowlist(projects[inst[c]].manifest)
    BY <1>13 DEF get
  <2>3. code = "denied" <=> Stages[c].req.name \notin Service!Allowlist(InForce[Stages[c].project])
    BY <1>11, <1>13, <2>1, <2>2
  <2> QED BY <1>4, <1>5, <1>6, <1>13, <2>2, <2>3 DEF get, Dispatch, Service!Get, InForce, Stages
<1> QED BY <1>3, <1>7, <1>8, <1>9, <1>10, <1>12, <1>13 DEF Simulated, Service!Next

(* A refused request.                                                      *)
LEMMA RefuseService ==
  ASSUME TypeOK, NEW c \in Conns, NEW e, Fail(c, e), pc[c] \notin {"read", "write", "remove_socket"},
         req[c].op \in {"register", "unregister", "reload"},
         e = "ProjectExists" => req[c].op = "register" /\ registry[req[c].name] # 0,
         e = "ProjectUnknown" => req[c].op # "register" /\ registry[req[c].name] = 0,
         UNCHANGED <<registry, projects, plane, closed>>
  PROVE  Simulated(c)
<1> DEFINE code == admin_error_for(e)
<1>1. Respond(c, code, {}) /\ UNCHANGED <<req, plane, closed>>
  BY DEF Fail
<1>2. Mine(c) /\ ServiceInv(c)' /\ Service!Answer(c, code, {})
  BY <1>1, RespondStage
<1>3. Stages[c].req = req[c] /\ \A op : Service!Asking(c, op) <=> req[c].op = op
  BY AskedStage
<1>4. /\ code \in {"project_exists", "project_unknown", "manifest_not_found", "manifest_invalid",
                   "internal_error"}
      /\ code = "project_exists" => e = "ProjectExists"
      /\ code = "project_unknown" => e = "ProjectUnknown"
  BY DEF admin_error_for
<1> HIDE DEF code
<1>5. /\ code = "project_exists" => Service!Asking(c, "register") /\ registry[Stages[c].req.name] # 0
      /\ code = "project_unknown" => ~Service!Asking(c, "register") /\ registry[Stages[c].req.name] = 0
  BY <1>3, <1>4
<1>6. registry' = registry /\ InForce' = InForce
  BY DEF InForce
<1>7. Service!Refuse(c)
  BY <1>2, <1>3, <1>4, <1>5, <1>6 DEF Service!Refuse, Stages, InForce
<1> QED BY <1>2, <1>7 DEF Simulated, Service!Next

(* Manifest::load, and the refusals of the registry.                       *)
LEMMA LoadService ==
  ASSUME IInv, NEW c \in Conns, ServiceInv(c),
         Discover(c) \/ ReadFile(c) \/ Exists(c) \/ BindFails(c) \/ Unknown(c)
  PROVE  Simulated(c)
<1>1. TypeOK /\ TaskInv(c)
  BY DEF IInv, Tasks
<1>2. /\ pc[c] \in {"dispatch", "discover", "read_file", "insert"}
      /\ req[c].op \in {"register", "unregister", "reload"}
      /\ UNCHANGED <<registry, projects, plane, closed>>
  BY <1>1 DEF TaskInv, Discover, ReadFile, Exists, BindFails, Unknown, Dispatch, daemonVars, wireVars
<1>3. plane[c] # "project"
  BY <1>2 DEF ServiceInv, ProjectRequest
<1>4. ASSUME NEW e, Fail(c, e), e \notin {"ProjectExists", "ProjectUnknown"} PROVE Simulated(c)
  BY <1>1, <1>2, <1>4, RefuseService
<1>5. ASSUME NEW s \in {"read_file", "insert", "set_config"}, pc' = [pc EXCEPT ![c] = s],
             \A b \in Conns \ {c} : path'[b] = path[b] /\ loaded'[b] = loaded[b],
             UNCHANGED <<req, inst, reply>>
      PROVE  Simulated(c)
  <2>1. Mine(c) /\ pc'[c] = s
    BY <1>1, <1>2, <1>5 DEF TypeOK, Mine, TaskKept
  <2>2. ServiceInv(c)'
    BY <1>2, <1>3, <1>5, <2>1 DEF ServiceInv
  <2>3. Stage(c)' = Stage(c)
    BY <1>2, <1>5, <2>1 DEF Stage
  <2>4. InForce' = InForce
    BY <1>2 DEF InForce
  <2> QED BY <1>2, <2>1, <2>2, <2>3, <2>4, Unmoved
<1>6. \A error : load_manifest(error) \notin {"ProjectExists", "ProjectUnknown"}
  BY DEF load_manifest
<1>7. ASSUME Discover(c) PROVE Simulated(c)
  <2>1. CASE discover(disk[LoadDir(c)]) = None
    BY <1>4, <1>6, <1>7, <2>1 DEF Discover
  <2>2. CASE discover(disk[LoadDir(c)]) # None
    BY <1>1, <1>5, <1>7, <2>2 DEF Discover, TypeOK
  <2> QED BY <2>1, <2>2
<1>8. ASSUME ReadFile(c) PROVE Simulated(c)
  BY <1>1, <1>4, <1>5, <1>6, <1>8 DEF ReadFile, TypeOK
<1>9. ASSUME Exists(c) PROVE Simulated(c)
  <2>1. req[c].op = "register" /\ registry[req[c].name] # 0 /\ Fail(c, "ProjectExists")
    BY <1>1, <1>9 DEF Exists, TaskInv
  <2> QED BY <1>1, <1>2, <2>1, RefuseService
<1>10. ASSUME Unknown(c) PROVE Simulated(c)
  <2>1. req[c].op # "register" /\ registry[req[c].name] = 0 /\ Fail(c, "ProjectUnknown")
    BY <1>10 DEF Unknown, Dispatch
  <2> QED BY <1>1, <1>2, <2>1, RefuseService
<1>11. ASSUME BindFails(c) PROVE Simulated(c)
  BY <1>4, <1>11 DEF BindFails
<1> QED BY <1>7, <1>8, <1>9, <1>10, <1>11

(* What a task has loaded is one of the manifests the service accepts.     *)
LEMMA AcceptedIsValid ==
  ASSUME NEW c \in Conns, NEW dir, Accepted(c, dir), req[c].name \in Names
  PROVE  loaded[c] \in [n \in Names |-> {m \in Raws : m.name = n /\ Rules(m, n)}][req[c].name]
<1>1. loaded[c] \in Raws /\ loaded[c].name = req[c].name /\ Rules(loaded[c], req[c].name)
  BY DEF Accepted, Rules
<1> QED BY <1>1

(* register takes effect where it enters the registry.                     *)
LEMMA InsertService ==
  ASSUME IInv, NEW c \in Conns, ServiceInv(c), Insert(c)
  PROVE  Simulated(c)
<1> DEFINE p == [dir |-> req[c].dir, manifest |-> loaded[c], bounds |-> resolve_cache_bounds(loaded[c])]
<1> DEFINE P == [dir : Dirs, manifest : Raws, bounds : Bounds]
<1>1. TypeOK /\ TaskInv(c)
  BY DEF IInv, Tasks
<1>2. /\ pc[c] = "insert" /\ req[c].op = "register" /\ Accepted(c, req[c].dir) /\ req[c] \in Reqs
      /\ registry[req[c].name] = 0
  BY <1>1 DEF Insert, TaskInv, TypeOK
<1>3. /\ projects' = Append(projects, p)
      /\ registry' = [registry EXCEPT ![req[c].name] = Len(projects) + 1]
      /\ Respond(c, "ok", {}) /\ UNCHANGED <<req, plane, closed>>
  BY DEF Insert, wireVars
<1>4. p \in P /\ p.manifest = loaded[c] /\ loaded[c] \in Raws /\ req[c].name \in Names
  BY <1>2, RequestFields, BoundsInRange DEF Accepted
<1>5. projects \in Seq(P)
  BY <1>1 DEF TypeOK
<1>6. loaded[c] \in [n \in Names |-> {m \in Raws : m.name = n /\ Rules(m, n)}][req[c].name]
  BY <1>2, <1>4, AcceptedIsValid
<1> HIDE DEF p, P
<1>7. /\ Len(projects) \in Nat /\ DOMAIN projects = 1..Len(projects)
      /\ DOMAIN projects' = 1..(Len(projects) + 1)
      /\ \A i \in 1..Len(projects) : projects'[i] = projects[i]
      /\ projects'[Len(projects) + 1] = p
  BY <1>3, <1>4, <1>5, SMT
<1>8. InForce \in Seq(Raws) /\ Len(InForce) = Len(projects)
  BY <1>1, InForceType
<1>9. InForce' = Append(InForce, loaded[c])
  <2> DEFINE M == Append(InForce, loaded[c])
  <2>1. /\ M \in Seq(Raws) /\ Len(M) = Len(projects) + 1
        /\ \A i \in 1..Len(projects) : M[i] = InForce[i]
        /\ M[Len(projects) + 1] = loaded[c]
    BY <1>4, <1>8, SMT
  <2> HIDE DEF M
  <2>2. M = [i \in 1..(Len(projects) + 1) |-> M[i]]
    BY <2>1, SMT
  <2>3. ASSUME NEW i \in 1..(Len(projects) + 1) PROVE M[i] = projects'[i].manifest
    <3>1. i \in 1..Len(projects) \/ i = Len(projects) + 1
      BY <1>7, SMT
    <3>2. CASE i \in 1..Len(projects)
      <4>1. InForce[i] = projects[i].manifest
        BY <1>7, <3>2 DEF InForce
      <4> QED BY <1>7, <2>1, <3>2, <4>1
    <3>3. CASE i = Len(projects) + 1
      BY <1>4, <1>7, <2>1, <3>3
    <3> QED BY <3>1, <3>2, <3>3
  <2>4. InForce' = [i \in 1..(Len(projects) + 1) |-> projects'[i].manifest]
    BY <1>7 DEF InForce
  <2>5. M = InForce'
    BY <2>2, <2>3, <2>4
  <2> QED BY <2>5 DEF M
<1>10. Mine(c) /\ ServiceInv(c)' /\ Service!Answer(c, "ok", {})
  BY <1>1, <1>3, RespondStage
<1>11. Stages[c].req = req[c] /\ Service!Asking(c, "register")
  BY <1>2, AskedStage
<1>12. Service!Register(c)
  BY <1>2, <1>3, <1>6, <1>8, <1>9, <1>10, <1>11 DEF Service!Register, Stages, InForce
<1> QED BY <1>10, <1>12 DEF Simulated, Service!Next

(* unregister takes effect where it leaves the registry, before the drain, *)
(* and its answer is settled there.                                        *)
LEMMA UnregisterService ==
  ASSUME IInv, NEW c \in Conns, ServiceInv(c), Unregister(c) \/ RemoveSocket(c)
  PROVE  Simulated(c)
<1>1. TypeOK /\ TaskInv(c)
  BY DEF IInv, Tasks
<1>2. ASSUME Unregister(c) PROVE Simulated(c)
  <2>1. /\ pc[c] = "dispatch" /\ req[c].op = "unregister" /\ registry[req[c].name] # 0
        /\ registry' = [registry EXCEPT ![req[c].name] = 0]
        /\ pc' = [pc EXCEPT ![c] = "remove_socket"]
        /\ UNCHANGED <<projects, plane, closed, req, inst, path, loaded, reply>>
    BY <1>2 DEF Unregister, Dispatch, wireVars
  <2>2. Mine(c) /\ pc'[c] = "remove_socket"
    BY <1>1, <2>1 DEF TypeOK, Mine, TaskKept
  <2>3. plane[c] # "project" /\ reply[c].data = {}
    BY <2>1 DEF ServiceInv, ProjectRequest
  <2>4. ServiceInv(c)'
    BY <2>1, <2>2, <2>3 DEF ServiceInv
  <2>5. Stage(c)' = [at |-> "done", code |-> "ok", data |-> {}]
    BY <2>1, <2>2, <2>3 DEF Stage
  <2>6. Service!Answer(c, "ok", {})
    BY <2>2, <2>5, AnsweredStage
  <2>7. Stages[c].req = req[c] /\ Service!Asking(c, "unregister")
    BY <2>1, AskedStage
  <2>8. InForce' = InForce
    BY <2>1 DEF InForce
  <2>9. Service!Unregister(c)
    BY <2>1, <2>6, <2>7, <2>8 DEF Service!Unregister, Stages, InForce
  <2> QED BY <2>2, <2>4, <2>9 DEF Simulated, Service!Next
<1>3. ASSUME RemoveSocket(c) PROVE Simulated(c)
  <2>1. /\ pc[c] = "remove_socket" /\ Respond(c, "ok", {})
        /\ UNCHANGED <<registry, projects, req, plane, closed>>
    BY <1>3 DEF RemoveSocket, wireVars
  <2>2. Mine(c) /\ ServiceInv(c)' /\ Stage(c)' = [at |-> "done", code |-> "ok", data |-> {}]
    BY <1>1, <2>1, RespondStage
  <2>3. Stage(c) = [at |-> "done", code |-> "ok", data |-> {}]
    BY <2>1 DEF Stage, ServiceInv
  <2>4. registry' = registry /\ InForce' = InForce
    BY <2>1 DEF InForce
  <2> QED BY <2>2, <2>3, <2>4, Unmoved
<1> QED BY <1>2, <1>3

(* reload is bound to a project where it looks it up, and takes effect     *)
(* where it stores the manifest.                                           *)
LEMMA ReloadService ==
  ASSUME IInv, NEW c \in Conns, ServiceInv(c), Lookup(c) \/ SetConfig(c) \/ StoreManifest(c)
  PROVE  Simulated(c)
<1>1. TypeOK /\ TaskInv(c)
  BY DEF IInv, Tasks
<1>2. /\ pc[c] \in {"dispatch", "set_config", "store"} /\ req[c].op = "reload" /\ UNCHANGED <<plane, closed>>
      /\ registry' = registry
  BY <1>1 DEF TaskInv, Lookup, Dispatch, SetConfig, StoreManifest, wireVars, daemonVars
<1>3. plane[c] # "project"
  BY <1>2 DEF ServiceInv, ProjectRequest
<1>4. /\ Stages[c].req = req[c] /\ Stages[c].project = inst[c] /\ Service!Asking(c, "reload")
  BY <1>2, AskedStage
<1>5. ASSUME Lookup(c) PROVE Simulated(c)
  <2>1. /\ pc[c] = "dispatch" /\ registry[req[c].name] # 0
        /\ inst' = [inst EXCEPT ![c] = registry[req[c].name]]
        /\ pc' = [pc EXCEPT ![c] = "discover"] /\ UNCHANGED <<projects, req, path, loaded, reply>>
    BY <1>5 DEF Lookup, Dispatch, daemonVars
  <2>2. Mine(c) /\ pc'[c] = "discover" /\ inst'[c] = registry[req[c].name]
    BY <1>1, <1>2, <2>1 DEF TypeOK, Mine, TaskKept
  <2>3. ServiceInv(c)'
    BY <1>2, <1>3, <2>1, <2>2 DEF ServiceInv
  <2>4. Stage(c)' = [at |-> "asked", req |-> req[c], project |-> registry[req[c].name]]
    BY <1>2, <2>1, <2>2 DEF Stage
  <2>5. Stages' = [Stages EXCEPT ![c] = [at |-> "asked", req |-> req[c], project |-> registry[req[c].name]]]
    BY <2>2, <2>4, OneStageMoved
  <2>6. Stages[c].project = 0
    BY <1>3, <1>4, <2>1 DEF ServiceInv
  <2>7. InForce' = InForce
    BY <2>1 DEF InForce
  <2>8. Service!Bind(c)
    BY <1>2, <1>4, <2>1, <2>5, <2>6, <2>7 DEF Service!Bind, Service!Asked, Stages, InForce
  <2> QED BY <2>2, <2>3, <2>8 DEF Simulated, Service!Next
<1>6. ASSUME SetConfig(c) \/ StoreManifest(c)
      PROVE  /\ inst[c] \in DOMAIN projects /\ Accepted(c, projects[inst[c]].dir)
             /\ projects[inst[c]] \in [dir : Dirs, manifest : Raws, bounds : Bounds]
  BY <1>1, <1>6, ProjectType DEF TaskInv, Bound, SetConfig, StoreManifest
<1>7. ASSUME SetConfig(c) PROVE Simulated(c)
  <2>1. /\ pc[c] = "set_config"
        /\ projects' = [projects EXCEPT ![inst[c]].bounds = resolve_cache_bounds(loaded[c])]
        /\ pc' = [pc EXCEPT ![c] = "store"] /\ UNCHANGED <<req, inst, path, loaded, reply>>
    BY <1>7 DEF SetConfig
  <2>2. Mine(c) /\ pc'[c] = "store"
    BY <1>1, <1>2, <2>1 DEF TypeOK, Mine, TaskKept
  <2>3. ServiceInv(c)'
    BY <1>2, <1>3, <2>1, <2>2 DEF ServiceInv
  <2>4. Stage(c)' = Stage(c)
    BY <2>1, <2>2 DEF Stage
  <2>5. DOMAIN projects' = DOMAIN projects /\ \A i \in DOMAIN projects : projects'[i].manifest = projects[i].manifest
    BY <1>6, <1>7, <2>1
  <2>6. InForce' = InForce
    BY <2>5 DEF InForce
  <2> QED BY <1>2, <2>2, <2>3, <2>4, <2>6, Unmoved
<1>8. ASSUME StoreManifest(c) PROVE Simulated(c)
  <2>1. /\ pc[c] = "store" /\ projects' = [projects EXCEPT ![inst[c]].manifest = loaded[c]]
        /\ Respond(c, "ok", Allowlist(loaded[c])) /\ UNCHANGED req
    BY <1>8 DEF StoreManifest
  <2>2. Mine(c) /\ ServiceInv(c)' /\ Service!Answer(c, "ok", Allowlist(loaded[c]))
    BY <1>1, <1>2, <2>1, RespondStage
  <2>3. DOMAIN projects' = DOMAIN projects
        /\ \A i \in DOMAIN projects : projects'[i].manifest = IF i = inst[c] THEN loaded[c] ELSE projects[i].manifest
    BY <1>6, <1>8, <2>1
  <2>4. InForce' = [InForce EXCEPT ![inst[c]] = loaded[c]]
    BY <2>3 DEF InForce
  <2>5. req[c].name \in Names
    <3>1. req[c] \in Reqs
      BY <1>1 DEF TypeOK
    <3> QED BY <1>2, <3>1, RequestFields
  <2>6. loaded[c] \in [n \in Names |-> {m \in Raws : m.name = n /\ Rules(m, n)}][req[c].name]
    BY <1>6, <1>8, <2>5, AcceptedIsValid
  <2>7. inst[c] # 0
    <3>1. inst[c] \in 1..Len(projects)
      BY <1>1, <1>6, <1>8, InForceType
    <3> QED BY <3>1, SMT
  <2>8. Allowlist(loaded[c]) = Service!Allowlist(loaded[c])
    BY DEF Allowlist, Service!Allowlist
  <2>9. Service!Reload(c)
    BY <1>2, <1>4, <2>2, <2>4, <2>6, <2>7, <2>8 DEF Service!Reload, Stages, InForce
  <2> QED BY <2>2, <2>9 DEF Simulated, Service!Next
<1> QED BY <1>5, <1>7, <1>8

(* Of clients the service sees only their requests.                        *)
LEMMA ClientService ==
  ASSUME IInv, NEW c \in Conns, ServiceInv(c), Client(c)
  PROVE  Simulated(c)
<1>1. TypeOK /\ TaskInv(c)
  BY DEF IInv, Tasks
<1>2. /\ UNCHANGED <<registry, projects, closed, pc, req, path, loaded, reply>>
      /\ \/ UNCHANGED <<plane, inst>>
         \/ plane[c] = "new" /\ plane' = [plane EXCEPT ![c] = "admin"] /\ inst' = inst
         \/ /\ plane[c] = "new" /\ plane' = [plane EXCEPT ![c] = "project"]
            /\ \E i : inst' = [inst EXCEPT ![c] = i]
  BY DEF Client, Connect, ConnectProject, Send, HangUpWithin, HangUp, Transmit, daemonVars, taskVars
<1>3. Mine(c)
  BY <1>1, <1>2 DEF TypeOK, Mine, TaskKept
<1>4. registry' = registry /\ InForce' = InForce
  BY <1>2 DEF InForce
<1>5. CASE UNCHANGED <<plane, inst>>
  <2>1. ServiceInv(c)' /\ Stage(c)' = Stage(c)
    BY <1>2, <1>5 DEF ServiceInv, Stage
  <2> QED BY <1>3, <1>4, <2>1, Unmoved
<1>6. CASE plane[c] = "new"
  <2>1. pc[c] = "read" /\ pc'[c] = "read"
    BY <1>1, <1>2, <1>6 DEF TaskInv
  <2>2. plane'[c] # "project" => inst'[c] = inst[c]
    BY <1>1, <1>2, <1>6 DEF TypeOK
  <2>3. ServiceInv(c)' /\ Stage(c)' = Stage(c)
    BY <1>2, <1>6, <2>1, <2>2 DEF ServiceInv, Stage
  <2> QED BY <1>3, <1>4, <2>3, Unmoved
<1> QED BY <1>2, <1>5, <1>6

LEMMA ServiceStep ==
  ASSUME IInv, Services, [Next]_vars
  PROVE  Services' /\ [Service!Next]_(Service!serviceVars)
<1>1. ASSUME UNCHANGED vars \/ \E d \in Edited, i \in MANIFEST_CANDIDATES : \E f \in Contents[i] : Edit(d, i, f)
      PROVE  Services' /\ [Service!Next]_(Service!serviceVars)
  <2>1. UNCHANGED <<registry, projects, plane, closed, pc, req, inst, path, loaded, reply>>
    BY <1>1 DEF Edit, vars, daemonVars, wireVars, taskVars
  <2>2. Services'
    BY <2>1 DEF Services, ServiceInv
  <2>3. Stages' = Stages /\ registry' = registry /\ InForce' = InForce
    BY <2>1 DEF Stages, Stage, InForce
  <2> QED BY <2>2, <2>3, ServiceStutters
<1>2. ASSUME NEW c \in Conns,
             \/ Loop(c) \/ WriteFails(c) \/ dispatch_admin(c)
             \/ ping(c) \/ info(c) \/ get(c) \/ Drained(c) \/ Client(c)
      PROVE  Simulated(c)
  <2>1. ServiceInv(c)
    BY DEF Services
  <2> QED
    BY <1>2, <2>1, ReadService, LeaveService, AnswerService, LoadService, InsertService,
       UnregisterService, ReloadService, ClientService DEF Loop, dispatch_admin
<1>3. ASSUME NEW c \in Conns, Simulated(c)
      PROVE  Services' /\ [Service!Next]_(Service!serviceVars)
  BY <1>3, OneServiceMoved DEF Simulated
<1> QED BY <1>1, <1>2, <1>3 DEF Next

(* The registry is a service whose requests take effect at one instant     *)
(* each (register, unregister and reload of registry.rs, with the lock     *)
(* released between their steps), for any number of clients, names,        *)
(* manifests and edits.                                                    *)
THEOREM ServiceRefinement == Spec => ImplementsService
<1>1. Init => Services /\ Service!Init
  <2> SUFFICES ASSUME Init PROVE Services /\ Service!Init
    OBVIOUS
  <2>1. ASSUME NEW c \in Conns
        PROVE  pc[c] = "read" /\ inst[c] = 0 /\ reply[c].data = {}
    BY DEF Init, NoReply
  <2>2. Services
    BY <2>1 DEF Services, ServiceInv
  <2>3. [c \in Conns |-> Stage(c)] = [c \in Conns |-> [at |-> "quiet"]]
    BY <2>1 DEF Stage
  <2>4. [i \in DOMAIN projects |-> projects[i].manifest] = << >>
    <3>1. projects = << >>
      BY DEF Init
    <3> QED BY <3>1, SMT
  <2>5. registry = [n \in Names |-> 0]
    BY DEF Init
  <2> QED BY <2>2, <2>3, <2>4, <2>5 DEF Service!Init, Service!Quiet
<1>2. IInv /\ Services /\ [Next]_vars => Services' /\ [Service!Next]_(Service!serviceVars)
  BY ServiceStep
<1> QED BY <1>1, <1>2, Invariant, PTL DEF Spec, ImplementsService, Service!Spec
-----------------------------------------------------------------------------
(* Every line is answered. *)

\* From which step of a request to which.
Goes(from, to) ==
  \/ from = "read" /\ to = "dispatch"
  \/ from = "dispatch" /\ to \in {"discover", "read_file", "remove_socket", "write"}
  \/ from = "discover" /\ to \in {"read_file", "write"}
  \/ from = "read_file" /\ to \in {"insert", "set_config", "write"}
  \/ from = "set_config" /\ to = "store"
  \/ from \in {"insert", "remove_socket", "store"} /\ to = "write"

\* A handler goes on with its request.
GoesOn(c) ==
  /\ \E l : Goes(pc[c], l) /\ pc' = [pc EXCEPT ![c] = l]
  /\ UNCHANGED <<plane, closed, sent, outbox, req>>

(* What a handler does, step by step.                                      *)
LEMMA HandlerGoesOn ==
  ASSUME NEW c \in Conns,
         dispatch_admin(c) \/ protocol_error(c) \/ ping(c) \/ info(c) \/ get(c)
  PROVE  GoesOn(c)
<1> DEFINE To(l) == pc' = [pc EXCEPT ![c] = l] /\ UNCHANGED <<plane, closed, sent, outbox, req>>
<1>0. ASSUME NEW l, Goes(pc[c], l), To(l) PROVE GoesOn(c)
  BY <1>0 DEF GoesOn
<1>1. ASSUME protocol_error(c) \/ ping(c) \/ info(c) \/ get(c) \/ status(c) \/ rotate_bootstrap(c)
      PROVE  pc[c] = "dispatch" /\ To("write")
  BY <1>1 DEF protocol_error, ping, info, get, status, rotate_bootstrap, Dispatch, Respond, wireVars
<1>2. ASSUME Discover(c) PROVE pc[c] \in {"dispatch", "discover"} /\ (To("write") \/ To("read_file"))
  BY <1>2 DEF Discover, Dispatch, Fail, Respond, wireVars
<1>3. ASSUME ReadFile(c) PROVE pc[c] = "read_file" /\ (To("write") \/ To("insert") \/ To("set_config"))
  BY <1>3 DEF ReadFile, Fail, Respond, wireVars
<1>4. ASSUME Insert(c) \/ Exists(c) \/ BindFails(c) PROVE pc[c] = "insert" /\ To("write")
  BY <1>4 DEF Insert, Exists, BindFails, Fail, Respond, wireVars
<1>5. ASSUME Unknown(c) PROVE pc[c] = "dispatch" /\ To("write")
  BY <1>5 DEF Unknown, Dispatch, Fail, Respond, wireVars
<1>6. ASSUME Unregister(c) PROVE pc[c] = "dispatch" /\ To("remove_socket")
  BY <1>6 DEF Unregister, Dispatch, wireVars
<1>7. ASSUME RemoveSocket(c) PROVE pc[c] = "remove_socket" /\ To("write")
  BY <1>7 DEF RemoveSocket, Respond, wireVars
<1>8. ASSUME Lookup(c) PROVE pc[c] = "dispatch" /\ To("discover")
  BY <1>8 DEF Lookup, Dispatch, wireVars
<1>9. ASSUME SetConfig(c) PROVE pc[c] = "set_config" /\ To("store")
  BY <1>9 DEF SetConfig, wireVars
<1>10. ASSUME StoreManifest(c) PROVE pc[c] = "store" /\ To("write")
  BY <1>10 DEF StoreManifest, Respond, wireVars
<1> HIDE DEF To
<1>11. /\ pc[c] = "dispatch" => \A l \in {"discover", "read_file", "remove_socket", "write"} : Goes(pc[c], l)
       /\ pc[c] = "discover" => Goes(pc[c], "read_file") /\ Goes(pc[c], "write")
       /\ pc[c] = "read_file" => \A l \in {"insert", "set_config", "write"} : Goes(pc[c], l)
       /\ pc[c] = "set_config" => Goes(pc[c], "store")
       /\ pc[c] \in {"insert", "remove_socket", "store"} => Goes(pc[c], "write")
  BY DEF Goes
<1> QED BY <1>0, <1>1, <1>2, <1>3, <1>4, <1>5, <1>6, <1>7, <1>8, <1>9, <1>10, <1>11 DEF dispatch_admin

\* Another connection's step does nothing to this one.
LeftAlone(c) ==
  /\ pc'[c] = pc[c] /\ req'[c] = req[c] /\ plane'[c] = plane[c] /\ closed'[c] = closed[c]
  /\ outbox'[c] = outbox[c] /\ sent'[c] = sent[c]

LEMMA OthersLeaveAlone ==
  ASSUME TypeOK, NEW b \in Conns, NEW c \in Conns, b # c,
         GoesOn(b) \/ Close(b) \/ ReadRequest(b) \/ Write(b) \/ Client(b)
  PROVE  LeftAlone(c)
<1>1. CASE GoesOn(b)
  BY <1>1 DEF GoesOn, TypeOK, LeftAlone
<1>2. CASE Close(b)
  BY <1>2 DEF Close, TypeOK, LeftAlone
<1>3. CASE ReadRequest(b)
  BY <1>3 DEF ReadRequest, TypeOK, LeftAlone
<1>4. CASE Write(b)
  BY <1>4 DEF Write, TypeOK, LeftAlone
<1>5. CASE Client(b)
  <2>1. ASSUME NEW line, Transmit(b, line) PROVE LeftAlone(c)
    BY <2>1 DEF Transmit, taskVars, TypeOK, LeftAlone
  <2>2. ASSUME Connect(b) PROVE LeftAlone(c)
    BY <2>2 DEF Connect, taskVars, TypeOK, LeftAlone
  <2>3. ASSUME HangUp(b) PROVE LeftAlone(c)
    BY <2>3 DEF HangUp, taskVars, TypeOK, LeftAlone
  <2>4. ASSUME NEW n \in Names, ConnectProject(b, n) PROVE LeftAlone(c)
    BY <2>4 DEF ConnectProject, TypeOK, LeftAlone
  <2> QED BY <1>5, <2>1, <2>2, <2>3, <2>4 DEF Client, Send, HangUpWithin
<1> QED BY <1>1, <1>2, <1>3, <1>4, <1>5

\* The line number n of c is the next to be answered, and the task is at p.
Waits(c, n, p) ==
  /\ Open(c) /\ Len(outbox[c]) = n - 1 /\ n <= Len(sent[c]) /\ req[c].op # "get"
  /\ pc[c] = p

Served(c, n) == Len(outbox[c]) >= n \/ closed[c] \/ req[c].op = "get"

(* A step of the task itself takes it on, to the answer or to the end.     *)
LEMMA TaskGoesOn ==
  ASSUME TypeOK, NEW c \in Conns, NEW n \in Nat, NEW p, Waits(c, n, p),
         GoesOn(c) \/ Close(c) \/ ReadRequest(c) \/ Write(c)
  PROVE  (\E l : Goes(p, l) /\ Waits(c, n, l)') \/ Served(c, n)'
<1>1. CASE GoesOn(c)
  <2>1. PICK l : Goes(pc[c], l) /\ pc' = [pc EXCEPT ![c] = l]
    BY <1>1 DEF GoesOn
  <2>2. pc'[c] = l
    BY <2>1 DEF TypeOK
  <2> QED BY <1>1, <2>1, <2>2 DEF GoesOn, Waits, Open
<1>2. CASE Close(c)
  <2>1. closed'[c] = TRUE
    BY <1>2 DEF Close, TypeOK
  <2> QED BY <2>1 DEF Served
<1>3. CASE ReadRequest(c)
  <2>1. pc[c] = "read" /\ pc'[c] = "dispatch" /\ UNCHANGED <<plane, closed, sent, outbox>>
    BY <1>3 DEF ReadRequest, Reading, TypeOK
  <2>2. Goes(p, "dispatch")
    BY <2>1 DEF Goes, Waits
  <2> QED BY <2>1, <2>2 DEF Waits, Served, Open
<1>4. CASE Write(c)
  <2> DEFINE a == [to |-> reply[c].to, code |-> reply[c].code]
  <2>1. outbox'[c] = Append(outbox[c], a)
    BY <1>4 DEF Write, TypeOK
  <2>2. a \in [to : Reqs, code : Codes]
    BY SMT DEF TypeOK
  <2> HIDE DEF a
  <2>3. Len(Append(outbox[c], a)) = Len(outbox[c]) + 1 /\ Len(outbox[c]) \in Nat
    BY <2>2, OutboxType
  <2>4. Len(outbox[c]) = n - 1
    BY DEF Waits
  <2>5. Len(outbox'[c]) >= n
    BY <2>1, <2>3, <2>4, SMT
  <2> QED BY <2>5 DEF Served
<1> QED BY <1>1, <1>2, <1>3, <1>4

LEMMA TaskShape ==
  ASSUME NEW c \in Conns, Task(c) \/ WriteFails(c) \/ get(c) \/ Drained(c)
  PROVE  GoesOn(c) \/ Close(c) \/ ReadRequest(c) \/ Write(c)
BY HandlerGoesOn DEF Task, Loop, ReadEof, ReadTooLong, WriteFails, Drained

(* A client can only send more.                                            *)
LEMMA ClientWaits ==
  ASSUME TypeOK, NEW c \in Conns, NEW n \in Nat, NEW p, Waits(c, n, p), Client(c)
  PROVE  Waits(c, n, p)'
<1>1. plane[c] # "new"
  BY DEF Waits, Open
<1>2. ASSUME NEW line \in Lines, Transmit(c, line) PROVE Waits(c, n, p)'
  <2>1. UNCHANGED <<plane, closed, outbox, pc, req>> /\ sent'[c] = Append(sent[c], line)
    BY <1>2 DEF Transmit, taskVars, TypeOK
  <2>2. n <= Len(sent[c]) /\ sent[c] \in Seq(Lines)
    BY DEF Waits, TypeOK
  <2>3. n <= Len(sent'[c])
    BY <2>1, <2>2, SMT
  <2> QED BY <2>1, <2>3 DEF Waits, Open
<1>3. ASSUME HangUp(c) PROVE Waits(c, n, p)'
  BY <1>3 DEF HangUp, taskVars, Waits, Open
<1>4. ~Connect(c) /\ \A k \in Names : ~ConnectProject(c, k)
  BY <1>1 DEF Connect, ConnectProject
<1>5. ASSUME NEW m \in Script[c], NEW got \in Nat, NEW newline \in BOOLEAN PROVE Line(m, got, newline) \in Lines
  BY SMT DEF Line, Lines
<1>6. \A m \in Script[c] : m.size \in Nat
  BY RequestsAssumption
<1>7. \A m \in Script[c] : \A got \in 1..m.size : got \in Nat
  BY <1>6, SMT
<1>8. CASE \E m \in Script[c] : Send(c, m)
  BY <1>2, <1>5, <1>6, <1>8 DEF Send
<1>9. CASE \E m \in Script[c] : \E got \in Cuts[c] : HangUpWithin(c, m, got)
  BY <1>2, <1>5, <1>7, <1>9 DEF HangUpWithin
<1> QED BY <1>3, <1>4, <1>8, <1>9 DEF Client

LEMMA LineMoves ==
  ASSUME TypeOK, [Next]_vars, NEW c \in Conns, NEW n \in Nat, NEW p, Waits(c, n, p)
  PROVE  Waits(c, n, p)' \/ (\E l : Goes(p, l) /\ Waits(c, n, l)') \/ Served(c, n)'
<1>1. ASSUME LeftAlone(c) PROVE Waits(c, n, p)'
  BY <1>1 DEF LeftAlone, Waits, Open
<1>2. ASSUME NEW d \in Edited, NEW i \in MANIFEST_CANDIDATES, NEW f \in Contents[i], Edit(d, i, f)
      PROVE  LeftAlone(c)
  BY <1>2 DEF Edit, wireVars, taskVars, LeftAlone
<1>3. ASSUME UNCHANGED vars PROVE LeftAlone(c)
  BY <1>3 DEF vars, wireVars, taskVars, LeftAlone
<1>4. ASSUME NEW b \in Conns, \/ Task(b) \/ WriteFails(b) \/ get(b) \/ Drained(b)
      PROVE  Waits(c, n, p)' \/ (\E l : Goes(p, l) /\ Waits(c, n, l)') \/ Served(c, n)'
  <2>1. GoesOn(b) \/ Close(b) \/ ReadRequest(b) \/ Write(b)
    BY <1>4, TaskShape
  <2>2. CASE b = c
    BY <2>1, <2>2, TaskGoesOn
  <2>3. CASE b # c
    BY <1>1, <2>1, <2>3, OthersLeaveAlone
  <2> QED BY <2>2, <2>3
<1>5. ASSUME NEW b \in Conns, Client(b) PROVE Waits(c, n, p)'
  <2>1. CASE b = c
    BY <1>5, <2>1, ClientWaits
  <2>2. CASE b # c
    BY <1>1, <1>5, <2>2, OthersLeaveAlone
  <2> QED BY <2>1, <2>2
<1> QED BY <1>1, <1>2, <1>3, <1>4, <1>5 DEF Next, Task

LEMMA LineProgress ==
  ASSUME TypeOK, NEW c \in Conns, NEW n \in Nat, NEW p, Waits(c, n, p), Task(c)
  PROVE  (\E l : Goes(p, l) /\ Waits(c, n, l)') \/ Served(c, n)'
BY TaskShape, TaskGoesOn

(* One line of one connection.                                             *)
LEMMA LineEnds ==
  ASSUME NEW c \in Conns, NEW n \in Nat
  PROVE  Spec /\ []CanAllStep /\ TaskFair(c) => LineAnswered(c, n)
<1> DEFINE At(p) == Waits(c, n, p)
           Out   == Served(c, n)
           Some  == \/ At("read") \/ At("dispatch") \/ At("discover") \/ At("read_file") \/ At("insert")
                    \/ At("set_config") \/ At("store") \/ At("remove_socket") \/ At("write")
<1>1. ASSUME NEW p, NEW Q, (\E l : Goes(p, l) /\ At(l)') \/ Out' => Q
      PROVE  /\ TypeOK /\ [Next]_vars /\ At(p) => At(p)' \/ Q
             /\ TypeOK /\ <<Task(c)>>_vars /\ At(p) => Q
  BY <1>1, LineMoves, LineProgress
<1>2. /\ TypeOK /\ [Next]_vars /\ At("read") => At("read")' \/ At("dispatch")' \/ Out'
      /\ TypeOK /\ <<Task(c)>>_vars /\ At("read") => At("dispatch")' \/ Out'
  BY <1>1 DEF Goes
<1>3. /\ TypeOK /\ [Next]_vars /\ At("dispatch") =>
           \/ At("dispatch")' \/ At("discover")' \/ At("read_file")' \/ At("remove_socket")'
           \/ At("write")' \/ Out'
      /\ TypeOK /\ <<Task(c)>>_vars /\ At("dispatch") =>
           At("discover")' \/ At("read_file")' \/ At("remove_socket")' \/ At("write")' \/ Out'
  BY <1>1 DEF Goes
<1>4. /\ TypeOK /\ [Next]_vars /\ At("discover") =>
           At("discover")' \/ At("read_file")' \/ At("write")' \/ Out'
      /\ TypeOK /\ <<Task(c)>>_vars /\ At("discover") => At("read_file")' \/ At("write")' \/ Out'
  BY <1>1 DEF Goes
<1>5. /\ TypeOK /\ [Next]_vars /\ At("read_file") =>
           At("read_file")' \/ At("insert")' \/ At("set_config")' \/ At("write")' \/ Out'
      /\ TypeOK /\ <<Task(c)>>_vars /\ At("read_file") =>
           At("insert")' \/ At("set_config")' \/ At("write")' \/ Out'
  BY <1>1 DEF Goes
<1>6. /\ TypeOK /\ [Next]_vars /\ At("set_config") => At("set_config")' \/ At("store")' \/ Out'
      /\ TypeOK /\ <<Task(c)>>_vars /\ At("set_config") => At("store")' \/ Out'
  BY <1>1 DEF Goes
<1>7. ASSUME NEW p \in {"insert", "remove_socket", "store"}
      PROVE  /\ TypeOK /\ [Next]_vars /\ At(p) => At(p)' \/ At("write")' \/ Out'
             /\ TypeOK /\ <<Task(c)>>_vars /\ At(p) => At("write")' \/ Out'
  BY <1>1 DEF Goes
<1>8. /\ TypeOK /\ [Next]_vars /\ At("insert") => At("insert")' \/ At("write")' \/ Out'
      /\ TypeOK /\ <<Task(c)>>_vars /\ At("insert") => At("write")' \/ Out'
      /\ TypeOK /\ [Next]_vars /\ At("remove_socket") => At("remove_socket")' \/ At("write")' \/ Out'
      /\ TypeOK /\ <<Task(c)>>_vars /\ At("remove_socket") => At("write")' \/ Out'
      /\ TypeOK /\ [Next]_vars /\ At("store") => At("store")' \/ At("write")' \/ Out'
      /\ TypeOK /\ <<Task(c)>>_vars /\ At("store") => At("write")' \/ Out'
  BY <1>7
<1>9. /\ TypeOK /\ [Next]_vars /\ At("write") => At("write")' \/ Out'
      /\ TypeOK /\ <<Task(c)>>_vars /\ At("write") => Out'
  BY <1>1 DEF Goes
<1>10. TypeOK => (Some => Owed(c))
  <2>1. ASSUME TypeOK, NEW p, At(p) PROVE Owed(c)
    <3>1. Len(outbox[c]) \in Nat /\ Len(outbox[c]) = n - 1 /\ n <= Len(sent[c])
      BY <2>1, OutboxType DEF Waits
    <3>2. Len(sent[c]) \in Nat
      BY <2>1, SMT DEF TypeOK
    <3>3. Len(outbox[c]) < Len(sent[c])
      BY <3>1, <3>2, SMT
    <3> QED BY <2>1, <3>3 DEF Owed, Waits
  <2> QED BY <2>1
<1>11. TypeOK /\ CanAllStep /\ Some => ENABLED <<Task(c)>>_vars
  BY <1>10 DEF CanAllStep, CanStep
<1>12. TypeOK /\ Order /\ Len(outbox[c]) = n - 1 /\ n <= Len(sent[c]) => Some \/ Out
  <2> SUFFICES ASSUME TypeOK, Order, Len(outbox[c]) = n - 1, n <= Len(sent[c]), ~Out
               PROVE  Some
    OBVIOUS
  <2>1. plane[c] # "new"
    <3>1. ASSUME plane[c] = "new" PROVE FALSE
      <4>1. sent[c] = << >> /\ outbox[c] = << >>
        BY <3>1 DEF Order, OrderInv
      <4> QED BY <4>1, SMT
    <3> QED BY <3>1
  <2>2. pc[c] \in {"read", "dispatch", "discover", "read_file", "insert",
                   "remove_socket", "set_config", "store", "write"}
    BY DEF TypeOK
  <2>3. At(pc[c])
    BY <2>1 DEF Waits, Open, Served
  <2> QED BY <2>2, <2>3
<1>13. Out => Len(outbox[c]) >= n \/ closed[c] \/ req[c].op = "get"
  BY DEF Served
<1> HIDE DEF At, Out
<1> QED BY TypeCorrect, OrderInvariant, <1>2, <1>3, <1>4, <1>5, <1>6, <1>8, <1>9, <1>11, <1>12, <1>13, PTL
       DEF Spec, TaskFair, LineAnswered

(* Every line is answered in its turn unless the connection closes or a    *)
(* get waits for the backend: for any number of connections and lines, any *)
(* requests and any edits of the manifests, under weak fairness of each    *)
(* connection's task.  That the task can take a step is the hypothesis,    *)
(* since ENABLED is beyond the provers; MCRequests checks it               *)
(* (handle_admin_connection, handle_project_connection, dispatch_admin).   *)
THEOREM LinesAnswered == FairSpec /\ []CanAllStep => Answered
<1> DEFINE Numbers(c) == 1..MaxLines[c]
<1>1. \A c \in Conns : \A n \in Numbers(c) : n \in Nat
  BY SMT
<1> HIDE DEF Numbers
<1>2. Spec /\ []CanAllStep /\ (\A c \in Conns : TaskFair(c))
        => \A c \in Conns : \A n \in Numbers(c) : LineAnswered(c, n)
  BY <1>1, LineEnds
<1> USE DEF Numbers
<1> QED BY <1>2, PTL DEF FairSpec, NeverStuck, Answered
=============================================================================
