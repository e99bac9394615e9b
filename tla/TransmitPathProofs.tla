-------------------------- MODULE TransmitPathProofs --------------------------
(* Proofs about the transmit path, for every length of frames, every depth   *)
(* and lag of the queues, every preference and every MAC: the arbiter never  *)
(* splits a frame, and a status code is confirmed once and in order.         *)
EXTENDS TransmitPath, FiniteSetTheorems, TLAPS

Entries == [val : [code : Nat, byte : 1..InfoBytes], age : Nat]
QueueTypes ==
    /\ bytes \in [q : Seq(Entries), back : {bytes.back}]
    /\ push \in Nat /\ pushed \in Nat /\ codes \in Seq(Nat)
    /\ format \in [code : Nat, byte : 1..InfoBytes]
    /\ arbiter \in [inFrame : BOOLEAN, log : BOOLEAN]
    /\ log \in [left : Int, byte : 1..LogBytes, valid : BOOLEAN]

(* The line is between two frames or inside one, and the arbiter knows which. *)
InStep ==
    /\ \/ line = [frame |-> "none", byte |-> 0]
       \/ line.frame = "info" /\ line.byte \in 1..InfoBytes - 1
       \/ line.frame = "log" /\ line.byte \in 1..LogBytes - 1
    /\ arbiter.inFrame <=> line.frame # "none"
    /\ arbiter.inFrame => (arbiter.log <=> line.frame = "log")
    /\ log.byte = IF line.frame = "log" THEN line.byte + 1 ELSE 1

(* The bytes in the queue follow one another, from the one the line waits    *)
(* for to the one the formatter sends next.                                  *)
Due == IF line.frame = "info" THEN line.byte + 1 ELSE 1
Successor(b) == IF b = InfoBytes THEN 1 ELSE b + 1
Chained(q, due, next) ==
    /\ Len(q) > 0 => q[1].val.byte = due
    /\ \A i \in 1..Len(q) - 1 : q[i + 1].val.byte = Successor(q[i].val.byte)
    /\ next = IF Len(q) = 0 THEN due ELSE Successor(q[Len(q)].val.byte)
InOrder ==
    /\ Chained(bytes.q, Due, format.byte)
    /\ format.code = 0 => format.byte = 1

LineInv == QueueTypes /\ InStep /\ InOrder

-----------------------------------------------------------------------------
LEMMA Lengths == InfoBytes \in Nat \ {0} /\ LogBytes \in Nat \ {0} /\ CodeLag \in Nat
BY TransmitAssumption DEF TransmitAssumption

(* Entries only age.                                                         *)
LEMMA AgeingKeeps ==
    ASSUME NEW B, NEW f \in [q : Seq(Entries), back : B]
    PROVE  /\ ReaderEdge(f) \in [q : Seq(Entries), back : B]
           /\ Len(ReaderEdge(f).q) = Len(f.q)
           /\ \A i \in 1..Len(f.q) : ReaderEdge(f).q[i].val = f.q[i].val
<1> DEFINE q == [i \in DOMAIN f.q |-> Aged(f.q[i])]
<1>1. ReaderEdge(f) = [f EXCEPT !.q = q]
  BY DEF ReaderEdge
<1>2. \A e \in Entries : Aged(e) \in Entries /\ Aged(e).val = e.val
  <2> SUFFICES ASSUME NEW e \in Entries
               PROVE  Aged(e) \in Entries /\ Aged(e).val = e.val
    OBVIOUS
  <2>1. e.age \in Nat /\ (IF e.age < CodeLag THEN e.age + 1 ELSE e.age) \in Nat
    BY Lengths DEF Entries
  <2> QED
    BY <2>1 DEF Entries, Aged
<1>3. \A i \in 1..Len(f.q) : f.q[i] \in Entries
  OBVIOUS
<1>4. q \in Seq(Entries) /\ Len(q) = Len(f.q) /\ DOMAIN f.q = 1..Len(f.q)
  BY <1>2, <1>3
<1>5. \A i \in 1..Len(f.q) : q[i].val = f.q[i].val
  BY <1>2, <1>3, <1>4
<1> HIDE DEF q
<1>6. ReaderEdge(f) \in [q : Seq(Entries), back : B] /\ ReaderEdge(f).q = q
  BY <1>1, <1>4
<1> QED
  BY <1>4, <1>5, <1>6

LEMMA ChainedAgain ==
    ASSUME NEW q \in Seq(Entries), NEW p \in Seq(Entries), Len(p) = Len(q),
           \A i \in 1..Len(q) : p[i].val = q[i].val,
           NEW due, NEW next, Chained(q, due, next)
    PROVE  Chained(p, due, next)
BY DEF Chained

LEMMA ChainedTail ==
    ASSUME NEW q \in Seq(Entries), Len(q) > 0, NEW due, NEW next, Chained(q, due, next)
    PROVE  Chained(Tail(q), Successor(due), next)
<1>1. /\ Len(q) \in Nat \ {0} /\ q # <<>>
      /\ Tail(q) \in Seq(Entries) /\ Len(Tail(q)) = Len(q) - 1
      /\ \A i \in 1..Len(q) - 1 : Tail(q)[i] = q[i + 1]
  OBVIOUS
<1>2. CASE Len(q) = 1
  <2>1. Len(Tail(q)) = 0 /\ q[Len(q)] = q[1]
    BY <1>1, <1>2
  <2> QED
    BY <2>1 DEF Chained
<1>3. CASE Len(q) > 1
  <2>1. /\ Len(Tail(q)) > 0 /\ Tail(q)[1] = q[2]
        /\ Tail(q)[Len(Tail(q))] = q[Len(q)]
    <3>1. Len(q) - 1 \in 1..Len(q) - 1 /\ 1 \in 1..Len(q) - 1
      BY <1>1, <1>3
    <3> QED
      BY <1>1, <1>3, <3>1
  <2>2. q[2].val.byte = Successor(due)
    BY <1>1, <1>3 DEF Chained
  <2>3. \A i \in 1..Len(Tail(q)) - 1 :
           Tail(q)[i + 1].val.byte = Successor(Tail(q)[i].val.byte)
    BY <1>1 DEF Chained
  <2> QED
    BY <2>1, <2>2, <2>3 DEF Chained
<1> QED
  BY <1>1, <1>2, <1>3

LEMMA ChainedAppend ==
    ASSUME NEW q \in Seq(Entries), NEW e \in Entries, NEW due, Chained(q, due, e.val.byte)
    PROVE  Chained(Append(q, e), due, Successor(e.val.byte))
<1>1. /\ Len(Append(q, e)) = Len(q) + 1 /\ Append(q, e)[Len(q) + 1] = e
      /\ \A i \in 1..Len(q) : Append(q, e)[i] = q[i]
      /\ Append(q, e) \in Seq(Entries) /\ Len(q) \in Nat
  OBVIOUS
<1>2. Append(q, e)[1].val.byte = due
  BY <1>1 DEF Chained
<1>3. ASSUME NEW i \in 1..Len(q)
      PROVE  Append(q, e)[i + 1].val.byte = Successor(Append(q, e)[i].val.byte)
  <2>1. CASE i = Len(q)
    BY <1>1, <2>1 DEF Chained
  <2>2. CASE i < Len(q)
    BY <1>1, <2>2 DEF Chained
  <2> QED
    BY <2>1, <2>2
<1> QED
  BY <1>1, <1>2, <1>3 DEF Chained

-----------------------------------------------------------------------------
LEMMA LineStarts == TransmitInit => LineInv
<1> SUFFICES ASSUME TransmitInit PROVE LineInv
  OBVIOUS
<1> USE TransmitAssumption DEF TransmitAssumption, TransmitInit
<1>1. QueueTypes
  BY DEF QueueTypes, EmptyQueue, Entries
<1>2. InStep
  BY DEF InStep
<1>3. InOrder
  BY DEF InOrder, Chained, Due, EmptyQueue
<1> QED
  BY <1>1, <1>2, <1>3 DEF LineInv

(* The controller's side appends the formatter's byte and nothing else.      *)
LEMMA PushEdgeKeeps == LineInv /\ PushEdge => LineInv'
<1> SUFFICES ASSUME LineInv, PushEdge PROVE LineInv'
  OBVIOUS
<1> USE Lengths
<1>0. QueueTypes /\ InStep /\ InOrder
  BY DEF LineInv
<1>11. push' \in Nat /\ pushed' \in Nat
  <2>1. PICK now \in {0} \cup {n \in {pushed + 1} : MayPush} :
          push' = now /\ pushed' = IF now = 0 THEN pushed ELSE now
    BY DEF PushEdge
  <2>2. now \in Nat /\ pushed \in Nat
    BY <1>0, <2>1 DEF QueueTypes
  <2> QED
    BY <2>1, <2>2
<1>1. /\ codes' = CodesNext /\ format' = FormatNext
      /\ arbiter' = arbiter /\ log' = log /\ line' = line
      /\ bytes' = LET f == WriterEdge(bytes)
                  IN  IF Sends THEN Put(f, [code |-> format.code, byte |-> format.byte])
                      ELSE f
  BY DEF PushEdge
<1>2. format \in [code : Nat, byte : 1..InfoBytes] /\ codes \in Seq(Nat) /\ push \in Nat
      /\ bytes \in [q : Seq(Entries), back : {bytes.back}]
  BY <1>0 DEF QueueTypes
<1>3. PICK back : WriterEdge(bytes) = [bytes EXCEPT !.back = back]
  BY DEF WriterEdge
<1>4. Fetches => ~Sends
  BY DEF Fetches, Sends
<1>5. codes' \in Seq(Nat)
  <2>1. (IF Fetches THEN Tail(codes) ELSE codes) \in Seq(Nat)
    BY <1>2 DEF Fetches
  <2>2. (IF push # 0 /\ Len(codes) < CodeDepth THEN <<push>> ELSE <<>>) \in Seq(Nat)
    BY <1>2
  <2> QED
    BY <1>1, <2>1, <2>2 DEF CodesNext
<1>6. format' \in [code : Nat, byte : 1..InfoBytes]
  <2>1. Fetches => Head(codes) \in Nat
    BY <1>2 DEF Fetches
  <2> QED
    BY <1>1, <1>2, <2>1 DEF FormatNext
<1>7. CASE Sends
  <2> DEFINE e == [val |-> [code |-> format.code, byte |-> format.byte], age |-> 0]
  <2>1. e \in Entries
    BY <1>2 DEF Entries
  <2>2. bytes' = [q |-> Append(bytes.q, e), back |-> back]
    BY <1>1, <1>2, <1>3, <1>7 DEF Put
  <2>3. format'.byte = Successor(format.byte)
    BY <1>1, <1>2, <1>4, <1>7 DEF FormatNext, Successor
  <2>4. format'.code = 0 => format'.byte = 1
    BY <1>1, <1>2, <1>4, <1>7 DEF FormatNext, Sends
  <2>5. Chained(bytes.q, Due, e.val.byte)
    BY <1>0 DEF InOrder
  <2>6. Chained(bytes'.q, Due, format'.byte)
    <3>1. Chained(Append(bytes.q, e), Due, Successor(e.val.byte))
      BY <1>2, <2>1, <2>5, ChainedAppend
    <3>2. bytes'.q = Append(bytes.q, e) /\ e.val.byte = format.byte
      BY <2>2
    <3> QED
      BY <2>3, <3>1, <3>2
  <2>7. InOrder'
    BY <1>1, <2>4, <2>6 DEF InOrder, Due
  <2>8. QueueTypes'
    <3>1. bytes' \in [q : Seq(Entries), back : {bytes'.back}]
      BY <1>2, <2>1, <2>2
    <3> QED
      BY <1>0, <1>1, <1>5, <1>6, <1>11, <3>1 DEF QueueTypes
  <2> QED
    BY <1>0, <1>1, <2>7, <2>8 DEF LineInv, InStep
<1>8. CASE ~Sends
  <2>1. bytes' = [q |-> bytes.q, back |-> back]
    BY <1>1, <1>2, <1>3, <1>8
  <2>2. format'.byte = format.byte /\ (format'.code = 0 => format'.byte = 1)
    BY <1>0, <1>1, <1>2, <1>8 DEF FormatNext, Fetches, InOrder
  <2>3. InOrder'
    BY <1>0, <1>1, <2>1, <2>2 DEF InOrder, Due
  <2>4. QueueTypes'
    BY <1>0, <1>1, <1>2, <1>5, <1>6, <1>11, <2>1 DEF QueueTypes
  <2> QED
    BY <1>0, <1>1, <2>3, <2>4 DEF LineInv, InStep
<1> QED
  BY <1>7, <1>8

(* The MAC's side takes the byte the line waits for.                         *)
LEMMA MacEdgeKeeps == LineInv /\ MacEdge => LineInv'
<1> SUFFICES ASSUME LineInv, MacEdge PROVE LineInv'
  OBVIOUS
<1> USE Lengths
<1>0. QueueTypes /\ InStep /\ InOrder
  BY DEF LineInv
<1>1. PICK prefer \in BOOLEAN, tready \in BOOLEAN :
        LET toLog == ChooseLog(prefer)
            valid == IF toLog THEN log.valid ELSE InfoValid
            last  == IF toLog THEN log.byte = LogBytes ELSE InfoLast
            moves == valid /\ tready
        IN  /\ arbiter' = IF moves THEN ArbiterAfter(toLog, last) ELSE arbiter
            /\ LogMoves(moves /\ toLog)
            /\ \/ moves /\ ~toLog /\ InfoByteLeaves
               \/ moves /\ toLog /\ InfoRests /\ line' = LineNext("log", log.byte, last)
               \/ ~moves /\ InfoRests /\ line' = line
  BY DEF MacEdge
<1> DEFINE toLog == ChooseLog(prefer)
<1>2. toLog \in BOOLEAN /\ (arbiter.inFrame => toLog = arbiter.log)
  BY <1>0 DEF ChooseLog, QueueTypes
<1>3. /\ push' = push /\ pushed' = pushed /\ codes' = codes /\ format' = format
  BY DEF MacEdge
<1>4. /\ bytes \in [q : Seq(Entries), back : {bytes.back}]
      /\ arbiter \in [inFrame : BOOLEAN, log : BOOLEAN]
      /\ log \in [left : Int, byte : 1..LogBytes, valid : BOOLEAN]
  BY <1>0 DEF QueueTypes
<1>5. ASSUME bytes' = ReaderEdge(bytes), NEW due, Chained(bytes.q, due, format.byte)
      PROVE  /\ bytes' \in [q : Seq(Entries), back : {bytes'.back}]
             /\ Chained(bytes'.q, due, format'.byte)
  <2>1. /\ bytes' \in [q : Seq(Entries), back : {bytes.back}]
        /\ Len(bytes'.q) = Len(bytes.q)
        /\ \A i \in 1..Len(bytes.q) : bytes'.q[i].val = bytes.q[i].val
    <3>1. /\ ReaderEdge(bytes) \in [q : Seq(Entries), back : {bytes.back}]
          /\ Len(ReaderEdge(bytes).q) = Len(bytes.q)
          /\ \A i \in 1..Len(bytes.q) : ReaderEdge(bytes).q[i].val = bytes.q[i].val
      BY ZenonT(60), <1>4, AgeingKeeps
    <3> QED
      BY <1>5, <3>1
  <2>2. bytes.q \in Seq(Entries) /\ bytes'.q \in Seq(Entries)
    BY <1>4, <2>1
  <2>3. Chained(bytes'.q, due, format.byte)
    BY <1>5, <2>1, <2>2, ChainedAgain
  <2> QED
    BY <1>3, <2>1, <2>3
<1>6. CASE (IF toLog THEN log.valid ELSE InfoValid) /\ tready /\ ~toLog
  <2>1. /\ arbiter' = ArbiterAfter(FALSE, InfoLast) /\ LogMoves(FALSE) /\ InfoByteLeaves
        /\ bytes.q # <<>> /\ (arbiter.inFrame => ~arbiter.log)
    BY <1>1, <1>2, <1>6 DEF InfoValid, Offered
  <2> HIDE DEF toLog
  <2>2. Len(bytes.q) > 0 /\ bytes.q[1] \in Entries
    BY <1>4, <2>1
  <2>3. Value(bytes).byte = Due /\ Value(bytes).byte \in 1..InfoBytes
    BY <1>0, <2>2 DEF InOrder, Chained, Value, Entries
  <2>4. line.frame \in {"none", "info"} /\ Due = line.byte + 1
    BY <1>0, <2>1 DEF InStep, Due
  <2>5. line' = IF InfoLast THEN [frame |-> "none", byte |-> 0]
                ELSE [frame |-> "info", byte |-> Due]
    BY <2>1, <2>3, <2>4 DEF InfoByteLeaves, LineNext
  <2>6. log' \in [left : Int, byte : 1..LogBytes, valid : BOOLEAN] /\ log'.byte = log.byte
    BY <1>4, <2>1 DEF LogMoves
  <2>7. arbiter' = [inFrame |-> ~InfoLast, log |-> IF arbiter.inFrame THEN arbiter.log ELSE FALSE]
    BY <2>1 DEF ArbiterAfter
  <2>8. InfoLast <=> Due = InfoBytes
    BY <2>3 DEF InfoLast
  <2>9. InStep'
    <3>1. log'.byte = 1
      BY <1>0, <2>4, <2>6 DEF InStep
    <3>2. CASE InfoLast
      BY <2>5, <2>7, <3>1, <3>2 DEF InStep
    <3>3. CASE ~InfoLast
      <4>1. line'.frame = "info" /\ line'.byte = Due /\ Due \in 1..InfoBytes - 1
        BY <2>3, <2>5, <2>8, <3>3
      <4>2. arbiter'.inFrame /\ ~arbiter'.log
        <5>1. arbiter.log \in BOOLEAN /\ (arbiter.inFrame => arbiter.log = FALSE)
          BY <1>4, <2>1
        <5>2. (IF arbiter.inFrame THEN arbiter.log ELSE FALSE) = FALSE
          BY <5>1
        <5> QED
          BY <2>7, <3>3, <5>2
      <4> QED
        BY <3>1, <4>1, <4>2 DEF InStep
    <3> QED
      BY <3>2, <3>3
  <2>10. Due' = Successor(Due)
    BY <2>5, <2>8 DEF Due, Successor
  <2>11. /\ ReaderEdge(bytes) \in [q : Seq(Entries), back : {bytes.back}]
         /\ Chained(ReaderEdge(bytes).q, Due, format.byte)
         /\ Len(ReaderEdge(bytes).q) > 0
    <3>1. /\ ReaderEdge(bytes) \in [q : Seq(Entries), back : {bytes.back}]
          /\ Len(ReaderEdge(bytes).q) = Len(bytes.q)
          /\ \A i \in 1..Len(bytes.q) : ReaderEdge(bytes).q[i].val = bytes.q[i].val
      BY ZenonT(60), <1>4, AgeingKeeps
    <3>2. bytes.q \in Seq(Entries) /\ ReaderEdge(bytes).q \in Seq(Entries)
      BY <1>4, <3>1
    <3>3. Chained(bytes.q, Due, format.byte)
      BY <1>0 DEF InOrder
    <3> QED
      BY <2>2, <3>1, <3>2, <3>3, ChainedAgain
  <2>12. bytes' = [q |-> Tail(ReaderEdge(bytes).q), back |-> Append(ReaderEdge(bytes).back, 0)]
    BY <2>1 DEF InfoByteLeaves, Take
  <2>13. Chained(Tail(ReaderEdge(bytes).q), Successor(Due), format.byte)
    BY <2>11, ChainedTail
  <2>14. InOrder'
    BY <1>0, <1>3, <2>10, <2>12, <2>13 DEF InOrder
  <2>15. bytes' \in [q : Seq(Entries), back : {bytes'.back}]
    BY <2>11, <2>12
  <2>16. arbiter' \in [inFrame : BOOLEAN, log : BOOLEAN]
    BY <1>4, <2>7 DEF InfoLast
  <2>17. QueueTypes'
    BY <1>0, <1>3, <2>6, <2>15, <2>16 DEF QueueTypes
  <2> QED
    BY <2>9, <2>14, <2>17 DEF LineInv
<1>7. CASE (IF toLog THEN log.valid ELSE InfoValid) /\ tready /\ toLog
  <2> DEFINE last == log.byte = LogBytes
  <2>1. /\ arbiter' = ArbiterAfter(TRUE, last) /\ LogMoves(TRUE) /\ InfoRests
        /\ line' = LineNext("log", log.byte, last)
        /\ arbiter.inFrame => arbiter.log
    BY <1>1, <1>2, <1>7
  <2> HIDE DEF toLog
  <2>2. line.frame \in {"none", "log"} /\ log.byte = line.byte + 1
    BY <1>0, <2>1 DEF InStep
  <2>3. line' = IF last THEN [frame |-> "none", byte |-> 0]
                ELSE [frame |-> "log", byte |-> log.byte]
    BY <2>1, <2>2 DEF LineNext
  <2>4. arbiter' = [inFrame |-> ~last, log |-> IF arbiter.inFrame THEN arbiter.log ELSE TRUE]
    BY <2>1 DEF ArbiterAfter
  <2>5. /\ log' \in [left : Int, byte : 1..LogBytes, valid : BOOLEAN]
        /\ log'.byte = IF last THEN 1 ELSE log.byte + 1
    BY <1>4, <2>1 DEF LogMoves
  <2>6. InStep'
    <3>1. CASE last
      BY <2>3, <2>4, <2>5, <3>1 DEF InStep
    <3>2. CASE ~last
      <4>1. /\ line'.frame = "log" /\ line'.byte = log.byte
            /\ log.byte \in 1..LogBytes - 1 /\ log'.byte = log.byte + 1
        BY <1>4, <2>3, <2>5, <3>2
      <4>2. arbiter'.inFrame /\ arbiter'.log
        <5>1. arbiter.log \in BOOLEAN /\ (arbiter.inFrame => arbiter.log = TRUE)
          BY <1>4, <2>1
        <5>2. (IF arbiter.inFrame THEN arbiter.log ELSE TRUE) = TRUE
          BY <5>1
        <5> QED
          BY <2>4, <3>2, <5>2
      <4> QED
        BY <4>1, <4>2 DEF InStep
    <3> QED
      BY <3>1, <3>2
  <2>7. Due = 1 /\ Due' = 1
    BY <2>2, <2>3 DEF Due
  <2>8. /\ bytes' \in [q : Seq(Entries), back : {bytes'.back}]
        /\ Chained(bytes'.q, Due, format'.byte)
    BY <1>0, <1>5, <2>1 DEF InOrder, InfoRests
  <2>9. InOrder'
    BY <1>0, <1>3, <2>7, <2>8 DEF InOrder
  <2>10. arbiter' \in [inFrame : BOOLEAN, log : BOOLEAN]
    BY <1>4, <2>4
  <2>11. QueueTypes'
    BY <1>0, <1>3, <2>5, <2>8, <2>10 DEF QueueTypes
  <2> QED
    BY <2>6, <2>9, <2>11 DEF LineInv
<1>8. CASE ~((IF toLog THEN log.valid ELSE InfoValid) /\ tready)
  <2>1. arbiter' = arbiter /\ line' = line /\ InfoRests /\ LogMoves(FALSE)
    BY <1>1, <1>8
  <2>2. log' \in [left : Int, byte : 1..LogBytes, valid : BOOLEAN] /\ log'.byte = log.byte
    BY <1>4, <2>1 DEF LogMoves
  <2>3. InOrder' /\ QueueTypes'
    BY <1>0, <1>3, <1>5, <2>1, <2>2 DEF InfoRests, InOrder, Due, QueueTypes
  <2> QED
    BY <1>0, <2>1, <2>2, <2>3 DEF LineInv, InStep
<1> QED
  BY <1>6, <1>7, <1>8

-----------------------------------------------------------------------------
(* The line and the arbiter stay in step, and the queued bytes in order.     *)
THEOREM LineInvariant == TransmitSpec => []LineInv
<1>1. LineInv /\ UNCHANGED transmitVars => LineInv'
  BY DEF LineInv, QueueTypes, InStep, InOrder, Chained, Due, transmitVars
<1>2. LineInv /\ [TransmitNext]_transmitVars => LineInv'
  BY <1>1, PushEdgeKeeps, MacEdgeKeeps DEF TransmitNext
<1> QED
  BY LineStarts, <1>2, PTL DEF TransmitSpec

(* No preference of the controller and no pace of the MAC ever puts a byte   *)
(* of one source into a frame of the other (system_tx_arbiter.sv).           *)
THEOREM NoFrameSplit == TransmitSpec => []FramesWhole
<1>1. LineInv => FramesWhole
  BY DEF LineInv, InStep, FramesWhole
<1> QED
  BY LineInvariant, <1>1, PTL

-----------------------------------------------------------------------------
(* Every code is confirmed once.                                             *)

(* The codes pushed are numbered through: those in the queue, the one being  *)
(* formatted, those beside their frames, those confirmed on their way back.  *)
Fetched == pushed - Len(codes) - (IF push = 0 THEN 0 ELSE 1)
Returned == acked + (IF done = 0 THEN 0 ELSE 1)
Codes == [val : Nat, age : 0..CodeLag]
CodeQueues == [q : Seq(Codes), back : Seq(0..CrossEdges)]
CodeTypes ==
    /\ queued \in CodeQueues /\ acks \in CodeQueues
    /\ done \in Nat /\ sent \in Nat /\ acked \in Nat /\ txEdges \in Nat
Numbers ==
    /\ push \in {0, pushed} /\ format.code \in {0, Fetched} /\ done \in {0, acked + 1}
    /\ \A i \in 1..Len(codes) : codes[i] = Fetched + i
    /\ Fetched = sent + Len(queued.q) /\ sent = Returned + Len(acks.q)
    /\ \A i \in 1..Len(queued.q) : queued.q[i].val = sent + i
    /\ \A i \in 1..Len(acks.q) : acks.q[i].val = Returned + i
    /\ pushed <= acked + MaxOutstanding

(* The bytes on their way are those of the frames still to be sent.          *)
FollowedBy(v) == IF v.byte = InfoBytes THEN v.code + 1 ELSE v.code
Framed(q, due, next) ==
    /\ Len(q) > 0 => q[1].val.code = due
    /\ \A i \in 1..Len(q) : /\ FollowedBy(q[i].val) <= next
                            /\ \A j \in i + 1..Len(q) : FollowedBy(q[i].val) <= q[j].val.code
    /\ \A i \in 1..Len(q) - 1 : q[i + 1].val.code = FollowedBy(q[i].val)
    /\ next = IF Len(q) = 0 THEN due ELSE FollowedBy(q[Len(q)].val)
NextCode == IF format.code = 0 THEN Fetched + 1 ELSE format.code

(* A code crosses ahead of the bytes of its frame.                           *)
Ahead(code, age) ==
    \E i \in 1..Len(queued.q) :
        code = sent + i /\ (queued.q[i].age = CodeLag \/ queued.q[i].age >= age)
Beside ==
    /\ \A k \in 1..Len(bytes.q) :
          Ahead(bytes.q[k].val.code, bytes.q[k].val.byte + bytes.q[k].age)
    /\ format.code # 0 => Ahead(format.code, format.byte - 1 + txEdges)

(* Room of the code's queue is learnt of with the acknowledgement.           *)
Falling(s) == \A i, j \in 1..Len(s) : i <= j => s[j] <= s[i]
Paired ==
    /\ Falling(queued.back) /\ Len(queued.back) <= Len(acks.q)
    /\ \A j \in 0..Len(queued.back) - 1 :
          queued.back[Len(queued.back) - j] = acks.q[Len(acks.q) - j].age

(* A code that was pushed when another had been confirmed reaches the line   *)
(* when the room of that one's acknowledgement has been learnt of.           *)
Room(i) == Returned - Len(acks.back) + i
Learnt ==
    /\ Falling(acks.back)
    /\ \A i \in 1..Len(acks.back) :
          /\ Room(i) <= acked \/ txEdges > 0 => acks.back[i] > 0
          /\ \A k \in 1..Len(bytes.q) :
                bytes.q[k].val.code >= Room(i) + MaxOutstanding =>
                    bytes.q[k].age < acks.back[i]

CodeInv == /\ CodeTypes /\ Numbers /\ Beside /\ Paired /\ Learnt /\ overflow = {}
           /\ Framed(bytes.q, sent + 1, NextCode)

-----------------------------------------------------------------------------
LEMMA Bounds ==
    /\ CrossEdges \in Nat /\ CodeLag \in Nat /\ CrossEdges <= CodeLag
    /\ CodeLag <= CrossEdges + InfoBytes /\ InfoBytes \in Nat \ {0}
    /\ MaxOutstanding \in Nat \ {0} /\ CodeDepth \in Nat /\ MaxOutstanding < CodeDepth
    /\ TxRatios \subseteq Nat \ {0} /\ MaxCodes \in Nat
BY TransmitAssumption DEF TransmitAssumption

(* The writer learns first of the room that was freed first; what it has not *)
(* learnt of yet ages.                                                       *)
LEMMA WriterSees ==
    ASSUME NEW S, NEW f \in [q : S, back : Seq(0..CrossEdges)], Falling(f.back)
    PROVE  \E n \in 0..Len(f.back) :
              /\ WriterEdge(f) \in [q : S, back : Seq(0..CrossEdges)]
              /\ WriterEdge(f).q = f.q
              /\ Len(WriterEdge(f).back) = Len(f.back) - n
              /\ \A i \in 1..Len(f.back) - n :
                    f.back[n + i] < CrossEdges /\ WriterEdge(f).back[i] = f.back[n + i] + 1
              /\ Falling(WriterEdge(f).back)
<1> DEFINE b == f.back
           A == {i \in DOMAIN b : b[i] >= CrossEdges}
           n == Cardinality(A)
           w == [i \in 1..Len(b) - n |-> b[n + i] + 1]
<1>1. /\ b \in Seq(0..CrossEdges) /\ Len(b) \in Nat /\ DOMAIN b = 1..Len(b) /\ A \subseteq 1..Len(b)
      /\ \A i \in 1..Len(b) : b[i] \in 0..CrossEdges
      /\ \A i, j \in 1..Len(b) : i <= j => b[j] <= b[i]
  <2> DEFINE V == 0..CrossEdges
  <2>1. f \in [q : S, back : Seq(V)]
    OBVIOUS
  <2> HIDE DEF V
  <2>2. b \in Seq(V)
    BY <2>1
  <2> HIDE DEF b
  <2>3. Len(b) \in Nat /\ DOMAIN b = 1..Len(b) /\ \A i \in 1..Len(b) : b[i] \in V
    BY <2>2
  <2>4. \A i, j \in 1..Len(b) : i <= j => b[j] <= b[i]
    BY DEF Falling, b
  <2> QED
    BY <2>2, <2>3, <2>4 DEF V
<1>2. /\ IsFiniteSet(1..Len(b)) /\ IsFiniteSet(A) /\ n \in 0..Len(b)
  <2>1. IsFiniteSet(1..Len(b)) /\ Cardinality(1..Len(b)) = Len(b)
    <3>1. Len(b) \in Int /\ (IF 1 > Len(b) THEN 0 ELSE Len(b) - 1 + 1) = Len(b)
      BY <1>1
    <3> QED
      BY <3>1, FS_Interval
  <2>2. IsFiniteSet(A) /\ n <= Len(b)
    BY <1>1, <2>1, FS_Subset
  <2>3. n \in Nat
    BY <2>2, FS_CardinalityType
  <2> QED
    BY <1>1, <2>1, <2>2, <2>3
<1>3. ASSUME NEW i \in 1..Len(b), i > n PROVE b[i] < CrossEdges
  <2>1. SUFFICES ASSUME b[i] >= CrossEdges PROVE FALSE
    BY <1>1, Bounds
  <2>2. 1..i \subseteq A
    <3> SUFFICES ASSUME NEW j \in 1..i PROVE j \in A
      OBVIOUS
    <3>1. j \in 1..Len(b) /\ b[i] <= b[j]
      BY <1>1
    <3>2. b[j] \in Int /\ b[i] \in Int /\ CrossEdges \in Int
      BY <1>1, <3>1, Bounds
    <3> QED
      BY <1>1, <2>1, <3>1, <3>2
  <2>3. Cardinality(1..i) = i
    BY FS_Interval
  <2>4. i <= n
    BY <1>2, <2>2, <2>3, FS_Subset
  <2> QED
    BY <1>2, <1>3, <2>4
<1>4. WriterEdge(f) = [f EXCEPT !.back = w]
  BY DEF WriterEdge
<1> HIDE DEF n, A, b
<1>5. /\ w \in Seq(0..CrossEdges) /\ Len(w) = Len(b) - n
      /\ \A i \in 1..Len(b) - n : b[n + i] < CrossEdges /\ w[i] = b[n + i] + 1
  <2>1. \A i \in 1..Len(b) - n : b[n + i] < CrossEdges /\ b[n + i] + 1 \in 0..CrossEdges
    <3> SUFFICES ASSUME NEW i \in 1..Len(b) - n
                 PROVE  b[n + i] < CrossEdges /\ b[n + i] + 1 \in 0..CrossEdges
      OBVIOUS
    <3>1. n + i \in 1..Len(b) /\ n + i > n
      BY <1>1, <1>2
    <3>2. b[n + i] < CrossEdges /\ b[n + i] \in 0..CrossEdges
      BY <1>1, <1>3, <3>1
    <3> QED
      BY <3>2, Bounds
  <2>2. Len(b) - n \in Nat
    BY <1>1, <1>2
  <2> DEFINE m == Len(b) - n
  <2>3. w = [i \in 1..m |-> b[n + i] + 1]
    OBVIOUS
  <2> HIDE DEF m, w
  <2> DEFINE V == 0..CrossEdges
  <2>4. w \in [1..m -> V] /\ m \in Nat
    BY <2>1, <2>2, <2>3 DEF m
  <2> HIDE DEF V
  <2>5. w \in Seq(V) /\ Len(w) = m
    BY <2>4
  <2> QED
    BY <2>1, <2>3, <2>5 DEF m, V
<1>6. Falling(w)
  <2> SUFFICES ASSUME NEW i \in 1..Len(w), NEW j \in 1..Len(w), i <= j PROVE w[j] <= w[i]
    BY DEF Falling
  <2>1. n + i \in 1..Len(b) /\ n + j \in 1..Len(b) /\ n + i <= n + j
    BY <1>1, <1>2, <1>5
  <2>2. b[n + j] <= b[n + i]
    BY <1>1, <2>1
  <2>3. w[i] = b[n + i] + 1 /\ w[j] = b[n + j] + 1 /\ b[n + i] \in Int /\ b[n + j] \in Int
    <3>1. i \in 1..Len(b) - n /\ j \in 1..Len(b) - n
      BY <1>5
    <3> QED
      BY <1>1, <1>5, <2>1, <3>1
  <2> QED
    BY <2>2, <2>3
<1> HIDE DEF w
<1>7. WriterEdge(f) \in [q : S, back : Seq(0..CrossEdges)] /\ WriterEdge(f).q = f.q
      /\ WriterEdge(f).back = w
  BY <1>4, <1>5
<1> QED
  BY <1>2, <1>5, <1>6, <1>7 DEF b

(* What waits for the reader ages, up to the lag of its queue.               *)
LEMMA ReaderSees ==
    ASSUME NEW B, NEW f \in [q : Seq(Codes), back : B]
    PROVE  /\ ReaderEdge(f) \in [q : Seq(Codes), back : B]
           /\ ReaderEdge(f).back = f.back /\ Len(ReaderEdge(f).q) = Len(f.q)
           /\ \A i \in 1..Len(f.q) :
                 /\ ReaderEdge(f).q[i].val = f.q[i].val
                 /\ f.q[i].age < CodeLag => ReaderEdge(f).q[i].age = f.q[i].age + 1
                 /\ f.q[i].age = CodeLag => ReaderEdge(f).q[i].age = CodeLag
<1> DEFINE q == [i \in DOMAIN f.q |-> Aged(f.q[i])]
<1>1. ReaderEdge(f) = [f EXCEPT !.q = q]
  BY DEF ReaderEdge
<1>2. ASSUME NEW e \in Codes
      PROVE  /\ Aged(e) \in Codes /\ Aged(e).val = e.val
             /\ e.age < CodeLag => Aged(e).age = e.age + 1
             /\ e.age = CodeLag => Aged(e).age = CodeLag
  <2>1. e \in [val : Nat, age : 0..CodeLag]
    BY DEF Codes
  <2>2. e.age \in 0..CodeLag /\ CodeLag \in Nat
    BY <2>1, Bounds
  <2>3. Aged(e) = [e EXCEPT !.age = IF e.age < CodeLag THEN e.age + 1 ELSE e.age]
    BY <2>1 DEF Aged
  <2>4. (IF e.age < CodeLag THEN e.age + 1 ELSE e.age) \in 0..CodeLag
    BY <2>2
  <2> QED
    BY <2>1, <2>2, <2>3, <2>4 DEF Codes
<1>3. f.q \in Seq(Codes) /\ DOMAIN f.q = 1..Len(f.q) /\ \A i \in 1..Len(f.q) : f.q[i] \in Codes
  OBVIOUS
<1>4. /\ q \in Seq(Codes) /\ Len(q) = Len(f.q)
      /\ \A i \in 1..Len(f.q) : q[i] = Aged(f.q[i])
  BY <1>2, <1>3
<1> HIDE DEF q
<1>5. ReaderEdge(f) \in [q : Seq(Codes), back : B] /\ ReaderEdge(f).q = q
      /\ ReaderEdge(f).back = f.back
  BY <1>1, <1>4
<1> QED
  BY <1>2, <1>3, <1>4, <1>5

(* So do the bytes.                                                          *)
LEMMA BytesAge ==
    ASSUME NEW B, NEW f \in [q : Seq(Entries), back : B], NEW i \in 1..Len(f.q)
    PROVE  /\ f.q[i].age \in Nat /\ ReaderEdge(f).q[i].age \in Nat
           /\ ReaderEdge(f).q[i].age <= f.q[i].age + 1
<1>1. f.q[i] \in Entries /\ DOMAIN f.q = 1..Len(f.q)
  OBVIOUS
<1>2. ReaderEdge(f).q[i] = Aged(f.q[i])
  BY <1>1 DEF ReaderEdge
<1>3. Aged(f.q[i]).age = IF f.q[i].age < CodeLag THEN f.q[i].age + 1 ELSE f.q[i].age
  BY <1>1 DEF Entries, Aged
<1> QED
  BY <1>1, <1>2, <1>3, Bounds DEF Entries

LEMMA FallsToNought ==
    ASSUME NEW s \in Seq(0..CrossEdges), Falling(s)
    PROVE  Append(s, 0) \in Seq(0..CrossEdges) /\ Falling(Append(s, 0))
<1>1. 0 \in 0..CrossEdges
  BY Bounds
<1> DEFINE V == 0..CrossEdges
<1>3. s \in Seq(V) /\ 0 \in V
  BY <1>1
<1> HIDE DEF V
<1>2. /\ Append(s, 0) \in Seq(V) /\ Len(Append(s, 0)) = Len(s) + 1
      /\ Append(s, 0)[Len(s) + 1] = 0 /\ Len(s) \in Nat
      /\ \A i \in 1..Len(s) : Append(s, 0)[i] = s[i] /\ s[i] \in V
  BY <1>3
<1> DEFINE a == Append(s, 0)
<1> HIDE DEF a
<1> SUFFICES ASSUME NEW i \in 1..Len(a), NEW j \in 1..Len(a), i <= j PROVE a[j] <= a[i]
  BY <1>2 DEF a, V, Falling
<1>4. CASE j = Len(s) + 1
  <2>1. a[j] = 0 /\ a[i] >= 0
    BY <1>2, <1>4, Bounds DEF a, V
  <2> QED
    BY <1>2, <2>1, Bounds DEF a
<1>5. CASE j # Len(s) + 1
  <2>1. i \in 1..Len(s) /\ j \in 1..Len(s)
    BY <1>2, <1>5 DEF a
  <2> QED
    BY <1>2, <2>1 DEF Falling, a
<1> QED
  BY <1>4, <1>5

LEMMA PutGives ==
    ASSUME NEW B, NEW f \in [q : Seq(Codes), back : B], NEW v \in Nat
    PROVE  /\ Put(f, v) \in [q : Seq(Codes), back : B] /\ Put(f, v).back = f.back
           /\ Len(f.q) \in Nat /\ Len(Put(f, v).q) = Len(f.q) + 1
           /\ \A i \in 1..Len(f.q) : Put(f, v).q[i] = f.q[i]
           /\ Put(f, v).q[Len(f.q) + 1] = [val |-> v, age |-> 0]
<1> DEFINE e == [val |-> v, age |-> 0]
<1>1. e \in Codes
  BY Bounds DEF Codes
<1>2. Put(f, v) = [f EXCEPT !.q = Append(f.q, e)]
  BY DEF Put
<1> HIDE DEF e
<1>3. f.q \in Seq(Codes) /\ Append(f.q, e) \in Seq(Codes)
  BY <1>1
<1>4. Put(f, v).q = Append(f.q, e) /\ Put(f, v).back = f.back
      /\ Put(f, v) \in [q : Seq(Codes), back : B]
  BY <1>1, <1>2, <1>3
<1>5. /\ Len(f.q) \in Nat /\ Len(Append(f.q, e)) = Len(f.q) + 1
      /\ \A i \in 1..Len(f.q) : Append(f.q, e)[i] = f.q[i]
      /\ Append(f.q, e)[Len(f.q) + 1] = e
  BY <1>1, <1>3
<1> QED
  BY <1>4, <1>5 DEF e

LEMMA TakeGives ==
    ASSUME NEW S, NEW f \in [q : Seq(S), back : Seq(0..CrossEdges)], f.q # <<>>, Falling(f.back)
    PROVE  /\ Take(f) \in [q : Seq(S), back : Seq(0..CrossEdges)]
           /\ Len(f.q) \in Nat \ {0} /\ Len(Take(f).q) = Len(f.q) - 1
           /\ \A i \in 1..Len(f.q) - 1 : Take(f).q[i] = f.q[i + 1]
           /\ Falling(Take(f).back)
           /\ Len(f.back) \in Nat /\ Len(Take(f).back) = Len(f.back) + 1
           /\ Take(f).back[Len(f.back) + 1] = 0
           /\ \A i \in 1..Len(f.back) : Take(f).back[i] = f.back[i]
<1> DEFINE V == 0..CrossEdges
<1>1. f.q \in Seq(S) /\ f.back \in Seq(V) /\ 0 \in V
  BY Bounds
<1>2. Take(f) = [q |-> Tail(f.q), back |-> Append(f.back, 0)]
  BY DEF Take
<1>3. Append(f.back, 0) \in Seq(V) /\ Falling(Append(f.back, 0))
  BY FallsToNought
<1> HIDE DEF V
<1>4. /\ Len(f.q) \in Nat \ {0} /\ Tail(f.q) \in Seq(S) /\ Len(Tail(f.q)) = Len(f.q) - 1
      /\ \A i \in 1..Len(f.q) - 1 : Tail(f.q)[i] = f.q[i + 1]
  BY <1>1
<1>5. /\ Len(f.back) \in Nat /\ Len(Append(f.back, 0)) = Len(f.back) + 1
      /\ Append(f.back, 0)[Len(f.back) + 1] = 0
      /\ \A i \in 1..Len(f.back) : Append(f.back, 0)[i] = f.back[i]
  BY <1>1
<1>6. Take(f).q = Tail(f.q) /\ Take(f).back = Append(f.back, 0)
  BY <1>2
<1>7. Take(f) \in [q : Seq(S), back : Seq(V)]
  BY <1>2, <1>3, <1>4
<1> QED
  BY <1>3, <1>4, <1>5, <1>6, <1>7 DEF V

(* The codes under way, counted.                                             *)
LEMMA Amounts ==
    ASSUME LineInv, CodeInv
    PROVE  /\ Fetched \in Nat /\ Returned \in Nat /\ sent \in Nat /\ acked \in Nat
           /\ pushed \in Nat /\ push \in Nat
           /\ Len(codes) \in Nat /\ Len(queued.q) \in Nat /\ Len(acks.q) \in Nat
           /\ Len(queued.back) \in Nat /\ Len(acks.back) \in Nat /\ Len(bytes.q) \in Nat
           /\ acked <= Returned /\ Returned <= acked + 1 /\ Returned <= sent /\ sent <= Fetched
           /\ Fetched + Len(codes) + (IF push = 0 THEN 0 ELSE 1) = pushed
           /\ pushed <= acked + MaxOutstanding /\ pushed < acked + CodeDepth
           /\ queued.q \in Seq(Codes) /\ acks.q \in Seq(Codes) /\ bytes.q \in Seq(Entries)
           /\ codes \in Seq(Nat) /\ acks \in CodeQueues /\ queued \in CodeQueues
<1>1. CodeTypes /\ Numbers /\ QueueTypes
  BY DEF CodeInv, LineInv
<1>2. /\ queued.q \in Seq(Codes) /\ acks.q \in Seq(Codes)
      /\ queued.back \in Seq(0..CrossEdges) /\ acks.back \in Seq(0..CrossEdges)
  BY <1>1 DEF CodeTypes, CodeQueues
<1>3. codes \in Seq(Nat) /\ bytes.q \in Seq(Entries) /\ pushed \in Nat /\ push \in Nat
  BY <1>1 DEF QueueTypes
<1>4. /\ Len(codes) \in Nat /\ Len(queued.q) \in Nat /\ Len(acks.q) \in Nat /\ Len(bytes.q) \in Nat
  BY <1>2, <1>3
<1>5. Len(queued.back) \in Nat /\ Len(acks.back) \in Nat
  BY <1>2
<1>6. sent \in Nat /\ acked \in Nat /\ Returned \in acked..acked + 1
  BY <1>1 DEF CodeTypes, Returned
<1>7. sent = Returned + Len(acks.q) /\ Fetched = sent + Len(queued.q) /\ pushed <= acked + MaxOutstanding
  BY <1>1 DEF Numbers
<1>8. Fetched + Len(codes) + (IF push = 0 THEN 0 ELSE 1) = pushed
  BY <1>3, <1>4 DEF Fetched
<1>9. acks \in CodeQueues /\ queued \in CodeQueues
  BY <1>1 DEF CodeTypes
<1>10. Returned \in Nat /\ acked <= Returned /\ Returned <= acked + 1
  BY <1>6
<1>11. Fetched \in Nat /\ Returned <= sent /\ sent <= Fetched
  <2> DEFINE a == Len(queued.q)
             b == Len(acks.q)
  <2>1. a \in Nat /\ b \in Nat /\ sent = Returned + b /\ Fetched = sent + a
    BY <1>4, <1>7
  <2> HIDE DEF a, b
  <2> QED
    BY <2>1, <1>6, <1>10
<1>12. pushed < acked + CodeDepth
  BY <1>3, <1>6, <1>7, Bounds
<1> QED
  BY <1>2, <1>3, <1>4, <1>5, <1>6, <1>7, <1>8, <1>9, <1>10, <1>11, <1>12

(* Nothing is lost: neither the queue of the codes nor the crossing is full  *)
(* when a code arrives, and each acknowledgement is that of the next code.   *)
LEMMA RoomForCodes ==
    ASSUME LineInv, CodeInv
    PROVE  /\ push # 0 => Len(codes) < CodeDepth
           /\ Fetches => ~Crowded(queued, CodeDepth)
<1>1. push # 0 => Len(codes) < CodeDepth
  BY Amounts, Bounds
<1>2. ASSUME Fetches PROVE ~Crowded(queued, CodeDepth)
  <2>1. Len(codes) > 0
    BY <1>2, Amounts DEF Fetches
  <2>2. Len(queued.back) <= Len(acks.q)
    BY DEF CodeInv, Paired
  <2>3. Fetched = sent + Len(queued.q) /\ sent = Returned + Len(acks.q)
    BY DEF CodeInv, Numbers
  <2> DEFINE a == Len(queued.q)
             b == Len(queued.back)
             c == Len(acks.q)
  <2>4. /\ a \in Nat /\ b \in Nat /\ c \in Nat /\ CodeDepth \in Nat
        /\ Fetched = sent + a /\ sent = Returned + c /\ b <= c
    BY <2>2, <2>3, Amounts, Bounds
  <2> HIDE DEF a, b, c
  <2>5. a + b < CodeDepth
    <3>1. Fetched <= pushed /\ pushed < acked + CodeDepth /\ acked <= Returned
      <4> DEFINE d == Len(codes)
      <4>1. Fetched + d + (IF push = 0 THEN 0 ELSE 1) = pushed /\ d \in Nat
        BY Amounts
      <4> HIDE DEF d
      <4> QED
        BY <4>1, Amounts
    <3>2. Fetched \in Nat /\ pushed \in Nat /\ acked \in Nat /\ Returned \in Nat /\ sent \in Nat
      BY Amounts
    <3> QED
      BY ONLY <2>4, <3>1, <3>2
  <2>6. Crowded(queued, CodeDepth) <=> a + b >= CodeDepth
    BY DEF Crowded, a, b
  <2> QED
    BY <2>4, <2>5, <2>6
<1> QED
  BY <1>1, <1>2

LEMMA PushKeepsCodes ==
    ASSUME LineInv, CodeInv, PushEdge
    PROVE  /\ codes' \in Seq(Nat) /\ Len(codes') \in Nat
           /\ Fetched' = IF Fetches THEN Fetched + 1 ELSE Fetched
           /\ push' \in {0, pushed'} /\ pushed' \in Nat
           /\ pushed' <= acked + MaxOutstanding
           /\ format'.code \in {0, Fetched'}
           /\ \A i \in 1..Len(codes') : codes'[i] = Fetched' + i
           /\ Fetches => Head(codes) = Fetched + 1
<1>1. PICK now \in {0} \cup {n \in {pushed + 1} : MayPush} :
        push' = now /\ pushed' = IF now = 0 THEN pushed ELSE now
  BY DEF PushEdge
<1>2. codes' = CodesNext /\ format' = FormatNext
  BY DEF PushEdge
<1>3. /\ pushed' \in Nat /\ push' \in {0, pushed'}
      /\ pushed' = pushed + (IF push' = 0 THEN 0 ELSE 1)
      /\ push' # 0 => pushed' <= acked + MaxOutstanding
  <2>1. pushed \in Nat /\ acked \in Nat /\ MaxOutstanding \in Nat
    BY Amounts, Bounds
  <2>2. CASE now = 0
    BY <1>1, <2>1, <2>2
  <2>3. CASE now = pushed + 1 /\ MayPush
    <3>1. pushed - acked < MaxOutstanding /\ now # 0
      BY <2>1, <2>3 DEF MayPush
    <3> QED
      BY <1>1, <2>1, <2>3, <3>1
  <2> QED
    BY <1>1, <2>2, <2>3
<1>4. codes \in Seq(Nat) /\ \A i \in 1..Len(codes) : codes[i] = Fetched + i
  BY Amounts DEF CodeInv, Numbers
<1> DEFINE rest == IF Fetches THEN Tail(codes) ELSE codes
           start == IF Fetches THEN Fetched + 1 ELSE Fetched
<1>5. /\ rest \in Seq(Nat) /\ Len(rest) \in Nat /\ start \in Nat
      /\ start + Len(rest) = Fetched + Len(codes)
      /\ \A i \in 1..Len(rest) : rest[i] = start + i
      /\ Fetches => Head(codes) = Fetched + 1
  <2>1. CASE Fetches
    <3>1. codes # <<>> /\ Len(codes) \in Nat /\ Len(codes) > 0
      BY <1>4, <2>1 DEF Fetches
    <3>2. /\ Tail(codes) \in Seq(Nat) /\ Len(Tail(codes)) = Len(codes) - 1
          /\ Head(codes) = codes[1] /\ 1 \in 1..Len(codes)
          /\ \A i \in 1..Len(codes) - 1 : Tail(codes)[i] = codes[i + 1]
      BY <1>4, <3>1
    <3>3. rest = Tail(codes) /\ start = Fetched + 1
      BY <2>1
    <3> HIDE DEF rest, start
    <3>4. \A i \in 1..Len(rest) : rest[i] = start + i
      <4> SUFFICES ASSUME NEW i \in 1..Len(rest) PROVE rest[i] = start + i
        OBVIOUS
      <4>1. i + 1 \in 1..Len(codes) /\ i \in 1..Len(codes) - 1
        BY <3>1, <3>2, <3>3
      <4>2. rest[i] = Fetched + (i + 1)
        BY <1>4, <3>2, <3>3, <4>1
      <4> QED
        BY <3>3, <4>1, <4>2, Amounts
    <3> QED
      <4> DEFINE m == Len(codes)
      <4>1. m \in Nat /\ m > 0 /\ Len(rest) = m - 1 /\ rest \in Seq(Nat)
        BY <3>1, <3>2, <3>3
      <4>2. Fetched \in Nat
        BY Amounts
      <4> HIDE DEF m
      <4>3. Len(rest) \in Nat /\ start \in Nat /\ start + Len(rest) = Fetched + m
        BY <3>3, <4>1, <4>2
      <4>4. Head(codes) = Fetched + 1
        BY <1>4, <3>2
      <4> QED
        BY <3>4, <4>1, <4>3, <4>4 DEF m
  <2>2. CASE ~Fetches
    BY <1>4, <2>2, Amounts
  <2> QED
    BY <2>1, <2>2
<1>6. codes' = rest \o (IF push # 0 THEN <<push>> ELSE <<>>)
  BY <1>2, RoomForCodes DEF CodesNext
<1> HIDE DEF rest
<1>7. push # 0 => push = start + Len(rest) + 1
  BY <1>5, Amounts DEF CodeInv, Numbers
<1>8. /\ codes' \in Seq(Nat) /\ Len(codes') = Len(rest) + (IF push = 0 THEN 0 ELSE 1)
      /\ \A i \in 1..Len(codes') : codes'[i] = start + i
  <2>1. CASE push = 0
    BY <1>5, <1>6, <2>1
  <2>2. CASE push # 0
    <3>1. codes' = rest \o <<push>>
      BY <1>6, <2>2
    <3>2. push \in Nat
      BY Amounts
    <3> HIDE DEF start
    <3>3. /\ codes' \in Seq(Nat) /\ Len(codes') = Len(rest) + 1
          /\ \A i \in 1..Len(rest) : codes'[i] = rest[i]
          /\ codes'[Len(rest) + 1] = push
      BY <1>5, <3>1, <3>2
    <3>4. \A i \in 1..Len(rest) + 1 : codes'[i] = start + i
      <4> SUFFICES ASSUME NEW i \in 1..Len(rest) + 1 PROVE codes'[i] = start + i
        OBVIOUS
      <4>1. CASE i = Len(rest) + 1
        BY <1>7, <2>2, <3>3, <4>1, <1>5, <3>2
      <4>2. CASE i # Len(rest) + 1
        BY <1>5, <3>3, <4>2
      <4> QED
        BY <4>1, <4>2
    <3> QED
      BY <2>2, <3>3, <3>4
  <2> QED
    BY <2>1, <2>2
<1> HIDE DEF start
<1>9. Fetched' = start
  <2>1. Fetched' = pushed' - Len(codes') - (IF push' = 0 THEN 0 ELSE 1)
    BY DEF Fetched
  <2> DEFINE m == Len(codes)
             r == Len(rest)
             k == Len(codes')
  <2>2. /\ m \in Nat /\ r \in Nat /\ start \in Nat /\ Fetched \in Nat /\ pushed \in Nat
        /\ k = r + (IF push = 0 THEN 0 ELSE 1) /\ start + r = Fetched + m
        /\ Fetched + m + (IF push = 0 THEN 0 ELSE 1) = pushed
        /\ pushed' = pushed + (IF push' = 0 THEN 0 ELSE 1) /\ pushed' \in Nat
        /\ Fetched' = pushed' - k - (IF push' = 0 THEN 0 ELSE 1)
    BY <1>3, <1>5, <1>8, <2>1, Amounts
  <2> HIDE DEF m, r, k
  <2> QED
    BY <2>2
<1>10. pushed' <= acked + MaxOutstanding
  BY <1>3, Amounts
<1>11. format'.code \in {0, Fetched'}
  <2>1. format.code \in {0, Fetched} /\ format \in [code : Nat, byte : 1..InfoBytes]
    BY DEF CodeInv, Numbers, LineInv, QueueTypes
  <2>2. CASE Fetches
    BY <1>2, <1>5, <1>9, <2>2 DEF FormatNext, start
  <2>3. CASE ~Fetches
    BY <1>2, <1>9, <2>1, <2>3 DEF FormatNext, start
  <2> QED
    BY <2>2, <2>3
<1> QED
  BY <1>3, <1>5, <1>8, <1>9, <1>10, <1>11 DEF start

(* What a controller edge does to the code's queue, ...                      *)
LEMMA PushQueues ==
    ASSUME LineInv, CodeInv, PushEdge
    PROVE  /\ queued' \in CodeQueues
           /\ Len(queued'.q) = Len(queued.q) + (IF Fetches THEN 1 ELSE 0)
           /\ \A i \in 1..Len(queued.q) : queued'.q[i] = queued.q[i]
           /\ Fetches => queued'.q[Len(queued.q) + 1] = [val |-> Fetched + 1, age |-> 0]
           /\ Falling(queued'.back)
           /\ \E n \in 0..Len(queued.back) :
                 /\ Len(queued'.back) = Len(queued.back) - n
                 /\ \A i \in 1..Len(queued.back) - n :
                       /\ queued.back[n + i] < CrossEdges
                       /\ queued'.back[i] = queued.back[n + i] + 1
<1> DEFINE f == WriterEdge(queued)
<1>1. queued' = IF Queues # <<>> /\ ~Crowded(queued, CodeDepth) THEN Put(f, Queues[1]) ELSE f
  BY DEF PushEdge
<1>2. /\ Queues # <<>> <=> Fetches
      /\ Fetches => Queues[1] = Fetched + 1
  BY PushKeepsCodes DEF Queues
<1>3. Fetches => ~Crowded(queued, CodeDepth)
  BY RoomForCodes
<1>4. queued' = IF Fetches THEN Put(f, Fetched + 1) ELSE f
  BY <1>1, <1>2, <1>3
<1>5. queued \in [q : Seq(Codes), back : Seq(0..CrossEdges)] /\ Falling(queued.back)
  BY Amounts DEF CodeQueues, CodeInv, Paired
<1>6. /\ f \in [q : Seq(Codes), back : Seq(0..CrossEdges)] /\ f.q = queued.q /\ Falling(f.back)
      /\ \E n \in 0..Len(queued.back) :
            /\ Len(f.back) = Len(queued.back) - n
            /\ \A i \in 1..Len(queued.back) - n :
                  queued.back[n + i] < CrossEdges /\ f.back[i] = queued.back[n + i] + 1
  <2>1. PICK n \in 0..Len(queued.back) :
           /\ f \in [q : Seq(Codes), back : Seq(0..CrossEdges)] /\ f.q = queued.q
           /\ Len(f.back) = Len(queued.back) - n
           /\ \A i \in 1..Len(queued.back) - n :
                 queued.back[n + i] < CrossEdges /\ f.back[i] = queued.back[n + i] + 1
           /\ Falling(f.back)
    BY <1>5, WriterSees
  <2> HIDE DEF f
  <2> QED
    BY <2>1
<1> HIDE DEF f
<1>7. Fetched + 1 \in Nat
  BY Amounts
<1>8. CASE Fetches
  <2>1. queued' = Put(f, Fetched + 1)
    BY <1>4, <1>8
  <2>2. /\ queued' \in [q : Seq(Codes), back : Seq(0..CrossEdges)] /\ queued'.back = f.back
        /\ Len(queued'.q) = Len(f.q) + 1
        /\ \A i \in 1..Len(f.q) : queued'.q[i] = f.q[i]
        /\ queued'.q[Len(f.q) + 1] = [val |-> Fetched + 1, age |-> 0]
    BY <1>6, <1>7, <2>1, PutGives
  <2> QED
    BY <1>6, <1>8, <2>2 DEF CodeQueues
<1>9. CASE ~Fetches
  <2>1. queued' = f /\ Len(queued.q) + 0 = Len(queued.q)
    BY <1>4, <1>9, Amounts
  <2> QED
    BY <1>6, <1>9, <2>1 DEF CodeQueues
<1> QED
  BY <1>8, <1>9

(* ... to the acknowledgements, ...                                          *)
Arrives == Offered(acks, CrossEdges)
Step == IF Arrives THEN 1 ELSE 0
LEMMA PushAcks ==
    ASSUME LineInv, CodeInv, PushEdge
    PROVE  /\ acks' \in CodeQueues
           /\ done' \in {0, acked' + 1} /\ acked' = Returned /\ Returned' = Returned + Step
           /\ Arrives => Len(acks.q) > 0 /\ acks.q[1].age >= CrossEdges
           /\ Len(acks'.q) = Len(acks.q) - Step
           /\ \A i \in 1..Len(acks.q) - Step :
                 /\ acks'.q[i].val = acks.q[i + Step].val
                 /\ acks.q[i + Step].age < CodeLag => acks'.q[i].age = acks.q[i + Step].age + 1
           /\ Falling(acks'.back) /\ Len(acks'.back) = Len(acks.back) + Step
           /\ \A i \in 1..Len(acks.back) : acks'.back[i] = acks.back[i]
<1> DEFINE f == ReaderEdge(acks)
<1>1. /\ acks' = IF Arrives THEN Take(f) ELSE f
      /\ done' = IF Arrives THEN Value(acks) ELSE 0
      /\ acked' = IF done = 0 THEN acked ELSE done
  BY DEF PushEdge, Arrives
<1>2. acks \in [q : Seq(Codes), back : Seq(0..CrossEdges)] /\ Falling(acks.back)
  BY Amounts DEF CodeQueues, CodeInv, Learnt
<1>3. /\ f \in [q : Seq(Codes), back : Seq(0..CrossEdges)]
      /\ f.back = acks.back /\ Len(f.q) = Len(acks.q)
      /\ \A i \in 1..Len(acks.q) :
            /\ f.q[i].val = acks.q[i].val
            /\ acks.q[i].age < CodeLag => f.q[i].age = acks.q[i].age + 1
  BY <1>2, ReaderSees
<1> HIDE DEF f
<1>4. acked' = Returned
  BY <1>1, Amounts DEF Returned, CodeInv, Numbers
<1>5. Arrives => Len(acks.q) > 0 /\ acks.q[1].age >= CrossEdges
  BY Amounts DEF Arrives, Offered
<1>6. Len(acks.q) \in Nat /\ Len(acks.back) \in Nat /\ Returned \in Nat
  BY Amounts
<1>7. CASE Arrives
  <2>1. Step = 1 /\ acks' = Take(f) /\ f.q # <<>>
    BY <1>1, <1>3, <1>5, <1>6, <1>7 DEF Step
  <2>2. /\ acks' \in CodeQueues /\ Len(acks'.q) = Len(f.q) - 1
        /\ \A i \in 1..Len(f.q) - 1 : acks'.q[i] = f.q[i + 1]
        /\ Falling(acks'.back) /\ Len(acks'.back) = Len(f.back) + 1
        /\ \A i \in 1..Len(f.back) : acks'.back[i] = f.back[i]
    BY ZenonT(60), <1>2, <1>3, <2>1, TakeGives DEF CodeQueues
  <2>3. done' = Returned + 1
    BY <1>1, <1>5, <1>6, <1>7 DEF Value, CodeInv, Numbers
  <2>4. Returned' = Returned + 1 /\ done' \in {0, acked' + 1}
    BY <1>4, <1>6, <2>3 DEF Returned
  <2>5. \A i \in 1..Len(acks.q) - 1 :
           /\ acks'.q[i].val = acks.q[i + 1].val
           /\ acks.q[i + 1].age < CodeLag => acks'.q[i].age = acks.q[i + 1].age + 1
    <3> SUFFICES ASSUME NEW i \in 1..Len(acks.q) - 1
                 PROVE  /\ acks'.q[i].val = acks.q[i + 1].val
                        /\ acks.q[i + 1].age < CodeLag => acks'.q[i].age = acks.q[i + 1].age + 1
      OBVIOUS
    <3>1. i \in 1..Len(f.q) - 1 /\ i + 1 \in 1..Len(acks.q)
      BY <1>3, <1>6
    <3> QED
      BY <1>3, <2>2, <3>1
  <2> QED
    BY <1>3, <1>4, <1>5, <2>1, <2>2, <2>4, <2>5
<1>8. CASE ~Arrives
  <2>1. Step = 0 /\ acks' = f /\ done' = 0
    BY <1>1, <1>8 DEF Step
  <2>2. Returned' = Returned
    BY <1>4, <1>6, <2>1, Amounts DEF Returned
  <2>3. /\ Len(acks'.q) = Len(acks.q) - 0 /\ Len(acks'.back) = Len(acks.back) + 0
        /\ Returned + 0 = Returned /\ \A i \in 1..Len(acks.q) - 0 : i + 0 = i /\ i \in 1..Len(acks.q)
    BY <1>3, <1>6, <2>1
  <2> QED
    BY <1>2, <1>3, <1>4, <1>8, <2>1, <2>2, <2>3 DEF CodeQueues
<1> QED
  BY <1>7, <1>8

(* ... and to the formatter and the bytes.                                   *)
LEMMA PushBytes ==
    ASSUME LineInv, PushEdge
    PROVE  /\ bytes'.q = IF Sends THEN Append(bytes.q, [val |-> [code |-> format.code, byte |-> format.byte], age |-> 0])
                         ELSE bytes.q
           /\ Fetches => ~Sends /\ format.code = 0 /\ format' = [code |-> Head(codes), byte |-> 1]
           /\ Sends => format.code # 0
           /\ Sends /\ format.byte = InfoBytes => format' = [code |-> 0, byte |-> 1]
           /\ Sends /\ format.byte # InfoBytes => format' = [code |-> format.code, byte |-> format.byte + 1]
           /\ ~Sends /\ ~Fetches => format' = format
           /\ format \in [code : Nat, byte : 1..InfoBytes]
           /\ txEdges > 0 /\ txEdges' = 0 /\ sent' = sent
<1>1. /\ format' = FormatNext /\ txEdges \in TxRatios /\ txEdges' = 0 /\ sent' = sent
      /\ bytes' = LET f == WriterEdge(bytes)
                  IN  IF Sends THEN Put(f, [code |-> format.code, byte |-> format.byte])
                      ELSE f
  BY DEF PushEdge
<1>2. format \in [code : Nat, byte : 1..InfoBytes] /\ bytes \in [q : Seq(Entries), back : {bytes.back}]
  BY DEF LineInv, QueueTypes
<1>3. PICK back : WriterEdge(bytes) = [bytes EXCEPT !.back = back]
  BY DEF WriterEdge
<1>4. bytes'.q = IF Sends THEN Append(bytes.q, [val |-> [code |-> format.code, byte |-> format.byte], age |-> 0])
                 ELSE bytes.q
  BY <1>1, <1>2, <1>3 DEF Put
<1>5. txEdges > 0
  BY <1>1, Bounds
<1> QED
  BY <1>1, <1>2, <1>4, <1>5 DEF FormatNext, Fetches, Sends

LEMMA FramedAgain ==
    ASSUME NEW q \in Seq(Entries), NEW p \in Seq(Entries), Len(p) = Len(q),
           \A i \in 1..Len(q) : p[i].val = q[i].val,
           NEW due, NEW next, Framed(q, due, next)
    PROVE  Framed(p, due, next)
BY DEF Framed

LEMMA FramedTail ==
    ASSUME NEW q \in Seq(Entries), Len(q) > 0, NEW due, NEW next, Framed(q, due, next)
    PROVE  Framed(Tail(q), FollowedBy(q[1].val), next)
<1>1. /\ Len(q) \in Nat \ {0} /\ q # <<>>
      /\ Tail(q) \in Seq(Entries) /\ Len(Tail(q)) = Len(q) - 1
      /\ \A i \in 1..Len(q) - 1 : Tail(q)[i] = q[i + 1]
  OBVIOUS
<1> DEFINE t == Tail(q)
           n == Len(q)
<1>2. /\ n \in Nat \ {0} /\ Len(t) = n - 1 /\ \A i \in 1..n - 1 : t[i] = q[i + 1]
      /\ \A i \in 1..n : /\ FollowedBy(q[i].val) <= next
                         /\ \A j \in i + 1..n : FollowedBy(q[i].val) <= q[j].val.code
      /\ \A i \in 1..n - 1 : q[i + 1].val.code = FollowedBy(q[i].val)
      /\ next = FollowedBy(q[n].val)
  BY <1>1 DEF Framed
<1> HIDE DEF t, n
<1>3. ASSUME NEW i \in 1..n - 1
      PROVE  /\ FollowedBy(t[i].val) <= next
             /\ \A j \in i + 1..n - 1 : FollowedBy(t[i].val) <= t[j].val.code
  <2>1. i + 1 \in 1..n /\ t[i] = q[i + 1]
    BY <1>2
  <2>2. ASSUME NEW j \in i + 1..n - 1 PROVE FollowedBy(t[i].val) <= t[j].val.code
    <3>1. j + 1 \in (i + 1) + 1..n /\ t[j] = q[j + 1]
      BY <1>2, <2>2
    <3> QED
      BY <1>2, <2>1, <3>1
  <2> QED
    BY <1>2, <2>1, <2>2
<1>4. \A i \in 1..(n - 1) - 1 : t[i + 1].val.code = FollowedBy(t[i].val)
  <2> SUFFICES ASSUME NEW i \in 1..(n - 1) - 1 PROVE t[i + 1].val.code = FollowedBy(t[i].val)
    OBVIOUS
  <2>1. i \in 1..n - 1 /\ i + 1 \in 1..n - 1
    BY <1>2
  <2>2. t[i] = q[i + 1] /\ t[i + 1] = q[(i + 1) + 1] /\ q[(i + 1) + 1].val.code = FollowedBy(q[i + 1].val)
    BY <1>2, <2>1
  <2> QED
    BY <2>2
<1>5. n - 1 > 0 => t[1].val.code = FollowedBy(q[1].val)
  <2>1. n - 1 > 0 => 1 \in 1..n - 1 /\ 1 + 1 \in 1..n /\ t[1] = q[1 + 1]
    BY <1>2
  <2> QED
    BY <1>2, <2>1
<1>6. next = IF n - 1 = 0 THEN FollowedBy(q[1].val) ELSE FollowedBy(t[n - 1].val)
  <2>1. CASE n = 1
    BY <1>2, <2>1
  <2>2. CASE n # 1
    <3>1. n - 1 \in 1..n - 1 /\ (n - 1) + 1 = n /\ n - 1 # 0
      BY <1>2, <2>2
    <3> QED
      BY <1>2, <3>1
  <2> QED
    BY <2>1, <2>2
<1>7. Framed(t, FollowedBy(q[1].val), next)
  BY <1>2, <1>3, <1>4, <1>5, <1>6 DEF Framed
<1> QED
  BY <1>7 DEF t

LEMMA FramedAppend ==
    ASSUME NEW q \in Seq(Entries), NEW e \in Entries, NEW due, Framed(q, due, e.val.code)
    PROVE  Framed(Append(q, e), due, FollowedBy(e.val))
<1>1. /\ Len(Append(q, e)) = Len(q) + 1 /\ Append(q, e)[Len(q) + 1] = e
      /\ \A i \in 1..Len(q) : Append(q, e)[i] = q[i] /\ q[i] \in Entries
      /\ Append(q, e) \in Seq(Entries) /\ Len(q) \in Nat
  OBVIOUS
<1> DEFINE a == Append(q, e)
           n == Len(q)
           c == e.val.code
<1>2. /\ n \in Nat /\ Len(a) = n + 1 /\ a[n + 1] = e /\ \A i \in 1..n : a[i] = q[i] /\ q[i] \in Entries
      /\ \A i \in 1..n : /\ FollowedBy(q[i].val) <= c
                         /\ \A j \in i + 1..n : FollowedBy(q[i].val) <= q[j].val.code
      /\ \A i \in 1..n - 1 : q[i + 1].val.code = FollowedBy(q[i].val)
      /\ c = IF n = 0 THEN due ELSE FollowedBy(q[n].val)
      /\ n > 0 => q[1].val.code = due
  BY <1>1 DEF Framed
<1>3. /\ c \in Nat /\ FollowedBy(e.val) \in Nat /\ c <= FollowedBy(e.val)
      /\ \A x \in Entries : FollowedBy(x.val) \in Nat
  BY DEF Entries, FollowedBy
<1> HIDE DEF a, n
<1>4. ASSUME NEW i \in 1..n + 1
      PROVE  /\ FollowedBy(a[i].val) <= FollowedBy(e.val)
             /\ \A j \in i + 1..n + 1 : FollowedBy(a[i].val) <= a[j].val.code
  <2>1. CASE i = n + 1
    BY <1>2, <1>3, <2>1
  <2>2. CASE i # n + 1
    <3>1. i \in 1..n /\ a[i] = q[i] /\ q[i] \in Entries
      BY <1>2, <2>2
    <3>2. FollowedBy(a[i].val) \in Nat /\ FollowedBy(a[i].val) <= c
      BY <1>2, <1>3, <3>1
    <3>3. ASSUME NEW j \in i + 1..n + 1 PROVE FollowedBy(a[i].val) <= a[j].val.code
      <4>1. CASE j = n + 1
        BY <1>2, <3>2, <4>1
      <4>2. CASE j # n + 1
        <5>1. j \in i + 1..n /\ j \in 1..n
          BY <1>2, <3>1, <4>2
        <5> QED
          BY <1>2, <3>1, <5>1
      <4> QED
        BY <4>1, <4>2
    <3> HIDE DEF c
    <3>4. FollowedBy(a[i].val) <= FollowedBy(e.val)
      BY <1>3, <3>2
    <3> QED
      BY <3>3, <3>4
  <2> QED
    BY <2>1, <2>2
<1>5. ASSUME NEW i \in 1..n PROVE a[i + 1].val.code = FollowedBy(a[i].val)
  <2>1. CASE i = n
    BY <1>2, <2>1
  <2>2. CASE i # n
    <3>1. i \in 1..n - 1 /\ i + 1 \in 1..n
      BY <1>2, <2>2
    <3> QED
      BY <1>2, <3>1
  <2> QED
    BY <2>1, <2>2
<1>6. a[1].val.code = due
  BY <1>2
<1>7. /\ Len(a) > 0 /\ 1..Len(a) = 1..n + 1 /\ 1..Len(a) - 1 = 1..n /\ Len(a) # 0
      /\ a[Len(a)] = e /\ \A i : i + 1..Len(a) = i + 1..n + 1
  BY <1>2
<1>8. Framed(a, due, FollowedBy(e.val))
  BY <1>4, <1>5, <1>6, <1>7 DEF Framed
<1> QED
  BY <1>8 DEF a

LEMMA PushNumbers == ASSUME LineInv, CodeInv, PushEdge PROVE CodeTypes' /\ Numbers'
<1> DEFINE n == Len(queued.q)
           a == Len(acks.q)
<1>1. CodeTypes /\ Numbers /\ sent' = sent /\ txEdges' = 0
  BY DEF CodeInv, PushEdge
<1>2. /\ n \in Nat /\ a \in Nat /\ Fetched = sent + n /\ sent = Returned + a
      /\ \A i \in 1..n : queued.q[i].val = sent + i
      /\ \A i \in 1..a : acks.q[i].val = Returned + i
      /\ sent \in Nat /\ Returned \in Nat /\ Fetched \in Nat /\ acked \in Nat /\ acked <= Returned
  BY <1>1, Amounts DEF Numbers
<1>3. /\ Fetched' = IF Fetches THEN Fetched + 1 ELSE Fetched
      /\ Len(queued'.q) = n + (IF Fetches THEN 1 ELSE 0)
      /\ \A i \in 1..n : queued'.q[i] = queued.q[i]
      /\ Fetches => queued'.q[n + 1] = [val |-> Fetched + 1, age |-> 0]
      /\ queued' \in CodeQueues
  BY PushKeepsCodes, PushQueues
<1>4. /\ acks' \in CodeQueues /\ acked' = Returned /\ done' \in {0, acked' + 1}
      /\ Returned' = Returned + Step /\ Len(acks'.q) = a - Step
      /\ \A i \in 1..a - Step : acks'.q[i].val = acks.q[i + Step].val
      /\ Arrives => a > 0
  BY PushAcks
<1> HIDE DEF n, a
<1>5. CodeTypes'
  BY <1>1, <1>2, <1>3, <1>4 DEF CodeTypes
<1>6. Fetched' = sent' + Len(queued'.q)
  BY <1>1, <1>2, <1>3
<1>7. \A i \in 1..Len(queued'.q) : queued'.q[i].val = sent' + i
  <2> SUFFICES ASSUME NEW i \in 1..Len(queued'.q) PROVE queued'.q[i].val = sent + i
    BY <1>1
  <2>1. CASE i \in 1..n
    BY <1>2, <1>3, <2>1
  <2>2. CASE i \notin 1..n
    <3>1. Fetches /\ i = n + 1
      BY <1>2, <1>3, <2>2
    <3>2. queued'.q[i].val = Fetched + 1
      BY <1>3, <3>1
    <3> QED
      BY <1>2, <3>1, <3>2
  <2> QED
    BY <2>1, <2>2
<1>8. sent' = Returned' + Len(acks'.q)
  BY <1>1, <1>2, <1>4 DEF Step
<1>9. \A i \in 1..Len(acks'.q) : acks'.q[i].val = Returned' + i
  <2> SUFFICES ASSUME NEW i \in 1..a - Step PROVE acks'.q[i].val = Returned' + i
    BY <1>4
  <2>1. i + Step \in 1..a
    BY <1>2 DEF Step
  <2>2. acks'.q[i].val = Returned + (i + Step)
    BY <1>2, <1>4, <2>1
  <2> QED
    BY <1>2, <1>4, <2>2 DEF Step
<1>10. pushed' <= acked' + MaxOutstanding
  <2>1. pushed' <= acked + MaxOutstanding /\ pushed' \in Nat
    BY PushKeepsCodes
  <2> QED
    BY <1>2, <1>4, <2>1, Bounds
<1>11. /\ push' \in {0, pushed'} /\ format'.code \in {0, Fetched'}
       /\ \A i \in 1..Len(codes') : codes'[i] = Fetched' + i
  BY PushKeepsCodes
<1> QED
  BY <1>4, <1>5, <1>6, <1>7, <1>8, <1>9, <1>10, <1>11 DEF Numbers

LEMMA PushFramed ==
    ASSUME LineInv, CodeInv, PushEdge PROVE Framed(bytes.q, sent + 1, NextCode)'
<1> DEFINE e == [val |-> [code |-> format.code, byte |-> format.byte], age |-> 0]
<1>1. /\ bytes'.q = IF Sends THEN Append(bytes.q, e) ELSE bytes.q
      /\ format \in [code : Nat, byte : 1..InfoBytes] /\ sent' = sent
  BY PushBytes
<1>2. Framed(bytes.q, sent + 1, NextCode) /\ format.code \in {0, Fetched} /\ Fetched \in Nat
  BY Amounts DEF CodeInv, Numbers
<1>3. CASE Fetches
  <2>1. /\ format.code = 0 /\ format'.code = Fetched + 1 /\ bytes'.q = bytes.q
    BY <1>1, <1>3, PushBytes, PushKeepsCodes
  <2>2. NextCode' = Fetched + 1 /\ NextCode = Fetched + 1
    BY <1>2, <2>1 DEF NextCode
  <2> QED
    BY <1>1, <1>2, <2>1, <2>2
<1>4. CASE Sends
  <2>1. /\ format.code = Fetched /\ format.code # 0 /\ ~Fetches
        /\ bytes'.q = Append(bytes.q, e) /\ NextCode = format.code
    BY <1>1, <1>2, <1>4, PushBytes DEF NextCode
  <2>2. e \in Entries /\ e.val = [code |-> format.code, byte |-> format.byte] /\ bytes.q \in Seq(Entries)
    BY <1>1, Amounts DEF Entries
  <2>3. NextCode' = FollowedBy(e.val)
    <3>1. Fetched' = Fetched
      BY <2>1, PushKeepsCodes
    <3>2. CASE format.byte = InfoBytes
      BY <1>4, <2>1, <2>2, <3>1, <3>2, PushBytes DEF NextCode, FollowedBy
    <3>3. CASE format.byte # InfoBytes
      BY <1>4, <2>1, <2>2, <3>1, <3>3, PushBytes DEF NextCode, FollowedBy
    <3> QED
      BY <3>2, <3>3
  <2>4. Framed(Append(bytes.q, e), sent + 1, FollowedBy(e.val))
    <3>1. Framed(bytes.q, sent + 1, e.val.code)
      BY <1>2, <2>1, <2>2
    <3> HIDE DEF e
    <3> QED
      BY <2>2, <3>1, FramedAppend
  <2> QED
    BY <1>1, <2>1, <2>3, <2>4
<1>5. CASE ~Sends /\ ~Fetches
  <2>1. format' = format /\ bytes'.q = bytes.q /\ Fetched' = Fetched
    BY <1>1, <1>5, PushBytes, PushKeepsCodes
  <2> QED
    BY <1>1, <1>2, <2>1 DEF NextCode
<1> QED
  BY <1>3, <1>4, <1>5

LEMMA PushBeside == ASSUME LineInv, CodeInv, PushEdge PROVE Beside'
<1> DEFINE e == [val |-> [code |-> format.code, byte |-> format.byte], age |-> 0]
           n == Len(queued.q)
<1>1. /\ sent' = sent /\ n \in Nat /\ queued.q \in Seq(Codes)
      /\ Len(queued'.q) = n + (IF Fetches THEN 1 ELSE 0)
      /\ \A i \in 1..n : queued'.q[i] = queued.q[i]
  BY Amounts, PushQueues, PushBytes
<1>2. Len(queued'.q) \in Nat /\ n <= Len(queued'.q)
  <2> HIDE DEF n
  <2> QED
    BY <1>1
<1>3. ASSUME NEW c, NEW x \in Int, NEW y \in Int, Ahead(c, x), y <= x
      PROVE  \E i \in 1..Len(queued'.q) :
                c = sent' + i /\ (queued'.q[i].age = CodeLag \/ queued'.q[i].age >= y)
  <2>1. PICK i \in 1..n : c = sent + i /\ (queued.q[i].age = CodeLag \/ queued.q[i].age >= x)
    BY <1>3 DEF Ahead
  <2>2. queued.q[i] \in Codes
    BY <1>1, <2>1
  <2>3. queued.q[i].age \in Nat
    BY <2>2, Bounds DEF Codes
  <2> HIDE DEF n
  <2>4. i \in 1..Len(queued'.q) /\ queued'.q[i] = queued.q[i]
    BY <1>1, <1>2, <2>1
  <2>5. queued'.q[i].age = CodeLag \/ queued'.q[i].age >= y
    BY <1>3, <2>1, <2>3, <2>4
  <2> QED
    BY <1>1, <2>1, <2>4, <2>5
<1>4. /\ format \in [code : Nat, byte : 1..InfoBytes] /\ txEdges \in Nat /\ txEdges > 0 /\ txEdges' = 0
      /\ bytes.q \in Seq(Entries) /\ Beside /\ InfoBytes \in Nat /\ Fetched \in Nat /\ sent \in Nat
      /\ Fetched = sent + n
  BY Amounts, Bounds, PushBytes DEF CodeInv, CodeTypes, Numbers
<1>5. ASSUME NEW k \in 1..Len(bytes'.q)
      PROVE  Ahead(bytes.q[k].val.code, bytes.q[k].val.byte + bytes.q[k].age)'
  <2>1. CASE k \in 1..Len(bytes.q)
    <3>1. bytes'.q[k] = bytes.q[k] /\ bytes.q[k] \in Entries
      <4>1. bytes'.q = bytes.q \/ bytes'.q = Append(bytes.q, e)
        BY PushBytes
      <4>2. bytes.q \in Seq(Entries)
        BY <1>4
      <4> HIDE DEF e
      <4>3. bytes.q[k] \in Entries
        BY ONLY <2>1, <4>2
      <4>4. Append(bytes.q, e)[k] = bytes.q[k]
        BY ONLY <2>1, <4>2
      <4> QED
        BY ONLY <4>1, <4>3, <4>4
    <3>2. bytes.q[k].val.byte + bytes.q[k].age \in Int
      BY <1>4, <3>1 DEF Entries
    <3>3. Ahead(bytes.q[k].val.code, bytes.q[k].val.byte + bytes.q[k].age)
      BY <1>4, <2>1 DEF Beside
    <3> DEFINE c == bytes.q[k].val.code
               x == bytes.q[k].val.byte + bytes.q[k].age
    <3>4. bytes'.q[k].val.code = c /\ bytes'.q[k].val.byte + bytes'.q[k].age = x
      BY <3>1
    <3>5. x \in Int /\ x <= x /\ Ahead(c, x)
      BY <3>2, <3>3
    <3> HIDE DEF c, x
    <3>6. \E i \in 1..Len(queued'.q) :
             c = sent' + i /\ (queued'.q[i].age = CodeLag \/ queued'.q[i].age >= x)
      BY <1>3, <3>5
    <3> QED
      BY <3>4, <3>6 DEF Ahead
  <2>2. CASE k \notin 1..Len(bytes.q)
    <3>1. Sends /\ bytes'.q = Append(bytes.q, e) /\ format.code # 0
      BY <1>5, <2>2, PushBytes
    <3>2. k = Len(bytes.q) + 1 /\ bytes'.q[k] = e
      BY <1>4, <1>5, <2>2, <3>1
    <3>3. Ahead(format.code, format.byte - 1 + txEdges)
      BY <1>4, <3>1 DEF Beside
    <3>4. /\ format.byte - 1 + txEdges \in Int /\ format.byte + 0 \in Int
          /\ format.byte + 0 <= format.byte - 1 + txEdges
      BY <1>4
    <3>5. bytes'.q[k].val.code = format.code /\ bytes'.q[k].val.byte + bytes'.q[k].age = format.byte + 0
      BY <3>2
    <3> QED
      BY <1>3, <3>3, <3>4, <3>5 DEF Ahead
  <2> QED
    BY <2>1, <2>2
<1>6. ASSUME format'.code # 0 PROVE Ahead(format.code, format.byte - 1 + txEdges)'
  <2>1. CASE Fetches
    <3>1. format'.code = Fetched + 1 /\ format'.byte = 1 /\ queued'.q[n + 1].age = 0 /\ n + 1 \in 1..Len(queued'.q)
      BY <1>1, <2>1, PushBytes, PushKeepsCodes, PushQueues
    <3>2. format'.code = sent' + (n + 1)
      BY <1>1, <1>4, <3>1
    <3>3. queued'.q[n + 1].age >= format'.byte - 1 + txEdges'
      BY <1>4, <3>1
    <3> QED
      BY <3>1, <3>2, <3>3 DEF Ahead
  <2>2. CASE Sends
    <3>1. /\ format.byte # InfoBytes /\ format.code # 0
          /\ format'.code = format.code /\ format'.byte = format.byte + 1
      BY <1>6, <2>2, PushBytes
    <3>2. Ahead(format.code, format.byte - 1 + txEdges)
      BY <1>4, <3>1 DEF Beside
    <3>3. /\ format.byte - 1 + txEdges \in Int /\ format'.byte - 1 + txEdges' \in Int
          /\ format'.byte - 1 + txEdges' <= format.byte - 1 + txEdges
      BY <1>4, <3>1
    <3>4. \E i \in 1..Len(queued'.q) :
             /\ format.code = sent' + i
             /\ queued'.q[i].age = CodeLag \/ queued'.q[i].age >= format'.byte - 1 + txEdges'
      BY <1>3, <3>2, <3>3
    <3> QED
      BY <3>1, <3>4 DEF Ahead
  <2>3. CASE ~Fetches /\ ~Sends
    <3>1. format' = format
      BY <2>3, PushBytes
    <3>2. Ahead(format.code, format.byte - 1 + txEdges)
      BY <1>4, <1>6, <3>1 DEF Beside
    <3>3. /\ format.byte - 1 + txEdges \in Int /\ format'.byte - 1 + txEdges' \in Int
          /\ format'.byte - 1 + txEdges' <= format.byte - 1 + txEdges
      BY <1>4, <3>1
    <3> QED
      BY <1>3, <3>1, <3>2, <3>3 DEF Ahead
  <2> QED
    BY <2>1, <2>2, <2>3
<1> QED
  BY <1>5, <1>6 DEF Beside

LEMMA PushPaired == ASSUME LineInv, CodeInv, PushEdge PROVE Paired'
<1> DEFINE L == Len(queued.back)
           a == Len(acks.q)
           M == Len(queued'.back)
           d == Len(acks'.q)
<1>1. PICK n \in 0..L :
         /\ M = L - n
         /\ \A i \in 1..L - n : queued.back[n + i] < CrossEdges /\ queued'.back[i] = queued.back[n + i] + 1
  BY PushQueues
<1>2. /\ L \in Nat /\ a \in Nat /\ L <= a /\ d = a - Step /\ Step \in {0, 1}
      /\ \A j \in 0..L - 1 : queued.back[L - j] = acks.q[a - j].age
      /\ Step = 1 => a > 0 /\ acks.q[1].age >= CrossEdges
      /\ \A i \in 1..a - Step :
            acks.q[i + Step].age < CodeLag => acks'.q[i].age = acks.q[i + Step].age + 1
  <2>1. L \in Nat /\ a \in Nat /\ L <= a
        /\ \A j \in 0..L - 1 : queued.back[L - j] = acks.q[a - j].age
    BY Amounts DEF CodeInv, Paired
  <2>2. Step \in {0, 1} /\ (Step = 1 => Arrives)
    BY DEF Step
  <2>3. /\ d = a - Step /\ (Arrives => a > 0 /\ acks.q[1].age >= CrossEdges)
        /\ \A i \in 1..a - Step :
            acks.q[i + Step].age < CodeLag => acks'.q[i].age = acks.q[i + Step].age + 1
    BY PushAcks
  <2> QED
    BY <2>1, <2>2, <2>3
<1>3. Falling(queued'.back)
  BY PushQueues
<1>4. \A i \in 1..L : queued.back[i] \in 0..CrossEdges
  <2> DEFINE V == 0..CrossEdges
  <2>1. queued.back \in Seq(V)
    BY Amounts DEF CodeQueues
  <2> HIDE DEF V
  <2>2. \A i \in 1..L : queued.back[i] \in V
    BY <2>1
  <2> QED
    BY <2>2 DEF V
<1> HIDE DEF L, a, M, d
<1>5. M <= d
  <2>1. SUFFICES ASSUME M > d PROVE FALSE
    BY <1>1, <1>2
  <2>2. n = 0 /\ L = a /\ Step = 1 /\ L > 0
    BY <1>1, <1>2, <2>1
  <2>3. 1 \in 1..L - n /\ n + 1 = 1 /\ L - 1 \in 0..L - 1 /\ L - (L - 1) = 1 /\ a - (L - 1) = 1
    BY <1>2, <2>2
  <2>4. queued.back[1] < CrossEdges /\ queued.back[1] = acks.q[1].age
    BY <1>1, <1>2, <2>3
  <2>5. queued.back[1] \in 0..CrossEdges
    BY <1>4, <2>2, <1>2
  <2> QED
    BY <1>2, <2>2, <2>4, <2>5, Bounds
<1>6. ASSUME NEW j \in 0..M - 1 PROVE queued'.back[M - j] = acks'.q[d - j].age
  <2>1. /\ M - j \in 1..L - n /\ n + (M - j) = L - j /\ j \in 0..L - 1
        /\ d - j \in 1..a - Step /\ d - j + Step = a - j /\ L - j \in 1..L
    BY <1>1, <1>2, <1>5
  <2>2. queued.back[L - j] < CrossEdges /\ queued'.back[M - j] = queued.back[L - j] + 1
    BY <1>1, <2>1
  <2>3. queued.back[L - j] = acks.q[a - j].age
    BY <1>2, <2>1
  <2>4. acks.q[a - j].age < CodeLag
    BY <1>4, <2>1, <2>2, <2>3, Bounds
  <2>5. acks'.q[d - j].age = acks.q[a - j].age + 1
    BY <1>2, <2>1, <2>4
  <2> QED
    BY <2>2, <2>3, <2>5
<1> QED
  BY <1>3, <1>5, <1>6 DEF Paired, M, d

(* Only codes that were fetched are in the bytes.                            *)
LEMMA BytesAreFetched ==
    ASSUME LineInv, CodeInv, NEW k \in 1..Len(bytes.q)
    PROVE  /\ bytes.q[k].val.code \in Nat /\ bytes.q[k].val.code <= Fetched
           /\ bytes.q[k].age \in Nat
<1>1. PICK i \in 1..Len(queued.q) : bytes.q[k].val.code = sent + i
  BY DEF CodeInv, Beside, Ahead
<1>2. Fetched = sent + Len(queued.q)
  BY DEF CodeInv, Numbers
<1>3. bytes.q[k] \in Entries
  BY Amounts
<1> DEFINE n == Len(queued.q)
<1>4. n \in Nat /\ i \in 1..n /\ Fetched = sent + n
  BY <1>1, <1>2, Amounts
<1> HIDE DEF n
<1>5. bytes.q[k].val.code <= Fetched
  BY <1>1, <1>4, Amounts
<1> QED
  BY <1>3, <1>5 DEF Entries

LEMMA BackTyped ==
    ASSUME LineInv, CodeInv, NEW i \in 1..Len(acks.back) PROVE acks.back[i] \in 0..CrossEdges
<1> DEFINE V == 0..CrossEdges
<1>1. acks.back \in Seq(V)
  BY Amounts DEF CodeQueues
<1> HIDE DEF V
<1>2. acks.back[i] \in V
  BY <1>1
<1> QED
  BY <1>2 DEF V

LEMMA PushLearnt == ASSUME LineInv, CodeInv, PushEdge PROVE Learnt'
<1> DEFINE r == Len(acks.back)
           e == [val |-> [code |-> format.code, byte |-> format.byte], age |-> 0]
<1>1. /\ r \in Nat /\ Step \in {0, 1} /\ Len(acks'.back) = r + Step
      /\ acked' = Returned /\ Returned' = Returned + Step /\ txEdges' = 0 /\ txEdges > 0
      /\ Falling(acks'.back) /\ \A i \in 1..r : acks'.back[i] = acks.back[i]
  BY Amounts, PushAcks, PushBytes DEF Step
<1>2. \A i \in 1..r :
         /\ acks.back[i] > 0
         /\ \A k \in 1..Len(bytes.q) :
               bytes.q[k].val.code >= Room(i) + MaxOutstanding => bytes.q[k].age < acks.back[i]
  BY <1>1 DEF CodeInv, Learnt
<1>3. Fetched <= Returned + MaxOutstanding
  <2> DEFINE m == Len(codes)
  <2>1. m \in Nat /\ Fetched + m + (IF push = 0 THEN 0 ELSE 1) = pushed
    BY Amounts
  <2>2. /\ Fetched \in Nat /\ pushed \in Nat /\ acked \in Nat /\ Returned \in Nat
        /\ MaxOutstanding \in Nat /\ pushed <= acked + MaxOutstanding /\ acked <= Returned
    BY Amounts, Bounds
  <2> HIDE DEF m
  <2>3. Fetched <= pushed
    BY ONLY <2>1, <2>2
  <2> QED
    BY ONLY <2>2, <2>3
<1>4. Returned \in Nat /\ Fetched \in Nat /\ MaxOutstanding \in Nat
  BY Amounts, Bounds
<1>5. ASSUME NEW i \in 1..Len(acks'.back)
      PROVE  Room(i)' = Returned - r + i
  BY <1>1, <1>4 DEF Room
<1>6. ASSUME NEW k \in 1..Len(bytes'.q)
      PROVE  \/ k \in 1..Len(bytes.q) /\ bytes'.q[k] = bytes.q[k]
             \/ Sends /\ bytes'.q[k] = e
  <2>1. bytes'.q = IF Sends THEN Append(bytes.q, e) ELSE bytes.q
    BY PushBytes
  <2>2. bytes.q \in Seq(Entries)
    BY Amounts
  <2> HIDE DEF e
  <2> QED
    BY <2>1, <2>2, <1>6
<1>7. ASSUME NEW k \in 1..Len(bytes'.q)
      PROVE  bytes'.q[k].val.code \in Nat /\ bytes'.q[k].val.code <= Fetched
  <2>1. CASE k \in 1..Len(bytes.q) /\ bytes'.q[k] = bytes.q[k]
    BY <2>1, BytesAreFetched
  <2>2. CASE Sends /\ bytes'.q[k] = e
    <3>1. bytes'.q[k].val.code = format.code /\ format.code \in {0, Fetched}
      BY <2>2 DEF CodeInv, Numbers
    <3> QED
      BY <1>4, <3>1
  <2> QED
    BY <1>6, <2>1, <2>2
<1>8. ASSUME NEW i \in 1..Len(acks'.back)
      PROVE  /\ Room(i)' <= acked' \/ txEdges' > 0 => acks'.back[i] > 0
             /\ \A k \in 1..Len(bytes'.q) :
                   bytes'.q[k].val.code >= Room(i)' + MaxOutstanding =>
                       bytes'.q[k].age < acks'.back[i]
  <2>0. Room(i)' = Returned - r + i /\ i \in Nat
    BY <1>1, <1>5
  <2>1. CASE i \in 1..r
    <3>1. acks'.back[i] = acks.back[i] /\ acks.back[i] > 0 /\ Room(i)' = Room(i)
      BY <1>1, <1>2, <2>0, <2>1 DEF Room
    <3>2. ASSUME NEW k \in 1..Len(bytes'.q),
                 bytes'.q[k].val.code >= Room(i)' + MaxOutstanding
          PROVE  bytes'.q[k].age < acks'.back[i]
      <4>1. CASE k \in 1..Len(bytes.q) /\ bytes'.q[k] = bytes.q[k]
        BY <1>2, <2>1, <3>1, <3>2, <4>1
      <4>2. CASE Sends /\ bytes'.q[k] = e
        <5>1. bytes'.q[k].age = 0
          BY <4>2
        <5> QED
          BY <3>1, <5>1
      <4> QED
        BY <1>6, <4>1, <4>2
    <3> QED
      BY <3>1, <3>2
  <2>2. CASE i \notin 1..r
    <3> HIDE DEF r, e
    <3>1. i = r + 1 /\ Step = 1 /\ Room(i)' = Returned + 1
      BY <1>1, <1>4, <2>0, <2>2
    <3>2. ~(Room(i)' <= acked') /\ ~(txEdges' > 0)
      BY <1>1, <1>4, <3>1
    <3>3. ASSUME NEW k \in 1..Len(bytes'.q) PROVE ~(bytes'.q[k].val.code >= Room(i)' + MaxOutstanding)
      BY <1>3, <1>4, <1>7, <3>1
    <3> QED
      BY <3>2, <3>3
  <2> QED
    BY <2>1, <2>2
<1> QED
  BY <1>1, <1>8 DEF Learnt

LEMMA PushOverflow == ASSUME LineInv, CodeInv, PushEdge PROVE overflow' = {}
<1>1. /\ overflow' = overflow
             \cup {c \in {"code queue"} : push # 0 /\ Len(codes) = CodeDepth}
             \cup {c \in {"crossing"} : Queues # <<>> /\ Crowded(queued, CodeDepth)}
             \cup {c \in {"order"} : done \notin {0, acked + 1}}
  BY DEF PushEdge
<1>2. overflow = {} /\ done \in {0, acked + 1}
  BY DEF CodeInv, Numbers
<1>3. ~(push # 0 /\ Len(codes) = CodeDepth)
  <2> DEFINE m == Len(codes)
  <2>1. m \in Nat /\ (push # 0 => m < CodeDepth)
    BY RoomForCodes, Amounts
  <2> HIDE DEF m
  <2>2. ~(push # 0 /\ m = CodeDepth)
    BY <2>1, Bounds
  <2> QED
    BY <2>2 DEF m
<1>4. ~(Queues # <<>> /\ Crowded(queued, CodeDepth))
  BY RoomForCodes DEF Queues
<1> QED
  BY <1>1, <1>2, <1>3, <1>4

LEMMA PushKeepsAll == ASSUME LineInv, CodeInv, PushEdge PROVE CodeInv'
BY PushNumbers, PushFramed, PushBeside, PushPaired, PushLearnt, PushOverflow DEF CodeInv

(* The last byte of a frame meets its code, and room for the acknowledgement.*)
LEMMA CodeIsThere ==
    ASSUME LineInv, CodeInv, InfoValid, InfoLast
    PROVE  /\ Offered(queued, CodeLag) /\ Value(queued) = sent + 1 /\ Len(queued.q) > 0
           /\ Value(bytes).code = sent + 1 /\ ~Crowded(acks, CodeDepth)
<1>1. /\ bytes.q # <<>> /\ bytes.q[1].age >= CrossEdges /\ bytes.q[1].val.byte = InfoBytes
  BY DEF InfoValid, InfoLast, Offered, Value
<1>2. 1 \in 1..Len(bytes.q) /\ Len(bytes.q) > 0
  BY <1>1, Amounts
<1>3. bytes.q[1].val.code = sent + 1 /\ bytes.q[1].age \in Nat
  BY <1>2, BytesAreFetched DEF CodeInv, Framed
<1>4. PICK i \in 1..Len(queued.q) :
         /\ sent + 1 = sent + i
         /\ queued.q[i].age = CodeLag \/ queued.q[i].age >= InfoBytes + bytes.q[1].age
  BY <1>1, <1>2, <1>3 DEF CodeInv, Beside, Ahead
<1>5. i = 1
  BY <1>4, Amounts
<1>6. queued.q[1] \in Codes /\ Len(queued.q) > 0 /\ queued.q # <<>>
  BY <1>4, <1>5, Amounts
<1>7. queued.q[1].age >= CodeLag
  BY <1>1, <1>3, <1>4, <1>5, <1>6, Bounds DEF Codes
<1>8. Offered(queued, CodeLag) /\ Value(queued) = sent + 1
  BY <1>4, <1>5, <1>6, <1>7 DEF Offered, Value, CodeInv, Numbers
<1>9. Value(bytes).code = sent + 1
  BY <1>3 DEF Value
<1>10. ~Crowded(acks, CodeDepth)
  <2> DEFINE a == Len(acks.q)
             r == Len(acks.back)
             m == Len(codes)
             n == Len(queued.q)
  <2>1. /\ a \in Nat /\ r \in Nat /\ m \in Nat /\ n \in Nat /\ n > 0
        /\ sent = Returned + a /\ Fetched = sent + n
        /\ Fetched + m + (IF push = 0 THEN 0 ELSE 1) = pushed
        /\ pushed <= acked + MaxOutstanding /\ acked <= Returned
        /\ sent \in Nat /\ Returned \in Nat /\ Fetched \in Nat /\ pushed \in Nat /\ acked \in Nat
        /\ MaxOutstanding \in Nat /\ CodeDepth \in Nat /\ MaxOutstanding < CodeDepth
    BY <1>6, Amounts, Bounds DEF CodeInv, Numbers
  <2>2. ~(r > 0 /\ sent + 1 >= Returned - r + 1 + MaxOutstanding)
    <3> SUFFICES ASSUME r > 0, sent + 1 >= Returned - r + 1 + MaxOutstanding PROVE FALSE
      OBVIOUS
    <3>1. 1 \in 1..Len(acks.back)
      BY <2>1
    <3>2. bytes.q[1].age < acks.back[1]
      BY <1>2, <1>3, <3>1 DEF CodeInv, Learnt, Room
    <3>3. acks.back[1] \in 0..CrossEdges
      BY <3>1, BackTyped
    <3> QED
      BY <1>1, <1>3, <3>2, <3>3, Bounds
  <2>3. Crowded(acks, CodeDepth) <=> a + r >= CodeDepth
    BY DEF Crowded
  <2> HIDE DEF a, r, m, n
  <2>4. Fetched <= pushed
    BY ONLY <2>1
  <2>5. a + r < CodeDepth
    BY ONLY <2>1, <2>2, <2>4
  <2> QED
    BY <2>1, <2>3, <2>5
<1> QED
  BY <1>6, <1>8, <1>9, <1>10

(* What an edge of the MAC does: a byte may leave, and with the last one of  *)
(* a frame its code.                                                         *)
MacMoves(p, l) ==
    /\ p \in {0, 1} /\ l \in {0, 1} /\ l <= p
    /\ sent' = sent + l /\ txEdges' = txEdges + 1 /\ overflow' = {}
    /\ push' = push /\ codes' = codes /\ format' = format
    /\ done' = done /\ pushed' = pushed /\ acked' = acked
BytesMove(p) ==
    /\ p = 1 => Len(bytes.q) > 0
    /\ bytes'.q = IF p = 1 THEN Tail(ReaderEdge(bytes).q) ELSE ReaderEdge(bytes).q
CodesMove(l) ==
    /\ l = 1 => InfoValid /\ InfoLast
    /\ queued' = IF l = 1 THEN Take(ReaderEdge(queued)) ELSE ReaderEdge(queued)
    /\ acks' = IF l = 1 THEN Put(WriterEdge(acks), sent + 1) ELSE WriterEdge(acks)

LEMMA MacShape ==
    ASSUME LineInv, CodeInv, MacEdge
    PROVE  \E p, l \in {0, 1} :
              /\ MacMoves(p, l) /\ BytesMove(p) /\ CodesMove(l)
              /\ p = 1 /\ l = 0 => InfoValid /\ ~InfoLast
<1>1. /\ push' = push /\ codes' = codes /\ format' = format /\ done' = done
      /\ pushed' = pushed /\ acked' = acked /\ txEdges' = txEdges + 1
      /\ InfoRests \/ (InfoValid /\ InfoByteLeaves)
  <2>1. PICK prefer \in BOOLEAN, tready \in BOOLEAN :
          LET toLog == ChooseLog(prefer)
              valid == IF toLog THEN log.valid ELSE InfoValid
              last  == IF toLog THEN log.byte = LogBytes ELSE InfoLast
              moves == valid /\ tready
          IN  \/ moves /\ ~toLog /\ InfoByteLeaves
              \/ moves /\ toLog /\ InfoRests /\ line' = LineNext("log", log.byte, last)
              \/ ~moves /\ InfoRests /\ line' = line
    BY DEF MacEdge
  <2>2. InfoRests \/ (InfoValid /\ InfoByteLeaves)
    BY <2>1
  <2> QED
    BY <2>2 DEF MacEdge
<1>2. overflow = {} /\ sent \in Nat
  BY Amounts DEF CodeInv
<1>3. CASE InfoRests
  <2>1. MacMoves(0, 0) /\ BytesMove(0) /\ CodesMove(0)
    BY <1>1, <1>2, <1>3 DEF InfoRests, MacMoves, BytesMove, CodesMove
  <2> QED
    BY <2>1
<1>4. CASE InfoValid /\ InfoByteLeaves /\ InfoLast
  <2>1. /\ Offered(queued, CodeLag) /\ Value(queued) = sent + 1
        /\ Value(bytes).code = sent + 1 /\ ~Crowded(acks, CodeDepth)
    BY <1>4, CodeIsThere
  <2>2. /\ queued' = Take(ReaderEdge(queued)) /\ bytes' = Take(ReaderEdge(bytes))
        /\ acks' = Put(WriterEdge(acks), sent + 1) /\ sent' = sent + 1 /\ overflow' = {}
    BY <1>2, <1>4, <2>1 DEF InfoByteLeaves
  <2>3. Len(bytes.q) > 0
    BY <1>4, Amounts DEF InfoValid, Offered
  <2>4. bytes'.q = Tail(ReaderEdge(bytes).q)
    BY <2>2 DEF Take
  <2>5. MacMoves(1, 1) /\ BytesMove(1) /\ CodesMove(1)
    BY <1>1, <1>4, <2>2, <2>3, <2>4 DEF MacMoves, BytesMove, CodesMove
  <2> QED
    BY <2>5
<1>5. CASE InfoValid /\ InfoByteLeaves /\ ~InfoLast
  <2>1. /\ queued' = ReaderEdge(queued) /\ bytes' = Take(ReaderEdge(bytes))
        /\ acks' = WriterEdge(acks) /\ sent' = sent /\ overflow' = {}
    BY <1>2, <1>5 DEF InfoByteLeaves
  <2>2. Len(bytes.q) > 0
    BY <1>5, Amounts DEF InfoValid, Offered
  <2>3. bytes'.q = Tail(ReaderEdge(bytes).q)
    BY <2>1 DEF Take
  <2>4. MacMoves(1, 0) /\ BytesMove(1) /\ CodesMove(0)
    BY <1>1, <1>2, <2>1, <2>2, <2>3 DEF MacMoves, BytesMove, CodesMove
  <2> QED
    BY <1>5, <2>4
<1> QED
  BY <1>1, <1>3, <1>4, <1>5

LEMMA MacBytes ==
    ASSUME LineInv, CodeInv, NEW p \in {0, 1}, BytesMove(p)
    PROVE  /\ Len(bytes'.q) = Len(bytes.q) - p
           /\ \A k \in 1..Len(bytes.q) - p :
                 /\ k + p \in 1..Len(bytes.q)
                 /\ bytes'.q[k].val = bytes.q[k + p].val
                 /\ bytes'.q[k].age \in Nat /\ bytes'.q[k].age <= bytes.q[k + p].age + 1
<1> DEFINE q == ReaderEdge(bytes).q
<1>1. bytes \in [q : Seq(Entries), back : {bytes.back}]
  BY DEF LineInv, QueueTypes
<1>2. /\ q \in Seq(Entries) /\ Len(q) = Len(bytes.q) /\ Len(q) \in Nat
      /\ \A i \in 1..Len(q) : q[i].val = bytes.q[i].val
  <2>1. /\ ReaderEdge(bytes) \in [q : Seq(Entries), back : {bytes.back}] /\ Len(q) = Len(bytes.q)
        /\ \A i \in 1..Len(bytes.q) : q[i].val = bytes.q[i].val
    BY <1>1, AgeingKeeps
  <2>2. q \in Seq(Entries)
    BY <2>1
  <2> QED
    BY <2>1, <2>2, Amounts
<1>3. \A i \in 1..Len(q) : q[i].age \in Nat /\ q[i].age <= bytes.q[i].age + 1
  BY <1>1, <1>2, BytesAge
<1>4. p = 1 => Len(q) > 0
  BY <1>2 DEF BytesMove
<1>5. bytes'.q = IF p = 1 THEN Tail(q) ELSE q
  BY DEF BytesMove
<1> HIDE DEF q
<1>6. CASE p = 0
  <2>1. bytes'.q = q /\ Len(q) - 0 = Len(q) /\ \A k \in 1..Len(q) - 0 : k \in 1..Len(q) /\ k + 0 = k
    BY <1>2, <1>5, <1>6
  <2> QED
    BY <1>2, <1>3, <1>6, <2>1
<1>7. CASE p = 1
  <2>1. /\ bytes'.q = Tail(q) /\ q # <<>> /\ Len(q) > 0
    BY <1>2, <1>4, <1>5, <1>7
  <2>2. /\ Len(Tail(q)) = Len(q) - 1 /\ \A k \in 1..Len(q) - 1 : Tail(q)[k] = q[k + 1]
    BY <1>2, <2>1
  <2>3. ASSUME NEW k \in 1..Len(q) - 1 PROVE k + 1 \in 1..Len(q)
    BY <1>2
  <2> QED
    BY <1>2, <1>3, <1>7, <2>1, <2>2, <2>3
<1> QED
  BY <1>6, <1>7

LEMMA MacQueued ==
    ASSUME LineInv, CodeInv, NEW l \in {0, 1}, CodesMove(l)
    PROVE  /\ queued' \in CodeQueues
           /\ Len(queued'.q) = Len(queued.q) - l /\ (l = 1 => Len(queued.q) > 0)
           /\ \A i \in 1..Len(queued.q) - l :
                 /\ queued'.q[i].val = queued.q[i + l].val
                 /\ queued.q[i + l].age < CodeLag => queued'.q[i].age = queued.q[i + l].age + 1
                 /\ queued.q[i + l].age = CodeLag => queued'.q[i].age = CodeLag
           /\ Falling(queued'.back) /\ Len(queued'.back) = Len(queued.back) + l
           /\ \A i \in 1..Len(queued.back) : queued'.back[i] = queued.back[i]
           /\ l = 1 => queued'.back[Len(queued.back) + 1] = 0
<1> DEFINE f == ReaderEdge(queued)
<1>1. queued \in [q : Seq(Codes), back : Seq(0..CrossEdges)] /\ Falling(queued.back)
  BY Amounts DEF CodeQueues, CodeInv, Paired
<1>2. /\ f \in [q : Seq(Codes), back : Seq(0..CrossEdges)]
      /\ f.back = queued.back /\ Len(f.q) = Len(queued.q)
      /\ \A i \in 1..Len(queued.q) :
            /\ f.q[i].val = queued.q[i].val
            /\ queued.q[i].age < CodeLag => f.q[i].age = queued.q[i].age + 1
            /\ queued.q[i].age = CodeLag => f.q[i].age = CodeLag
  BY <1>1, ReaderSees
<1>3. queued' = IF l = 1 THEN Take(f) ELSE f
  BY DEF CodesMove
<1>4. l = 1 => Len(queued.q) > 0
  BY CodeIsThere DEF CodesMove
<1>5. Len(queued.q) \in Nat /\ Len(queued.back) \in Nat
  BY Amounts
<1> HIDE DEF f
<1>6. CASE l = 1
  <2>1. queued' = Take(f) /\ f.q # <<>>
    BY <1>2, <1>3, <1>4, <1>5, <1>6
  <2>2. /\ queued' \in CodeQueues /\ Len(queued'.q) = Len(f.q) - 1
        /\ \A i \in 1..Len(f.q) - 1 : queued'.q[i] = f.q[i + 1]
        /\ Falling(queued'.back) /\ Len(queued'.back) = Len(f.back) + 1
        /\ queued'.back[Len(f.back) + 1] = 0
        /\ \A i \in 1..Len(f.back) : queued'.back[i] = f.back[i]
    BY ZenonT(60), <1>1, <1>2, <2>1, TakeGives DEF CodeQueues
  <2>3. ASSUME NEW i \in 1..Len(queued.q) - 1 PROVE i + 1 \in 1..Len(queued.q) /\ i \in 1..Len(f.q) - 1
    BY <1>2, <1>5
  <2> QED
    BY <1>2, <1>4, <1>6, <2>2, <2>3
<1>7. CASE l = 0
  <2>1. queued' = f
    BY <1>3, <1>7
  <2>2. /\ Len(queued'.q) = Len(queued.q) - 0 /\ Len(queued'.back) = Len(queued.back) + 0
        /\ \A i \in 1..Len(queued.q) - 0 : i + 0 = i /\ i \in 1..Len(queued.q)
    BY <1>2, <1>5, <2>1
  <2> QED
    BY <1>1, <1>2, <1>7, <2>1, <2>2 DEF CodeQueues
<1> QED
  BY <1>6, <1>7

LEMMA MacAcks ==
    ASSUME LineInv, CodeInv, NEW l \in {0, 1}, CodesMove(l)
    PROVE  /\ acks' \in CodeQueues
           /\ Len(acks'.q) = Len(acks.q) + l
           /\ \A i \in 1..Len(acks.q) : acks'.q[i] = acks.q[i]
           /\ l = 1 => acks'.q[Len(acks.q) + 1] = [val |-> sent + 1, age |-> 0]
           /\ Falling(acks'.back)
           /\ \E n \in 0..Len(acks.back) :
                 /\ Len(acks'.back) = Len(acks.back) - n
                 /\ \A i \in 1..Len(acks.back) - n : acks'.back[i] = acks.back[n + i] + 1
<1> DEFINE f == WriterEdge(acks)
<1>1. acks \in [q : Seq(Codes), back : Seq(0..CrossEdges)] /\ Falling(acks.back)
  BY Amounts DEF CodeQueues, CodeInv, Learnt
<1>2. PICK n \in 0..Len(acks.back) :
         /\ f \in [q : Seq(Codes), back : Seq(0..CrossEdges)] /\ f.q = acks.q
         /\ Len(f.back) = Len(acks.back) - n
         /\ \A i \in 1..Len(acks.back) - n :
               acks.back[n + i] < CrossEdges /\ f.back[i] = acks.back[n + i] + 1
         /\ Falling(f.back)
  BY <1>1, WriterSees
<1>3. acks' = IF l = 1 THEN Put(f, sent + 1) ELSE f
  BY DEF CodesMove
<1>4. sent + 1 \in Nat /\ Len(acks.q) \in Nat
  BY Amounts
<1> HIDE DEF f
<1>5. CASE l = 1
  <2>1. acks' = Put(f, sent + 1)
    BY <1>3, <1>5
  <2>2. /\ acks' \in CodeQueues /\ acks'.back = f.back /\ Len(acks'.q) = Len(f.q) + 1
        /\ \A i \in 1..Len(f.q) : acks'.q[i] = f.q[i]
        /\ acks'.q[Len(f.q) + 1] = [val |-> sent + 1, age |-> 0]
    BY <1>2, <1>4, <2>1, PutGives DEF CodeQueues
  <2> QED
    BY <1>2, <1>5, <2>2
<1>6. CASE l = 0
  <2>1. acks' = f /\ Len(acks.q) + 0 = Len(acks.q)
    BY <1>3, <1>4, <1>6
  <2> QED
    BY <1>2, <1>6, <2>1 DEF CodeQueues
<1> QED
  BY <1>5, <1>6

LEMMA MacNumbers ==
    ASSUME LineInv, CodeInv, NEW p \in {0, 1}, NEW l \in {0, 1}, MacMoves(p, l), CodesMove(l)
    PROVE  CodeTypes' /\ Numbers' /\ Fetched' = Fetched /\ Returned' = Returned
<1>1. /\ sent' = sent + l /\ txEdges' = txEdges + 1 /\ push' = push /\ codes' = codes
      /\ format' = format /\ done' = done /\ pushed' = pushed /\ acked' = acked
  BY DEF MacMoves
<1>2. Fetched' = Fetched /\ Returned' = Returned
  BY <1>1 DEF Fetched, Returned
<1> DEFINE n == Len(queued.q)
           a == Len(acks.q)
<1>3. /\ n \in Nat /\ a \in Nat /\ Fetched = sent + n /\ sent = Returned + a
      /\ \A i \in 1..n : queued.q[i].val = sent + i
      /\ \A i \in 1..a : acks.q[i].val = Returned + i
      /\ sent \in Nat /\ Returned \in Nat /\ Fetched \in Nat
  BY Amounts DEF CodeInv, Numbers
<1>4. /\ queued' \in CodeQueues /\ Len(queued'.q) = n - l
      /\ \A i \in 1..n - l : queued'.q[i].val = queued.q[i + l].val
  BY MacQueued
<1>5. /\ acks' \in CodeQueues /\ Len(acks'.q) = a + l
      /\ \A i \in 1..a : acks'.q[i] = acks.q[i]
      /\ l = 1 => acks'.q[a + 1] = [val |-> sent + 1, age |-> 0]
  BY MacAcks
<1> HIDE DEF n, a
<1>6. CodeTypes'
  BY <1>1, <1>3, <1>4, <1>5 DEF CodeInv, CodeTypes
<1>7. Fetched' = sent' + Len(queued'.q) /\ sent' = Returned' + Len(acks'.q)
  BY <1>1, <1>2, <1>3, <1>4, <1>5
<1>8. \A i \in 1..Len(queued'.q) : queued'.q[i].val = sent' + i
  <2> SUFFICES ASSUME NEW i \in 1..n - l PROVE queued'.q[i].val = sent + l + i
    BY <1>1, <1>4
  <2>1. i + l \in 1..n /\ sent + (i + l) = sent + l + i
    BY <1>3
  <2>2. queued'.q[i].val = queued.q[i + l].val
    BY <1>4
  <2>3. queued.q[i + l].val = sent + (i + l)
    BY <1>3, <2>1
  <2> QED
    BY <2>1, <2>2, <2>3
<1>9. \A i \in 1..Len(acks'.q) : acks'.q[i].val = Returned' + i
  <2> SUFFICES ASSUME NEW i \in 1..a + l PROVE acks'.q[i].val = Returned + i
    BY <1>2, <1>5
  <2>1. CASE i \in 1..a
    BY <1>3, <1>5, <2>1
  <2>2. CASE i \notin 1..a
    <3>1. i = a + 1 /\ l = 1
      BY <1>3, <2>2
    <3> QED
      BY <1>3, <1>5, <3>1
  <2> QED
    BY <2>1, <2>2
<1> QED
  BY <1>1, <1>2, <1>6, <1>7, <1>8, <1>9 DEF CodeInv, Numbers

LEMMA MacFramed ==
    ASSUME LineInv, CodeInv, NEW p \in {0, 1}, NEW l \in {0, 1},
           MacMoves(p, l), BytesMove(p), CodesMove(l), p = 1 /\ l = 0 => InfoValid /\ ~InfoLast
    PROVE  Framed(bytes.q, sent + 1, NextCode)'
<1> DEFINE q == ReaderEdge(bytes).q
<1>1. sent' = sent + l /\ NextCode' = NextCode /\ l <= p
  BY DEF MacMoves, NextCode, Fetched
<1>2. bytes \in [q : Seq(Entries), back : {bytes.back}] /\ bytes.q \in Seq(Entries)
  BY Amounts DEF LineInv, QueueTypes
<1>3. /\ ReaderEdge(bytes) \in [q : Seq(Entries), back : {bytes.back}] /\ Len(q) = Len(bytes.q)
      /\ \A i \in 1..Len(bytes.q) : q[i].val = bytes.q[i].val
  BY <1>2, AgeingKeeps
<1>4. q \in Seq(Entries)
  BY <1>3
<1>5. bytes'.q = IF p = 1 THEN Tail(q) ELSE q
  BY DEF BytesMove
<1> HIDE DEF q
<1>6. Framed(q, sent + 1, NextCode)
  BY <1>2, <1>3, <1>4, FramedAgain DEF CodeInv
<1>7. CASE p = 0
  <2>1. bytes'.q = q /\ l = 0
    BY <1>1, <1>5, <1>7
  <2>2. sent' + 1 = sent + 1
    BY <1>1, <2>1, Amounts
  <2> QED
    BY <1>1, <1>6, <2>1, <2>2
<1>8. CASE p = 1
  <2>1. bytes'.q = Tail(q) /\ Len(q) > 0
    BY <1>3, <1>5, <1>8 DEF BytesMove
  <2>2. Framed(Tail(q), FollowedBy(q[1].val), NextCode)
    BY <1>4, <1>6, <2>1, FramedTail
  <2>3. q[1].val.code = sent + 1 /\ q[1].val = bytes.q[1].val
    BY <1>3, <1>6, <2>1, Amounts DEF Framed
  <2>4. l = 1 <=> q[1].val.byte = InfoBytes
    BY <1>8, <2>3 DEF CodesMove, InfoLast, Value
  <2>5. FollowedBy(q[1].val) = sent' + 1
    <3>1. CASE l = 1
      BY <1>1, <2>3, <2>4, <3>1, Amounts DEF FollowedBy
    <3>2. CASE l = 0
      <4>1. FollowedBy(q[1].val) = q[1].val.code
        BY <2>4, <3>2 DEF FollowedBy
      <4>2. sent \in Nat /\ sent' = sent + 0
        BY <1>1, <3>2, Amounts
      <4> QED
        BY <2>3, <4>1, <4>2
    <3> QED
      BY <3>1, <3>2
  <2> QED
    BY <1>1, <2>1, <2>2, <2>5
<1> QED
  BY <1>7, <1>8

LEMMA MacBeside ==
    ASSUME LineInv, CodeInv, NEW p \in {0, 1}, NEW l \in {0, 1},
           MacMoves(p, l), BytesMove(p), CodesMove(l)
    PROVE  Beside'
<1> DEFINE n == Len(queued.q)
           N == Len(bytes.q)
<1>1. /\ sent' = sent + l /\ txEdges' = txEdges + 1 /\ format' = format /\ l <= p
      /\ n \in Nat /\ N \in Nat /\ sent \in Nat /\ txEdges \in Nat /\ queued.q \in Seq(Codes)
      /\ bytes.q \in Seq(Entries)
  BY Amounts DEF MacMoves, CodeInv, CodeTypes
<1>2. /\ Len(queued'.q) = n - l /\ (l = 1 => n > 0)
      /\ \A i \in 1..n - l :
            /\ queued.q[i + l].age < CodeLag => queued'.q[i].age = queued.q[i + l].age + 1
            /\ queued.q[i + l].age = CodeLag => queued'.q[i].age = CodeLag
  BY MacQueued
<1>3. /\ Len(bytes'.q) = N - p
      /\ \A k \in 1..N - p :
            /\ k + p \in 1..N /\ bytes'.q[k].val = bytes.q[k + p].val
            /\ bytes'.q[k].age \in Nat /\ bytes'.q[k].age <= bytes.q[k + p].age + 1
  BY MacBytes
<1>4. \A i \in 1..n : queued.q[i].age \in 0..CodeLag
  <2> SUFFICES ASSUME NEW i \in 1..n PROVE queued.q[i].age \in 0..CodeLag
    OBVIOUS
  <2>1. queued.q[i] \in Codes
    BY <1>1
  <2> QED
    BY <2>1 DEF Codes
(* A code that is not the one that left has come one edge further.           *)
<1>5. ASSUME NEW c \in Nat, NEW x \in Int, NEW y \in Int, Ahead(c, x), y <= x + 1, l = 1 => c > sent + 1
      PROVE  \E i \in 1..Len(queued'.q) :
                c = sent' + i /\ (queued'.q[i].age = CodeLag \/ queued'.q[i].age >= y)
  <2>1. PICK i \in 1..n : c = sent + i /\ (queued.q[i].age = CodeLag \/ queued.q[i].age >= x)
    BY <1>5 DEF Ahead
  <2> HIDE DEF n
  <2>2. i - l \in 1..n - l /\ (i - l) + l = i /\ c = sent' + (i - l)
    BY <1>1, <1>5, <2>1
  <2>3. queued.q[i].age \in 0..CodeLag
    BY <1>4, <2>1
  <2>4. queued'.q[i - l].age = CodeLag \/ queued'.q[i - l].age >= y
    <3>1. CASE queued.q[i].age = CodeLag
      BY <1>2, <2>2, <3>1
    <3>2. CASE queued.q[i].age < CodeLag
      <4>1. queued'.q[i - l].age = queued.q[i].age + 1
        BY <1>2, <2>2, <3>2
      <4>2. queued.q[i].age >= x
        BY <2>1, <2>3, <3>2, Bounds
      <4> QED
        BY <1>5, <2>3, <4>1, <4>2, Bounds
    <3> QED
      BY <2>3, <3>1, <3>2, Bounds
  <2> QED
    BY <1>2, <2>2, <2>4
<1>6. ASSUME l = 1
      PROVE  FollowedBy(bytes.q[1].val) = sent + 2 /\ 1 \in 1..N /\ p = 1
  <2>1. p = 1 /\ InfoLast
    BY <1>1, <1>6 DEF CodesMove
  <2>2. N > 0
    BY <2>1 DEF BytesMove
  <2>3. 1 \in 1..N
    BY <1>1, <2>2
  <2>4. bytes.q[1].val.code = sent + 1 /\ bytes.q[1].val.byte = InfoBytes
    BY <2>1, <2>2 DEF CodeInv, Framed, InfoLast, Value
  <2> QED
    BY <1>1, <2>1, <2>3, <2>4 DEF FollowedBy
<1>7. ASSUME NEW k \in 1..Len(bytes'.q)
      PROVE  Ahead(bytes.q[k].val.code, bytes.q[k].val.byte + bytes.q[k].age)'
  <2> DEFINE c == bytes.q[k + p].val.code
             x == bytes.q[k + p].val.byte + bytes.q[k + p].age
             y == bytes'.q[k].val.byte + bytes'.q[k].age
  <2>1. k \in 1..N - p /\ k + p \in 1..N /\ bytes'.q[k].val.code = c
    BY <1>3, <1>7
  <2>2. bytes.q[k + p] \in Entries
    BY <1>1, <2>1
  <2>3. c \in Nat /\ bytes.q[k + p].val.byte \in Nat /\ bytes.q[k + p].age \in Nat
    BY <2>2, Bounds DEF Entries
  <2>4. x \in Int /\ y \in Int /\ y <= x + 1
    <3> DEFINE b == bytes.q[k + p].val.byte
               e == bytes.q[k + p].age
               f == bytes'.q[k].age
    <3>1. /\ f \in Nat /\ f <= e + 1 /\ bytes'.q[k].val = bytes.q[k + p].val
          /\ x = b + e /\ b \in Nat /\ e \in Nat
      BY <1>3, <2>1, <2>3
    <3>2. y = b + f
      BY <3>1
    <3> HIDE DEF b, e, f, x, y
    <3> QED
      BY <3>1, <3>2
  <2>5. Ahead(c, x)
    BY <2>1 DEF CodeInv, Beside
  <2>6. l = 1 => c > sent + 1
    <3> SUFFICES ASSUME l = 1 PROVE c > sent + 1
      OBVIOUS
    <3>1. 1 \in 1..N /\ p = 1 /\ FollowedBy(bytes.q[1].val) = sent + 2
      BY <1>6
    <3>2. k + p \in 1 + 1..N
      BY <1>1, <1>7, <2>1, <3>1
    <3>3. FollowedBy(bytes.q[1].val) <= c
      BY <3>1, <3>2 DEF CodeInv, Framed
    <3> HIDE DEF c
    <3> QED
      BY <1>1, <2>3, <3>1, <3>3
  <2> HIDE DEF c, x, y
  <2>7. \E i \in 1..Len(queued'.q) :
           c = sent' + i /\ (queued'.q[i].age = CodeLag \/ queued'.q[i].age >= y)
    BY <1>5, <2>3, <2>4, <2>5, <2>6
  <2>9. bytes'.q[k].val.code = c
    BY <2>1
  <2> QED
    BY <2>7, <2>9 DEF Ahead, y
<1>8. ASSUME format'.code # 0 PROVE Ahead(format.code, format.byte - 1 + txEdges)'
  <2> DEFINE x == format.byte - 1 + txEdges
             y == format'.byte - 1 + txEdges'
  <2>1. format.code # 0 /\ format.code = Fetched /\ format'.code = format.code /\ format.code \in Nat
        /\ format.byte \in Nat
    BY <1>1, <1>8, Bounds DEF CodeInv, Numbers, LineInv, QueueTypes
  <2>2. Ahead(format.code, x)
    BY <2>1 DEF CodeInv, Beside
  <2>3. x \in Int /\ y \in Int /\ y <= x + 1
    BY <1>1, <2>1
  <2>4. l = 1 => format.code > sent + 1
    <3> SUFFICES ASSUME l = 1 PROVE format.code > sent + 1
      OBVIOUS
    <3>1. FollowedBy(bytes.q[1].val) <= NextCode
      BY <1>6 DEF CodeInv, Framed
    <3>2. NextCode = format.code /\ FollowedBy(bytes.q[1].val) = sent + 2
      BY <1>6, <2>1 DEF NextCode
    <3> QED
      BY <1>1, <2>1, <3>1, <3>2
  <2> HIDE DEF x, y
  <2>5. \E i \in 1..Len(queued'.q) :
           format.code = sent' + i /\ (queued'.q[i].age = CodeLag \/ queued'.q[i].age >= y)
    BY <1>5, <2>1, <2>2, <2>3, <2>4
  <2> QED
    BY <2>1, <2>5 DEF Ahead, y
<1> QED
  BY <1>7, <1>8 DEF Beside

LEMMA MacPaired ==
    ASSUME LineInv, CodeInv, NEW l \in {0, 1}, CodesMove(l) PROVE Paired'
<1> DEFINE L == Len(queued.back)
           a == Len(acks.q)
<1>1. /\ L \in Nat /\ a \in Nat /\ L <= a
      /\ \A j \in 0..L - 1 : queued.back[L - j] = acks.q[a - j].age
  BY Amounts DEF CodeInv, Paired
<1>2. /\ Falling(queued'.back) /\ Len(queued'.back) = L + l
      /\ \A i \in 1..L : queued'.back[i] = queued.back[i]
      /\ l = 1 => queued'.back[L + 1] = 0
  BY MacQueued
<1>3. /\ Len(acks'.q) = a + l
      /\ \A i \in 1..a : acks'.q[i] = acks.q[i]
      /\ l = 1 => acks'.q[a + 1].age = 0
  BY MacAcks
<1> HIDE DEF L, a
<1>4. ASSUME NEW j \in 0..(L + l) - 1 PROVE queued'.back[L + l - j] = acks'.q[a + l - j].age
  <2>1. CASE l = 1 /\ j = 0
    <3>1. L + l - j = L + 1 /\ a + l - j = a + 1
      BY <1>1, <2>1
    <3> QED
      BY <1>2, <1>3, <2>1, <3>1
  <2>2. CASE ~(l = 1 /\ j = 0)
    <3>1. /\ j - l \in 0..L - 1 /\ L + l - j = L - (j - l) /\ a + l - j = a - (j - l)
          /\ L - (j - l) \in 1..L /\ a - (j - l) \in 1..a
      BY <1>1, <2>2
    <3> QED
      BY <1>1, <1>2, <1>3, <3>1
  <2> QED
    BY <2>1, <2>2
<1> QED
  BY <1>1, <1>2, <1>3, <1>4 DEF Paired

LEMMA MacLearnt ==
    ASSUME LineInv, CodeInv, NEW p \in {0, 1}, NEW l \in {0, 1},
           MacMoves(p, l), BytesMove(p), CodesMove(l)
    PROVE  Learnt'
<1> DEFINE r == Len(acks.back)
           N == Len(bytes.q)
<1>1. PICK n \in 0..r :
         /\ Len(acks'.back) = r - n
         /\ \A i \in 1..r - n : acks'.back[i] = acks.back[n + i] + 1
  BY MacAcks
<1>2. Falling(acks'.back) /\ Returned' = Returned /\ Returned \in Nat /\ r \in Nat
  BY Amounts, MacAcks, MacNumbers
<1>3. /\ Len(bytes'.q) = N - p
      /\ \A k \in 1..N - p :
            /\ k + p \in 1..N /\ bytes'.q[k].val = bytes.q[k + p].val
            /\ bytes'.q[k].age \in Nat /\ bytes'.q[k].age <= bytes.q[k + p].age + 1
  BY MacBytes
<1>4. \A i \in 1..r : acks.back[i] \in 0..CrossEdges
  BY BackTyped
<1>5. \A i \in 1..r, k \in 1..N :
         bytes.q[k].val.code >= Room(i) + MaxOutstanding => bytes.q[k].age < acks.back[i]
  BY DEF CodeInv, Learnt
<1>6. \A k \in 1..N : bytes.q[k].age \in Nat
  BY BytesAreFetched
<1> HIDE DEF N
<1>7. ASSUME NEW i \in 1..Len(acks'.back)
      PROVE  /\ acks'.back[i] > 0
             /\ \A k \in 1..Len(bytes'.q) :
                   bytes'.q[k].val.code >= Room(i)' + MaxOutstanding =>
                       bytes'.q[k].age < acks'.back[i]
  <2>1. Room(i)' = Returned - (r - n) + i /\ Room(n + i) = Returned - r + (n + i)
    BY <1>1, <1>2 DEF Room
  <2> HIDE DEF r
  <2>2. /\ n + i \in 1..r /\ i \in 1..r - n /\ acks'.back[i] = acks.back[n + i] + 1
        /\ Room(i)' = Room(n + i)
    BY <1>1, <1>2, <2>1
  <2>3. acks.back[n + i] \in 0..CrossEdges
    BY <1>4, <2>2
  <2>4. ASSUME NEW k \in 1..Len(bytes'.q), bytes'.q[k].val.code >= Room(i)' + MaxOutstanding
        PROVE  bytes'.q[k].age < acks'.back[i]
    <3>1. k \in 1..N - p /\ k + p \in 1..N
      BY <1>3
    <3>2. bytes.q[k + p].age < acks.back[n + i]
      BY <1>3, <1>5, <2>2, <2>4, <3>1
    <3>3. bytes'.q[k].age \in Nat /\ bytes'.q[k].age <= bytes.q[k + p].age + 1 /\ bytes.q[k + p].age \in Nat
      BY <1>3, <1>6, <3>1
    <3> DEFINE u == bytes'.q[k].age
               v == bytes.q[k + p].age
               w == acks.back[n + i]
    <3>4. u \in Nat /\ v \in Nat /\ w \in Int /\ u <= v + 1 /\ v < w
      BY <2>3, <3>2, <3>3, Bounds
    <3>5. acks'.back[i] = w + 1
      BY <2>2
    <3> HIDE DEF u, v, w
    <3>6. u < w + 1
      BY ONLY <3>4
    <3> QED
      BY <3>5, <3>6 DEF u
  <2>5. acks'.back[i] > 0
    <3> DEFINE w == acks.back[n + i]
    <3>1. w \in Nat /\ acks'.back[i] = w + 1
      BY <2>2, <2>3, Bounds
    <3> HIDE DEF w
    <3> QED
      BY <3>1
  <2> QED
    BY <2>4, <2>5
<1> QED
  BY <1>2, <1>7 DEF Learnt

LEMMA MacKeepsAll == ASSUME LineInv, CodeInv, MacEdge PROVE CodeInv'
<1>1. PICK p, l \in {0, 1} :
         /\ MacMoves(p, l) /\ BytesMove(p) /\ CodesMove(l)
         /\ p = 1 /\ l = 0 => InfoValid /\ ~InfoLast
  BY MacShape
<1>2. overflow' = {}
  BY <1>1 DEF MacMoves
<1> QED
  BY <1>1, <1>2, MacNumbers, MacFramed, MacBeside, MacPaired, MacLearnt DEF CodeInv

LEMMA CodesStart == TransmitInit => CodeInv
<1> SUFFICES ASSUME TransmitInit PROVE CodeInv
  OBVIOUS
<1> USE Bounds DEF TransmitInit, EmptyQueue
<1>1. Fetched = 0 /\ Returned = 0 /\ NextCode = 1
  <2>1. Len(codes) = 0 /\ pushed = 0 /\ push = 0 /\ acked = 0 /\ done = 0 /\ format.code = 0
    OBVIOUS
  <2>2. Fetched = 0 - 0 - 0 /\ Returned = 0 + 0
    BY ONLY <2>1 DEF Fetched, Returned
  <2>3. NextCode = Fetched + 1
    BY ONLY <2>1 DEF NextCode
  <2> QED
    BY ONLY <2>2, <2>3
<1>2. CodeTypes
  BY DEF CodeTypes, CodeQueues
<1>3. Numbers
  BY <1>1 DEF Numbers
<1>4. Beside /\ Paired /\ Learnt /\ Framed(bytes.q, sent + 1, NextCode)
  BY <1>1 DEF Beside, Paired, Learnt, Framed, Falling
<1> QED
  BY <1>2, <1>3, <1>4 DEF CodeInv

(* On every edge the codes pushed are numbered through the queues, each      *)
(* crosses ahead of its frame's bytes, and neither crossing of the codes     *)
(* (system_info_tx_cdc.sv) overflows: the inductive invariant of the         *)
(* acknowledgements.                                                         *)
THEOREM CodeInvariant == TransmitSpec => [](LineInv /\ CodeInv)
<1>1. TransmitInit => LineInv /\ CodeInv
  BY LineStarts, CodesStart
<1>2. LineInv /\ CodeInv /\ [TransmitNext]_transmitVars => (LineInv /\ CodeInv)'
  <2> SUFFICES ASSUME LineInv, CodeInv, [TransmitNext]_transmitVars PROVE LineInv' /\ CodeInv'
    OBVIOUS
  <2>1. CASE PushEdge
    BY <2>1, PushEdgeKeeps, PushKeepsAll
  <2>2. CASE MacEdge
    BY <2>2, MacEdgeKeeps, MacKeepsAll
  <2>3. CASE UNCHANGED transmitVars
    <3> USE <2>3 DEF transmitVars
    <3>1. LineInv'
      BY DEF LineInv, QueueTypes, InStep, InOrder, Chained, Due
    <3>2. Fetched' = Fetched /\ Returned' = Returned /\ NextCode' = NextCode
      BY DEF Fetched, Returned, NextCode
    <3>3. CodeTypes'
      BY DEF CodeInv, CodeTypes
    <3>4. Numbers'
      BY <3>2 DEF CodeInv, Numbers
    <3>5. Beside'
      BY DEF CodeInv, Beside, Ahead
    <3>6. Paired' /\ overflow' = {}
      BY DEF CodeInv, Paired
    <3>7. Learnt'
      BY <3>2 DEF CodeInv, Learnt, Room
    <3>8. Framed(bytes.q, sent + 1, NextCode)'
      BY <3>2 DEF CodeInv, Framed
    <3> QED
      BY <3>1, <3>3, <3>4, <3>5, <3>6, <3>7, <3>8 DEF CodeInv
  <2> QED
    BY <2>1, <2>2, <2>3 DEF TransmitNext
<1> QED
  BY <1>1, <1>2, PTL DEF TransmitSpec

(* Every status code that was pushed (system_info_tx_fifo.sv) is             *)
(* acknowledged once, in the order of the pushes and after the last byte of  *)
(* its own frame, and none is forgotten.                                     *)
THEOREM CodesComeBack == TransmitSpec => []CodesConfirmedOnce
<1>1. LineInv /\ CodeInv => CodesConfirmedOnce
  <2> SUFFICES ASSUME LineInv, CodeInv PROVE CodesConfirmedOnce
    OBVIOUS
  <2>1. overflow = {}
    BY DEF CodeInv
  <2>2. acked <= sent /\ sent <= pushed
    <3> DEFINE m == Len(codes)
    <3>1. /\ m \in Nat /\ Fetched + m + (IF push = 0 THEN 0 ELSE 1) = pushed
          /\ Fetched \in Nat /\ Returned \in Nat /\ sent \in Nat /\ acked \in Nat /\ pushed \in Nat
          /\ acked <= Returned /\ Returned <= sent /\ sent <= Fetched
      BY Amounts
    <3> HIDE DEF m
    <3> QED
      BY ONLY <3>1
  <2>3. ASSUME AtRest PROVE acked = pushed
    <3>1. /\ push = 0 /\ Len(codes) = 0 /\ format.code = 0 /\ done = 0
          /\ Len(bytes.q) = 0 /\ Len(acks.q) = 0
      BY <2>3 DEF AtRest
    <3>2. pushed = Fetched /\ acked = Returned /\ sent = Returned
      BY <3>1, Amounts DEF Fetched, Returned, CodeInv, Numbers
    <3>3. Fetched + 1 = sent + 1
      BY <3>1 DEF CodeInv, Framed, NextCode
    <3> QED
      BY <3>2, <3>3, Amounts
  <2> QED
    BY <2>1, <2>2, <2>3 DEF CodesConfirmedOnce
<1> QED
  BY <1>1, CodeInvariant, PTL
=============================================================================
