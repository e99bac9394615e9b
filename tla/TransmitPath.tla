----------------------------- MODULE TransmitPath -----------------------------
(* A status code on its way to the network: the controller's push, the code  *)
(* queue, the formatter, the crossing of frame and code into the TX clock    *)
(* (rtl/eth/system_info_tx_*.sv), the arbiter that shares the MAC with the   *)
(* log (rtl/eth/system_tx_arbiter.sv), and the acknowledgement back.         *)
(* Codes are numbered as they are pushed; a frame is its bytes, counted.     *)
EXTENDS Integers, Sequences, FiniteSets

CONSTANTS CodeDepth,       \* depth of the three code queues: 16
          FrameDepth,      \* depth of the byte queue: 2048
          InfoBytes,       \* bytes of an information frame: 60
          LogBytes,        \* bytes of a log frame
          CrossEdges,      \* edges until a queue's other side sees a change
          CodeLag,         \* the same of the code's queue: a macro of another kind
          TxRatios,        \* TX edges between two controller edges: {1, 2}
          MaxOutstanding,  \* codes under way: 1 awaited, 4 of the harts, 1 error
          MaxCodes,        \* bound: codes pushed
          MaxLogFrames     \* bound: log frames

ASSUME TransmitAssumption ==
    /\ {CodeDepth, FrameDepth, InfoBytes, LogBytes, MaxOutstanding} \subseteq Nat \ {0}
    /\ {CrossEdges, CodeLag, MaxCodes, MaxLogFrames} \subseteq Nat
    /\ TxRatios \subseteq Nat \ {0}
    /\ MaxOutstanding < CodeDepth
    /\ CodeLag \in CrossEdges .. CrossEdges + InfoBytes

VARIABLES
    push,      \* info_tx_push with its code, 0 for none
    codes,     \* system_info_tx_fifo
    format,    \* the formatter: code of the active frame or 0, byte_index
    bytes,     \* axis_frame_fifo_async
    queued,    \* the code FIFO of system_info_tx_cdc
    acks,      \* its acknowledgement FIFO
    done,      \* ctrl_frame_done with its code, 0 for none
    arbiter,   \* in_frame, selected_log
    log,       \* the log's stream: frames left, byte, tvalid
    txEdges,
    overflow,  \* history: the overflow flags that were raised
    pushed, sent, acked,   \* history: codes pushed, gone to the MAC, confirmed
    line       \* history: the frame the MAC is in the middle of

transmitVars == <<push, codes, format, bytes, queued, acks, done, arbiter, log,
                  txEdges, overflow, pushed, sent, acked, line>>

(* An asynchronous queue.  Each side learns late what the other one did: an  *)
(* entry ages with the reader's edges, freed room with the writer's.         *)
EmptyQueue == [q |-> <<>>, back |-> <<>>]
Offered(f, lag) == f.q # <<>> /\ f.q[1].age >= lag
Value(f) == f.q[1].val
Crowded(f, depth) == Len(f.q) + Len(f.back) >= depth
Put(f, val) == [f EXCEPT !.q = Append(@, [val |-> val, age |-> 0])]
Take(f) == [q |-> Tail(f.q), back |-> Append(f.back, 0)]
Aged(e) == [e EXCEPT !.age = IF @ < CodeLag THEN @ + 1 ELSE @]
ReaderEdge(f) == [f EXCEPT !.q = [i \in DOMAIN f.q |-> Aged(f.q[i])]]
(* Room is learnt of in the order in which it was freed.                     *)
WriterEdge(f) ==
    LET known == Cardinality({i \in DOMAIN f.back : f.back[i] >= CrossEdges})
    IN  [f EXCEPT !.back = [i \in 1..Len(@) - known |-> @[known + i] + 1]]

TransmitInit ==
    /\ push = 0 /\ codes = <<>> /\ format = [code |-> 0, byte |-> 1]
    /\ bytes = EmptyQueue /\ queued = EmptyQueue /\ acks = EmptyQueue /\ done = 0
    /\ arbiter = [inFrame |-> FALSE, log |-> FALSE]
    /\ log = [left |-> MaxLogFrames, byte |-> 1, valid |-> FALSE]
    /\ txEdges = 0 /\ overflow = {}
    /\ pushed = 0 /\ sent = 0 /\ acked = 0
    /\ line = [frame |-> "none", byte |-> 0]

-----------------------------------------------------------------------------
(* Controller clock.                                                         *)

(* A code is pushed while the queue is not full; push reaches it an edge     *)
(* later.                                                                    *)
MayPush == /\ pushed < MaxCodes /\ Len(codes) # CodeDepth
           /\ pushed - acked < MaxOutstanding

Fetches == format.code = 0 /\ codes # <<>>
Sends == format.code # 0 /\ ~Crowded(bytes, FrameDepth)

CodesNext ==
    (IF Fetches THEN Tail(codes) ELSE codes)
        \o (IF push # 0 /\ Len(codes) < CodeDepth THEN <<push>> ELSE <<>>)

FormatNext ==
    IF Fetches THEN [code |-> Head(codes), byte |-> 1]
    ELSE IF ~Sends THEN format
    ELSE IF format.byte = InfoBytes THEN [code |-> 0, byte |-> 1]
    ELSE [format EXCEPT !.byte = @ + 1]

(* The code crosses on its own, from the edge the frame is begun at.         *)
(* Slip: from the edge its last byte leaves the formatter.                   *)
QueuesAtEnd == IF Sends /\ format.byte = InfoBytes THEN <<format.code>> ELSE <<>>
Queues == IF Fetches THEN <<Head(codes)>> ELSE <<>>

PushEdge ==
    /\ txEdges \in TxRatios
    /\ \E now \in {0} \cup {n \in {pushed + 1} : MayPush} :
          /\ push' = now
          /\ pushed' = IF now = 0 THEN pushed ELSE now
    /\ codes' = CodesNext
    /\ format' = FormatNext
    /\ bytes' = LET f == WriterEdge(bytes)
                IN  IF Sends THEN Put(f, [code |-> format.code, byte |-> format.byte])
                    ELSE f
    /\ queued' = LET f == WriterEdge(queued)
                 IN  IF Queues # <<>> /\ ~Crowded(queued, CodeDepth)
                     THEN Put(f, Queues[1]) ELSE f
    /\ acks' = LET f == ReaderEdge(acks) IN IF Offered(acks, CrossEdges) THEN Take(f) ELSE f
    /\ done' = IF Offered(acks, CrossEdges) THEN Value(acks) ELSE 0
    /\ acked' = IF done = 0 THEN acked ELSE done
    /\ overflow' = overflow
           \cup {c \in {"code queue"} : push # 0 /\ Len(codes) = CodeDepth}
           \cup {c \in {"crossing"} : Queues # <<>> /\ Crowded(queued, CodeDepth)}
           \cup {c \in {"order"} : done \notin {0, acked + 1}}
    /\ txEdges' = 0
    /\ UNCHANGED <<arbiter, log, sent, line>>

-----------------------------------------------------------------------------
(* TX clock.                                                                 *)
InfoValid == Offered(bytes, CrossEdges)
InfoLast == Value(bytes).byte = InfoBytes

(* Slip: the preference holds inside a frame as well.                        *)
ChoosesAnyTime(prefer) ==
    IF prefer THEN log.valid \/ ~InfoValid ELSE ~InfoValid /\ log.valid
ChooseLog(prefer) ==
    IF arbiter.inFrame THEN arbiter.log
    ELSE IF prefer THEN log.valid \/ ~InfoValid
    ELSE ~InfoValid /\ log.valid

(* The source that was chosen is kept until its last byte has moved.         *)
(* Slip: it is given up with the last byte of an information frame only.     *)
ArbiterKept(toLog, last) ==
    [inFrame |-> toLog \/ ~last, log |-> IF arbiter.inFrame THEN arbiter.log ELSE toLog]
ArbiterAfter(toLog, last) ==
    [inFrame |-> ~last, log |-> IF arbiter.inFrame THEN arbiter.log ELSE toLog]

(* The line of the MAC: a frame goes on with its next byte.                  *)
LineNext(frame, byte, last) ==
    IF byte = line.byte + 1 /\ line.frame \in {"none", frame}
    THEN IF last THEN [frame |-> "none", byte |-> 0] ELSE [frame |-> frame, byte |-> byte]
    ELSE [frame |-> "torn", byte |-> 0]

LogMoves(taken) ==
    LET last == log.byte = LogBytes
        rest == IF ~taken THEN log
                ELSE [left |-> IF last THEN log.left - 1 ELSE log.left,
                      byte |-> IF last THEN 1 ELSE log.byte + 1, valid |-> FALSE]
    IN  \E v \in BOOLEAN :
           /\ v => rest.left > 0
           /\ log' = [rest EXCEPT !.valid = @ \/ v]

InfoByteLeaves ==
    LET confirms == InfoLast /\ Offered(queued, CodeLag)
    IN  /\ queued' = IF confirms THEN Take(ReaderEdge(queued)) ELSE ReaderEdge(queued)
        /\ bytes' = Take(ReaderEdge(bytes))
        /\ acks' = LET f == WriterEdge(acks)
                   IN  IF confirms /\ ~Crowded(acks, CodeDepth)
                       THEN Put(f, Value(queued)) ELSE f
        /\ sent' = IF InfoLast THEN sent + 1 ELSE sent
        /\ line' = LineNext("info", Value(bytes).byte, InfoLast)
        /\ overflow' = overflow
               \cup {c \in {"crossing"} : InfoLast /\ (~confirms \/ Crowded(acks, CodeDepth))}
               \cup {c \in {"order"} : InfoLast /\ Value(bytes).code # sent + 1}

InfoRests ==
    /\ bytes' = ReaderEdge(bytes) /\ queued' = ReaderEdge(queued)
    /\ acks' = WriterEdge(acks)
    /\ UNCHANGED <<sent, overflow>>

MacEdge ==
    /\ \E r \in TxRatios : txEdges < r
    /\ \E prefer \in BOOLEAN, tready \in BOOLEAN :
          LET toLog == ChooseLog(prefer)
              valid == IF toLog THEN log.valid ELSE InfoValid
              last  == IF toLog THEN log.byte = LogBytes ELSE InfoLast
              moves == valid /\ tready
          IN  /\ arbiter' = IF moves THEN ArbiterAfter(toLog, last) ELSE arbiter
              /\ LogMoves(moves /\ toLog)
              /\ \/ moves /\ ~toLog /\ InfoByteLeaves
                 \/ moves /\ toLog /\ InfoRests /\ line' = LineNext("log", log.byte, last)
                 \/ ~moves /\ InfoRests /\ line' = line
    /\ txEdges' = txEdges + 1
    /\ UNCHANGED <<push, codes, format, done, pushed, acked>>

TransmitNext == PushEdge \/ MacEdge
TransmitSpec == TransmitInit /\ [][TransmitNext]_transmitVars

-----------------------------------------------------------------------------
(* Whatever the preference does, the MAC never gets a byte of another source *)
(* inside a frame (system_tx_arbiter.sv).                                    *)
FramesWhole == line.frame # "torn"

(* A code is acknowledged once, in the order of the pushes, after the last   *)
(* byte of its own frame; no queue overflows, and none is forgotten: when    *)
(* everything is at rest every code pushed was acknowledged.  The code       *)
(* crosses beside its frame in a queue of its own.                           *)
AtRest == /\ push = 0 /\ codes = <<>> /\ format.code = 0 /\ done = 0
          /\ bytes.q = <<>> /\ acks.q = <<>>
CodesConfirmedOnce ==
    /\ overflow = {}
    /\ acked <= sent /\ sent <= pushed
    /\ AtRest => acked = pushed

(* Whatever the log sends and the preference chooses, every code that was    *)
(* pushed is confirmed: the arbiter gives up a source with its frame, the    *)
(* formatter waits only for room (system_tx_arbiter.sv).  Pushes are bounded *)
(* here, so each is confirmed if and only if all are in the end.             *)
EveryCodeConfirmed == (acked < pushed) ~> (acked = pushed)
=============================================================================
