----------------------------- MODULE FutuClient -----------------------------
(***************************************************************************)
(* The client of the Futu gateway (market-data/src/futu/client.rs and      *)
(* connection.rs) after its handshake. Two tasks write to the connection:  *)
(* the one that owns the client, making one call at a time, and the        *)
(* keep-alive loop. They share the writer behind a fair asynchronous       *)
(* mutex, and a frame is written in two parts. A third task, the push      *)
(* receiver, reads the gateway's frames and passes the data in them on     *)
(* through a bounded channel. The gateway, and the consumer at the other   *)
(* end of the channel, are external: they do anything at any time.         *)
(*                                                                         *)
(* connect drops the reading half of its own connection, so receiver stays *)
(* "none" in today's program; start_push_receiver is modelled for a caller *)
(* that has the reading half.                                              *)
(***************************************************************************)
EXTENDS Integers, SequencesExt

CONSTANTS
  Securities,      \* what is subscribed to
  TimeframeLists,  \* the lists of timeframes a call may name, as sets
  ChannelSize,     \* capacity of the channel of events: 256
  MaxFrames,       \* bound: frames the client writes
  MaxPushes        \* bound: frames the gateway sends

ClientTimeframes ==
  {"Minute1", "Minute5", "Minute15", "Minute30", "Minute60", "Daily", "Weekly"}

ASSUME ClientAssumption ==
  /\ TimeframeLists \subseteq SUBSET ClientTimeframes
  /\ ChannelSize \in Nat \ {0}
  /\ MaxFrames \in Nat /\ MaxPushes \in Nat

VARIABLES
  link,       \* the connection: "open", "closed" by the gateway, "broken" for writes
  queue,      \* who holds the writer's lock, then who waits for it
  place,      \* where each writer is
  sending,    \* what it writes
  serial,     \* FutuWriter.serial_no
  wire,       \* the parts of frames written so far, and who wrote each
  requests,   \* what the frames ask for that the gateway has still to read
  subscribed, \* what the gateway pushes: pairs of a security and a type of data
  inbound,    \* the frames the gateway has sent
  read,       \* how many of them the push receiver has read
  receiver,   \* the push receiver: "none", "reading", "sending" or "ended"
  channel,    \* the events in the channel, with the one that waits for room in it;
              \* an event stands for the number of its frame
  consumer,   \* "receiving", "gone", or it has "heard" the end of the channel
  consumed,   \* history: the events it received
  clientDropped \* is the client dropped?

writerVars   == <<queue, place, sending, serial, wire>>
gatewayVars  == <<requests, subscribed>>
receiverVars == <<inbound, read, receiver, channel, consumer, consumed>>
clientVars   == <<link, writerVars, gatewayVars, receiverVars, clientDropped>>

Writers == {"caller", "keepAlive"}

(* Weekly bars use the daily subscription. *)
SubType(timeframe) == IF timeframe = "Weekly" THEN "Daily" ELSE timeframe

(* What a request to subscribe or unsubscribe is about. Ticks ("RT") are   *)
(* asked for with every subscription and never unsubscribed.               *)
DataTypes(request) ==
  request.securities \X
    ({SubType(t) : t \in request.timeframes}
       \cup IF request.op = "subscribe" THEN {"RT"} ELSE {})

NoRequest == [op |-> "none"]
KeepAliveRequest == [op |-> "keepAlive"]
HistoryRequest == [op |-> "history"]
SubRequest(op, securities, timeframes) ==
  [op |-> op, securities |-> securities, timeframes |-> timeframes]

(* The first serial number was the handshake's. *)
FirstSerial == 2

Connected ==
  /\ link = "open"
  /\ queue = <<>>
  /\ place = [w \in Writers |-> "idle"]
  /\ sending = [w \in Writers |-> NoRequest]
  /\ serial = FirstSerial
  /\ wire = <<>> /\ requests = <<>>
  /\ subscribed = {}
  /\ inbound = <<>> /\ read = 0
  /\ receiver = "none"
  /\ channel = <<>> /\ consumed = <<>>
  /\ consumer = "receiving"
  /\ clientDropped = FALSE

-----------------------------------------------------------------------------
(* Writing a frame. *)

(* A call, or the end of the loop's sleep: the writer queues for the lock. *)
Begin(w, request) ==
  /\ place[w] = "idle" /\ ~clientDropped
  /\ serial - FirstSerial + Len(queue) < MaxFrames
  /\ place' = [place EXCEPT ![w] = "locking"]
  /\ sending' = [sending EXCEPT ![w] = request]
  /\ queue' = Append(queue, w)
  /\ UNCHANGED <<link, serial, wire, gatewayVars, receiverVars, clientDropped>>

(* A mistaken lock: each task writes when it likes. *)
HoldsNothing(w) == TRUE

HoldsLock(w) == queue # <<>> /\ Head(queue) = w

(* The serial number is drawn under the lock; the header tells the length  *)
(* of the body and its hash. Writing to a closed connection may succeed.   *)
WriteHeader(w) ==
  /\ place[w] = "locking" /\ HoldsLock(w)
  /\ link # "broken"
  /\ wire' = Append(wire, [part |-> "header", by |-> w, serial |-> serial])
  /\ requests' = IF link = "open" THEN Append(requests, sending[w]) ELSE requests
  /\ serial' = serial + 1
  /\ place' = [place EXCEPT ![w] = "body"]
  /\ UNCHANGED <<link, queue, sending, subscribed, receiverVars, clientDropped>>

WriteBody(w) ==
  /\ place[w] = "body"
  /\ link # "broken"
  /\ wire' = Append(wire, [part |-> "body", by |-> w])
  /\ place' = [place EXCEPT ![w] = "written"]
  /\ queue' = Tail(queue)
  /\ UNCHANGED <<link, sending, serial, gatewayVars, receiverVars, clientDropped>>

(* A mistaken failure: the lock is not given back. *)
FailLocked(w) ==
  /\ place[w] \in {"locking", "body"} /\ HoldsLock(w)
  /\ link # "open"
  /\ link' = "broken"
  /\ place' = [place EXCEPT ![w] = IF w = "keepAlive" THEN "ended" ELSE "idle"]
  /\ sending' = [sending EXCEPT ![w] = NoRequest]
  /\ UNCHANGED <<queue, serial, wire, gatewayVars, receiverVars, clientDropped>>

(* The lock's guard is dropped with the error. A caller gets the error; the *)
(* keep-alive loop ends and tells nobody.                                   *)
Fail(w) ==
  /\ place[w] \in {"locking", "body"} /\ HoldsLock(w)
  /\ link # "open"
  /\ link' = "broken"
  /\ place' = [place EXCEPT ![w] = IF w = "keepAlive" THEN "ended" ELSE "idle"]
  /\ queue' = Tail(queue)
  /\ sending' = [sending EXCEPT ![w] = NoRequest]
  /\ UNCHANGED <<serial, wire, gatewayVars, receiverVars, clientDropped>>

Return(w) ==
  /\ place[w] = "written"
  /\ place' = [place EXCEPT ![w] = "idle"]
  /\ sending' = [sending EXCEPT ![w] = NoRequest]
  /\ UNCHANGED <<link, queue, serial, wire, gatewayVars, receiverVars, clientDropped>>

WriterStep(w) == WriteHeader(w) \/ WriteBody(w) \/ Fail(w)

(* Dropping the client aborts both loops, which drops what they hold: the  *)
(* lock, the halves of the connection and the channel's sender.            *)
DropClient ==
  /\ ~clientDropped /\ place["caller"] = "idle"
  /\ clientDropped' = TRUE
  /\ link' = "broken"
  /\ place' = [place EXCEPT !["keepAlive"] = "ended"]
  /\ queue' = <<>>
  /\ receiver' = IF receiver = "none" THEN "none" ELSE "ended"
  /\ channel' = IF receiver = "sending" THEN Front(channel) ELSE channel
  /\ sending' = [sending EXCEPT !["keepAlive"] = NoRequest]
  /\ requests' = <<>> /\ subscribed' = {}
  /\ UNCHANGED <<serial, wire, inbound, read, consumer, consumed>>

-----------------------------------------------------------------------------
(* The gateway. *)

Unfinished == Len(wire) % 2  \* headers whose body is still to come

(* It reads whole frames and follows them. *)
Serve ==
  /\ link = "open" /\ Len(requests) > Unfinished
  /\ requests' = Tail(requests)
  /\ LET r == Head(requests)
     IN  subscribed' = CASE r.op = "subscribe"   -> subscribed \cup DataTypes(r)
                         [] r.op = "unsubscribe" -> subscribed \ DataTypes(r)
                         [] OTHER                -> subscribed
  /\ UNCHANGED <<link, writerVars, receiverVars, clientDropped>>

(* Frames it sends, by what the receiver makes of them: a push of klines   *)
(* or ticks or the answer to a request for history; one the receiver       *)
(* ignores or cannot decode; bytes that are no frame.                      *)
FrameKinds == {"Data", "Ignored", "BadMagic"}

Push(kind) ==
  /\ link = "open" /\ Len(inbound) < MaxPushes
  /\ inbound' = Append(inbound, kind)
  /\ UNCHANGED <<link, writerVars, gatewayVars, read, receiver, channel, consumer,
                 consumed, clientDropped>>

Close ==
  /\ link = "open"
  /\ link' = "closed"
  /\ requests' = <<>> /\ subscribed' = {}
  /\ UNCHANGED <<writerVars, receiverVars, clientDropped>>

-----------------------------------------------------------------------------
(* The push receiver. *)

StartPushReceiver ==
  /\ receiver = "none" /\ ~clientDropped
  /\ receiver' = "reading"
  /\ UNCHANGED <<link, writerVars, gatewayVars, inbound, read, channel, consumer,
                 consumed, clientDropped>>

(* A mistaken receiver: it does not wait for room in the channel. *)
DropWhenFull ==
  /\ receiver = "reading" /\ read < Len(inbound)
  /\ read' = read + 1
  /\ receiver' = IF inbound[read'] = "BadMagic" THEN "ended" ELSE "reading"
  /\ channel' = IF inbound[read'] = "Data" /\ Len(channel) < ChannelSize
                THEN Append(channel, read') ELSE channel
  /\ UNCHANGED <<link, writerVars, gatewayVars, inbound, consumer, consumed, clientDropped>>

(* Each kind of data makes an event; history is a kline update without a  *)
(* kind of kline ("caller must track"). No frame is read while an event    *)
(* waits for room.                                                         *)
ReadFrame ==
  /\ receiver = "reading" /\ read < Len(inbound)
  /\ read' = read + 1
  /\ receiver' = CASE inbound[read'] = "BadMagic" -> "ended"
                   [] inbound[read'] = "Data"     -> "sending"
                   [] OTHER                       -> "reading"
  /\ channel' = IF inbound[read'] = "Data"
                THEN Append(channel, read') ELSE channel
  /\ UNCHANGED <<link, writerVars, gatewayVars, inbound, consumer, consumed, clientDropped>>

(* The end of the connection is an error of read_exact. *)
ReadEnd ==
  /\ receiver = "reading" /\ read = Len(inbound)
  /\ link # "open"
  /\ receiver' = "ended"
  /\ UNCHANGED <<link, writerVars, gatewayVars, inbound, read, channel, consumer,
                 consumed, clientDropped>>

(* send returns: there is room, or the consumer is gone. *)
SendEvent ==
  /\ receiver = "sending"
  /\ \/ /\ consumer = "receiving" /\ Len(channel) <= ChannelSize
        /\ receiver' = "reading"
        /\ UNCHANGED channel
     \/ /\ consumer = "gone"
        /\ receiver' = "ended"
        /\ channel' = <<>>
  /\ UNCHANGED <<link, writerVars, gatewayVars, inbound, read, consumer, consumed, clientDropped>>

ReceiverStep == ReadFrame \/ ReadEnd \/ SendEvent

-----------------------------------------------------------------------------
(* The consumer. *)

InChannel == Len(channel) - (IF receiver = "sending" THEN 1 ELSE 0)

Consume ==
  /\ consumer = "receiving" /\ InChannel > 0
  /\ consumed' = Append(consumed, Head(channel))
  /\ channel' = Tail(channel)
  /\ UNCHANGED <<link, writerVars, gatewayVars, inbound, read, receiver, consumer, clientDropped>>

HearEnd ==
  /\ consumer = "receiving" /\ receiver = "ended" /\ channel = <<>>
  /\ consumer' = "heard"
  /\ UNCHANGED <<link, writerVars, gatewayVars, inbound, read, receiver, channel,
                 consumed, clientDropped>>

Depart ==
  /\ consumer = "receiving" /\ receiver # "none"
  /\ consumer' = "gone"
  /\ channel' = IF receiver = "sending" THEN <<Last(channel)>> ELSE <<>>
  /\ UNCHANGED <<link, writerVars, gatewayVars, inbound, read, receiver, consumed, clientDropped>>

ConsumerStep == Consume \/ HearEnd

=============================================================================
