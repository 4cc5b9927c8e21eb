------------------------------ MODULE Provider ------------------------------
(***************************************************************************)
(* FutuMarketDataProvider (market-data/src/provider.rs) over its client:   *)
(* subscriptions, and the aggregators it keeps for them. A provider is     *)
(* owned by one task, which makes one call at a time.                      *)
(***************************************************************************)
EXTENDS FutuClient

VARIABLE aggregators  \* the keys of the map: pairs of a security and a timeframe

providerVars == <<clientVars, aggregators>>

ProviderInit == Connected /\ aggregators = {}

Call(request) == Begin("caller", request) /\ UNCHANGED aggregators

Subscribe == \E s \in SUBSET Securities \ {{}}, t \in TimeframeLists :
  Call(SubRequest("subscribe", s, t))

Unsubscribe == \E s \in SUBSET Securities \ {{}}, t \in TimeframeLists :
  Call(SubRequest("unsubscribe", s, t))

(* The answer goes to the push receiver; the caller gets no bars. *)
FetchHistoricalBars == Call(HistoryRequest)

(* A mistaken key: an unsubscription ends all timeframes of its securities. *)
KeyedBySecurity(request) ==
  CASE request.op = "subscribe" ->
         aggregators \cup (request.securities \X request.timeframes)
    [] request.op = "unsubscribe" ->
         aggregators \ (request.securities \X ClientTimeframes)
    [] OTHER -> aggregators

(* Aggregators are made and removed once the request is written. *)
AfterCall(request) ==
  CASE request.op = "subscribe" ->
         aggregators \cup (request.securities \X request.timeframes)
    [] request.op = "unsubscribe" ->
         aggregators \ (request.securities \X request.timeframes)
    [] OTHER -> aggregators

CallReturns ==
  /\ Return("caller")
  /\ aggregators' = AfterCall(sending["caller"])

KeepAlive ==
  /\ Begin("keepAlive", KeepAliveRequest) \/ Return("keepAlive")
  /\ UNCHANGED aggregators

Calls == Subscribe \/ Unsubscribe \/ FetchHistoricalBars

ClientStep ==
  /\ \/ \E w \in Writers : WriterStep(w)
     \/ StartPushReceiver \/ ReceiverStep \/ DropClient
  /\ UNCHANGED aggregators

Environment ==
  /\ \/ Serve \/ Close \/ \E kind \in FrameKinds : Push(kind)
     \/ ConsumerStep \/ Depart
  /\ UNCHANGED aggregators

ProviderNext == Calls \/ CallReturns \/ KeepAlive \/ ClientStep \/ Environment

(* Tasks that can go on are polled: the lock is fair, the kernel takes what *)
(* is written, and a consumer that stays receives. Nothing makes a task     *)
(* call, the gateway serve or push, or the connection close.                *)
Fairness ==
  /\ \A w \in Writers : WF_providerVars(WriterStep(w) /\ UNCHANGED aggregators)
  /\ WF_providerVars(CallReturns)
  /\ WF_providerVars(ReceiverStep /\ UNCHANGED aggregators)
  /\ WF_providerVars(ConsumerStep /\ UNCHANGED aggregators)

ProviderSpec == ProviderInit /\ [][ProviderNext]_providerVars /\ Fairness

-----------------------------------------------------------------------------

(* Whoever writes, the gateway can cut the bytes into frames: every header *)
(* is followed by its own body, and serial numbers follow one another. At  *)
(* most the last frame is unfinished.                                      *)
FramesAreWhole == \A i \in 1..Len(wire) :
  IF i % 2 = 1
  THEN wire[i].part = "header" /\ wire[i].serial = FirstSerial + i \div 2
  ELSE wire[i] = [part |-> "body", by |-> wire[i - 1].by]

(* Every frame of data read is passed on once and in order, however slow   *)
(* the consumer is and however small the channel; only the drop of the     *)
(* client may lose the one that waits for room.                            *)
EventsKeepOrder ==
  LET due == {n \in 1..read : inbound[n] = "Data"}
      passed == consumed \o channel
  IN  consumer # "gone" =>
        /\ \A i, j \in DOMAIN passed : i < j => passed[i] < passed[j]
        /\ \/ Range(passed) = due
           \/ /\ clientDropped
              /\ \E final \in due : /\ \A n \in due : n <= final
                                    /\ Range(passed) = due \ {final}

(* Weekly and daily bars share a subscription: unsubscribing one starves   *)
(* the other.                                                              *)
Shared == {"Daily", "Weekly"}

(* When no call is under way and the gateway has read every request, the   *)
(* bars it pushes are those there are aggregators for: none is fed to      *)
(* nobody, and none but a sharer waits for bars that will not come.        *)
BarsHaveAggregators ==
  link = "open" /\ place["caller"] = "idle" /\ requests = <<>> =>
    /\ \A p \in subscribed : p[2] # "RT" =>
         \E a \in aggregators : a[1] = p[1] /\ SubType(a[2]) = p[2]
    /\ \A a \in aggregators : a[2] \in Shared \/ a \in subscribed

(* No call waits for ever: not for the lock either, which the other writer *)
(* gives back also when its write fails.                                   *)
CallsReturn == place["caller"] # "idle" ~> place["caller"] = "idle"

(* A consumer that stays hears of the end of the connection, or of the     *)
(* client, after every event that was in the channel.                      *)
EndIsHeard ==
  receiver # "none" /\ (link # "open" \/ clientDropped) ~> consumer \in {"heard", "gone"}

NobodyWaitsForEver == CallsReturn /\ EndIsHeard

=============================================================================
