--------------------------- MODULE MessageBroker ---------------------------
(***************************************************************************)
(* The MQTT broker of the backend: one loop (Listen) handles the messages  *)
(* of the grid operators and publishes the requests of the web client.     *)
(*                                                                         *)
(* Channels have no buffer.  The MQTT client runs a goroutine for every    *)
(* message it receives, in any order (SetOrderMatters(false)), which waits *)
(* until the loop takes the message, and acknowledges it then, before it   *)
(* is handled.  The MQTT server keeps a message until it is acknowledged   *)
(* (QoS 1, no clean session) and delivers it again after a reconnect.      *)
(* The process may be killed at any time and starts again.                 *)
(*                                                                         *)
(* Bounds: MaxLosses connection losses, MaxKills kills.                    *)
(***************************************************************************)
EXTENDS Naturals, FiniteSets

CONSTANTS Messages,   \* messages and commands of the grid operators
          Requests,   \* requests of the web client to a grid operator
          NoItem,
          MaxLosses, MaxKills

ASSUME BrokerAssumption == /\ NoItem \notin Messages \cup Requests
                           /\ Messages \cap Requests = {}
                           /\ MaxLosses \in Nat /\ MaxKills \in Nat

VARIABLES arrived,    \* messages the MQTT server ever got
          held,       \* messages it keeps: not acknowledged
          delivered,  \* messages it delivered over the present connection
          connected,
          losses,     \* connections lost
          waiting,    \* <<m, c>>: a goroutine waits to hand over m, which it
                      \* got over a connection before which c were lost
          toAck,      \* messages handed over, to be acknowledged
          sending,    \* requests whose SendMessage waits for the loop
          asked,      \* requests ever made
          loop,       \* the goroutine of Listen
          handled,    \* messages handled, at least once
          closing,    \* the close channel is closed
          stop,       \* the goroutine in Stop: "up", "waiting", "returned"
          kills       \* kills, and exits that left a handler behind

netVars == <<arrived, held, delivered, connected, losses, waiting, toAck>>
loopVars == <<sending, asked, loop, handled>>
stopVars == <<closing, stop, kills>>
brokerVars == <<netVars, loopVars, stopVars>>

BrokerTypeOK ==
  /\ held \subseteq arrived /\ arrived \subseteq Messages
  /\ delivered \subseteq arrived /\ toAck \subseteq held \cap delivered /\ handled \subseteq arrived
  /\ connected \in BOOLEAN /\ closing \in BOOLEAN
  /\ losses \in 0 .. MaxLosses /\ kills \in 0 .. MaxKills
  /\ waiting \subseteq Messages \X (0 .. MaxLosses)
  /\ sending \subseteq asked /\ asked \subseteq Requests
  /\ loop \in [pc : {"handling"}, item : Messages] \cup [pc : {"publishing"}, item : Requests]
                \cup [pc : {"select", "ended"}, item : {NoItem}]
  /\ stop \in {"up", "waiting", "returned"}

Selecting == [pc |-> "select", item |-> NoItem]

\* broker.Init has connected, Listen runs.
BrokerInit ==
  /\ arrived = {} /\ held = {} /\ handled = {} /\ asked = {}
  /\ delivered = {} /\ toAck = {} /\ sending = {} /\ waiting = {}
  /\ connected = TRUE /\ losses = 0
  /\ loop = Selecting /\ closing = FALSE /\ stop = "up" /\ kills = 0

-----------------------------------------------------------------------------
(* The MQTT server and client. *)

Arrive(m) ==
  /\ m \notin arrived
  /\ arrived' = arrived \cup {m} /\ held' = held \cup {m}
  /\ UNCHANGED <<delivered, connected, losses, waiting, toAck, loopVars, stopVars>>

\* (slip: acknowledge when the goroutine starts)
DeliverAcked(m) ==
  /\ connected /\ m \in held \ delivered
  /\ delivered' = delivered \cup {m} /\ toAck' = toAck \cup {m}
  /\ waiting' = waiting \cup {<<m, losses>>}
  /\ UNCHANGED <<arrived, held, connected, losses, loopVars, stopVars>>

Deliver(m) ==
  /\ connected /\ m \in held \ delivered
  /\ delivered' = delivered \cup {m}
  /\ waiting' = waiting \cup {<<m, losses>>}
  /\ UNCHANGED <<arrived, held, connected, losses, toAck, loopVars, stopVars>>

Ack(m) ==
  /\ connected /\ m \in toAck
  /\ toAck' = toAck \ {m} /\ held' = held \ {m}
  /\ UNCHANGED <<arrived, delivered, connected, losses, waiting, loopVars, stopVars>>

\* The client drops the acknowledgements of a connection that is gone.
ConnectionLost ==
  /\ connected /\ losses < MaxLosses
  /\ connected' = FALSE /\ losses' = losses + 1 /\ toAck' = {}
  /\ UNCHANGED <<arrived, held, delivered, waiting, loopVars, stopVars>>

\* (slip: the callback of the new connection waits for the loop)
ReconnectWhenIdle ==
  /\ ~connected /\ stop # "returned" /\ loop.pc = "select"
  /\ connected' = TRUE /\ delivered' = {}
  /\ UNCHANGED <<arrived, held, losses, waiting, toAck, loopVars, stopVars>>

\* The client reconnects until it is told to disconnect.
Reconnect ==
  /\ ~connected /\ stop # "returned"
  /\ connected' = TRUE /\ delivered' = {}
  /\ UNCHANGED <<arrived, held, losses, waiting, toAck, loopVars, stopVars>>

-----------------------------------------------------------------------------
(* Listen. *)

Receive(m, c) ==
  /\ loop.pc = "select" /\ <<m, c>> \in waiting
  /\ waiting' = waiting \ {<<m, c>>}
  /\ toAck' = IF connected /\ c = losses THEN toAck \cup {m} ELSE toAck
  /\ loop' = [pc |-> "handling", item |-> m]
  /\ UNCHANGED <<arrived, held, delivered, connected, losses, sending, asked, handled, stopVars>>

\* (slip: a handler that panics takes the loop along)
HandledOrDead ==
  /\ loop.pc = "handling"
  /\ handled' = handled \cup {loop.item}
  /\ loop' \in {Selecting, [Selecting EXCEPT !.pc = "ended"]}
  /\ UNCHANGED <<netVars, sending, asked, stopVars>>

\* The handler returns, or panics and is recovered.
Handled ==
  /\ loop.pc = "handling"
  /\ handled' = handled \cup {loop.item}
  /\ loop' = Selecting
  /\ UNCHANGED <<netVars, sending, asked, stopVars>>

\* A request handler calls SendMessage; it returns when the loop took the request.
SendMessage(r) ==
  /\ r \notin asked
  /\ asked' = asked \cup {r} /\ sending' = sending \cup {r}
  /\ UNCHANGED <<netVars, loop, handled, stopVars>>

TakeRequest(r) ==
  /\ loop.pc = "select" /\ r \in sending
  /\ sending' = sending \ {r}
  /\ loop' = [pc |-> "publishing", item |-> r]
  /\ UNCHANGED <<netVars, asked, handled, stopVars>>

\* The loop waits for the server's confirmation, hence for a connection.
Published ==
  /\ loop.pc = "publishing" /\ connected
  /\ loop' = Selecting
  /\ UNCHANGED <<netVars, sending, asked, handled, stopVars>>

\* select takes any channel that is ready, so this may come late.
StopListening ==
  /\ loop.pc = "select" /\ closing
  /\ loop' = [Selecting EXCEPT !.pc = "ended"]
  /\ UNCHANGED <<netVars, sending, asked, handled, stopVars>>

Listen == \/ \E m \in Messages, c \in 0 .. MaxLosses : Receive(m, c)
          \/ \E r \in Requests : TakeRequest(r)
          \/ Handled \/ Published \/ StopListening

-----------------------------------------------------------------------------
(* Stop, and the end of the process. *)

Stop ==
  /\ stop = "up"
  /\ stop' = "waiting" /\ closing' = TRUE
  /\ UNCHANGED <<netVars, loopVars, kills>>

Disconnect == connected' = FALSE /\ toAck' = {}

\* (slip: Stop does not wait for the loop)
StopEndsAtOnce ==
  /\ stop = "waiting"
  /\ stop' = "returned" /\ Disconnect
  /\ UNCHANGED <<arrived, held, delivered, losses, waiting, loopVars, closing, kills>>

\* Listen has returned.
StopEnds ==
  /\ stop = "waiting" /\ loop.pc = "ended"
  /\ stop' = "returned" /\ Disconnect
  /\ UNCHANGED <<arrived, held, delivered, losses, waiting, loopVars, closing, kills>>

\* listenStopLimit has passed: a handler, or a publication, is left behind.
StopGivesUp ==
  /\ stop = "waiting" /\ loop.pc # "ended"
  /\ stop' = "returned" /\ Disconnect
  /\ UNCHANGED <<arrived, held, delivered, losses, waiting, loopVars, closing, kills>>

\* A new process; the server keeps the session.
Restarted ==
  /\ delivered' = {} /\ toAck' = {} /\ sending' = {} /\ waiting' = {}
  /\ connected' = TRUE /\ loop' = Selecting /\ closing' = FALSE /\ stop' = "up"
  /\ UNCHANGED <<arrived, held, handled, asked, losses>>

\* The process ends some time after Stop.
Exit ==
  /\ stop = "returned" /\ Restarted
  /\ IF loop.pc = "handling" THEN kills < MaxKills /\ kills' = kills + 1
                             ELSE UNCHANGED kills

Kill == /\ kills < MaxKills
        /\ Restarted /\ kills' = kills + 1

-----------------------------------------------------------------------------
Mqtt == \/ \E m \in Messages : Arrive(m) \/ Deliver(m) \/ Ack(m)
        \/ ConnectionLost \/ Reconnect

BrokerNext == \/ Mqtt \/ Listen
              \/ \E r \in Requests : SendMessage(r)
              \/ Stop \/ StopEnds \/ StopGivesUp \/ Exit \/ Kill

\* Connections come back, delivered messages arrive, handlers end (their
\* database calls have time limits), the process starts again.  Go's select
\* takes a channel that stays ready sooner or later.
BrokerFairness ==
  /\ WF_brokerVars(Reconnect) /\ WF_brokerVars(Listen) /\ WF_brokerVars(StopEnds) /\ WF_brokerVars(Exit)
  /\ \A m \in Messages : WF_brokerVars(Deliver(m)) /\ WF_brokerVars(Ack(m))

BrokerSpec == BrokerInit /\ [][BrokerNext]_brokerVars /\ BrokerFairness

-----------------------------------------------------------------------------
\* Messages the server no longer keeps and nobody has handled or is handling.
Lost == {m \in arrived \ (held \cup handled) : loop.item # m}

\* A message is acknowledged when the loop takes it, so a kill can lose the
\* one that is being handled, and no other; an orderly stop loses none.
OneLostPerKill == Cardinality(Lost) <= kills

\* Every message is handled in the end, or lost to a kill: also one that
\* arrives while the loop is busy, stops, or waits for the connection; unless
\* the process is restarted for ever.
EveryMessageHandled ==
  <>[](stop = "up") => \A m \in Messages : m \in arrived ~> (m \in handled \/ m \in Lost)

\* No web request waits for the loop for ever: the loop takes it, or the
\* process ends.
NoRequestStuck == \A r \in Requests : r \in sending ~> r \notin sending
=============================================================================
