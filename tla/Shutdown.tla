------------------------------ MODULE Shutdown ------------------------------
(***************************************************************************)
(* The process between start and exit: the broker's loop, whose handlers   *)
(* queue mails, the mail worker, and the main goroutine, which stops them  *)
(* in turn after SIGTERM: the HTTP server, the broker, the mail worker,    *)
(* the database.  Every step has a time limit, so a handler, a request or  *)
(* a mail that hangs is left behind and goes on beside the later steps.    *)
(*                                                                         *)
(* The process is not killed here and does not start again, the connection *)
(* holds (MessageBroker has both).                                         *)
(***************************************************************************)
EXTENDS MessageBroker, MailWorker

VARIABLES stage,   \* what main does: "serving", "http", "stopping" (the broker,
                   \* then the mail worker), "closed" (the database), "exited"
          cutOff,  \* requests were still running after httpShutdownLimit
          gaveUp   \* the loop was still running after listenStopLimit

mainVars == <<stage, cutOff, gaveUp>>
shutdownVars == <<brokerVars, mailVars, mainVars>>

ShutdownInit == /\ BrokerInit /\ MailInit
                /\ stage = "serving" /\ cutOff = FALSE /\ gaveUp = FALSE

-----------------------------------------------------------------------------
(* What runs beside the main goroutine. *)

\* A handler queues its mails and returns when they are queued or refused.
HandlerQueues == \E j \in Jobs : loop.pc = "handling" /\ Enqueue(j)

LoopStep == Listen /\ (loop.pc = "handling" => caller.pc = "idle")

\* Requests run until the server is shut down, those cut off even longer.
RequestStep == /\ stage \in {"serving", "http"} \/ cutOff
               /\ \E r \in Requests : SendMessage(r)

Running == \/ /\ Mqtt \/ LoopStep \/ RequestStep
              /\ UNCHANGED <<mailVars, mainVars>>
           \/ /\ HandlerQueues \/ CallerStep \/ WorkerStep
              /\ UNCHANGED <<brokerVars, mainVars>>

-----------------------------------------------------------------------------
(* The main goroutine. *)

Quit == /\ stage = "serving" /\ stage' = "http"
        /\ UNCHANGED <<brokerVars, mailVars, cutOff, gaveUp>>

\* shutdownHTTP: all requests are answered; or the limit has passed.
HttpStops ==
  /\ stage = "http"
  /\ \/ sending = {} /\ UNCHANGED cutOff
     \/ cutOff' = TRUE
  /\ stage' = "stopping"
  /\ UNCHANGED <<brokerVars, mailVars, gaveUp>>

BrokerStops ==
  /\ stage = "stopping"
  /\ \/ (Stop \/ StopEnds) /\ UNCHANGED gaveUp
     \/ StopGivesUp /\ gaveUp' = TRUE
  /\ UNCHANGED <<mailVars, stage, cutOff>>

\* (slip: the mail worker is stopped first)
MailStopsFirst ==
  /\ stage = "stopping"
  /\ Close \/ StopStep
  /\ UNCHANGED <<brokerVars, mainVars>>

MailStops ==
  /\ stage = "stopping" /\ stop = "returned"
  /\ Close \/ StopStep
  /\ UNCHANGED <<brokerVars, mainVars>>

CloseDB ==
  /\ stage = "stopping" /\ stop = "returned" /\ stopper.pc = "returned"
  /\ stage' = "closed"
  /\ UNCHANGED <<brokerVars, mailVars, cutOff, gaveUp>>

End == /\ stage = "closed" /\ stage' = "exited"
       /\ UNCHANGED <<brokerVars, mailVars, cutOff, gaveUp>>

Main == HttpStops \/ BrokerStops \/ MailStops \/ CloseDB \/ End

ShutdownNext == stage # "exited" /\ (Running \/ Quit \/ Main)

\* Only what has a time limit goes on for certain, and the short step under
\* the queue's lock: handlers, requests and mails may hang for ever.
ShutdownSpec ==
  /\ ShutdownInit /\ [][ShutdownNext]_shutdownVars
  /\ WF_shutdownVars(stage # "exited" /\ Main)
  /\ WF_shutdownVars(stage # "exited" /\ TryQueue /\ UNCHANGED <<brokerVars, mainVars>>)

-----------------------------------------------------------------------------
\* "No handler queues a mail [...] after it": unless a handler was left behind,
\* no mail is refused because the worker has stopped.
NoMailRefusedByStop ==
  [][caller.pc = "idle" /\ caller'.pc = "refused" => gaveUp]_shutdownVars

\* An orderly stop leaves nothing behind: unless a handler hung, every message
\* that was acknowledged has been handled; and unless a request was cut off, all
\* have been published, because the loop outlives them.
NothingLostOnStop ==
  stage = "exited" => /\ ~gaveUp => arrived \subseteq held \cup handled
                      /\ ~cutOff => sending = {} /\ (loop.pc = "publishing" => gaveUp)

\* The process ends, whatever hangs.
ShutdownEnds == (stage = "http") ~> (stage = "exited")
=============================================================================
