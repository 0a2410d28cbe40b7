----------------------------- MODULE Application -----------------------------
(***************************************************************************)
(* One life of the process (src/app.ts, src/server.ts): start, signal and  *)
(* shutdown of the parts that work side by side in it.  The delivery queue *)
(* is the one DeliveryDrain specifies; of the indexer and the pruners only *)
(* what the shutdown waits for is kept.                                    *)
(***************************************************************************)
EXTENDS DeliveryDrain

VARIABLES
  app,       \* what the start or the shutdown awaits; or how the process ended
  indexer,   \* "off", "boot", "poll" or "asleep"
  running,   \* the variable of that name in indexer.ts
  pruner,    \* "off", "timer" or "pass": the digest and the two pruners
  active,    \* pruneActive, digestActive
  listening, \* the port is open
  request,   \* of a ping; "left" is a handler whose client hung up
  timer      \* the ten seconds of SHUTDOWN_TIMEOUT_MS run

appVars == <<drainVars, app, indexer, running, pruner, active, listening, request, timer>>

Ended == {"clean", "forced"}

Up == app \notin Ended \cup {"starting"}

AppInit ==
  /\ DrainInit
  /\ app = "starting"
  /\ indexer = "off" /\ running = FALSE
  /\ pruner = "off" /\ active = FALSE
  /\ listening = FALSE /\ timer = FALSE
  /\ request = [p \in Pings |-> "none"]

(* process.exit: whatever is under way ends with the process.              *)
Exit(how) == /\ app' = how
             /\ phase' = "dead"
             /\ UNCHANGED <<begun, busy, indexer, running, pruner, active, listening,
                            request, timer>>

-----------------------------------------------------------------------------
(* The start.                                                              *)

(* migrateWebhookSecrets and buildServer are over; everything up to the    *)
(* signal handlers and the call of listen is one stretch.                  *)
Start == /\ app = "starting"
         /\ app' = "serving"
         /\ indexer' = "boot" /\ running' = TRUE
         /\ pruner' = "timer" /\ active' = TRUE
         /\ UNCHANGED <<drainVars, listening, request, timer>>

(* Either of them fails, or a signal finds no handler yet.                 *)
StartFails == app = "starting" /\ Exit("forced")

Listen == /\ Up /\ ~listening
          /\ listening' = TRUE
          /\ UNCHANGED <<drainVars, app, indexer, running, pruner, active, request, timer>>

ListenFails == Up /\ ~listening /\ Exit("forced")

-----------------------------------------------------------------------------
(* The parts at work.                                                      *)

(* readCursor answers, or fails and takes the process with it.             *)
IndexerBoots == /\ Up /\ indexer = "boot"
                /\ indexer' = IF running THEN "poll" ELSE "off"
                /\ UNCHANGED <<drainVars, app, running, pruner, active, listening, request, timer>>

BootFails == Up /\ indexer = "boot" /\ Exit("forced")

(* enqueueWebhookDispatch, which asks for no phase.                        *)
HandOver(t) ==
  /\ Up /\ indexer = "poll"
  /\ t \notin begun
  /\ begun' = begun \cup {t} /\ busy' = busy \cup {t}
  /\ UNCHANGED <<phase, app, indexer, running, pruner, active, listening, request, timer>>

IterationEnds == /\ Up /\ indexer = "poll"
                 /\ indexer' = IF running THEN "asleep" ELSE "off"
                 /\ UNCHANGED <<drainVars, app, running, pruner, active, listening, request, timer>>

IndexerWakes == /\ Up /\ indexer = "asleep"
                /\ indexer' = "poll"
                /\ UNCHANGED <<drainVars, app, running, pruner, active, listening, request, timer>>

PassBegins == /\ Up /\ pruner = "timer"
              /\ pruner' = "pass"
              /\ UNCHANGED <<drainVars, app, indexer, running, active, listening, request, timer>>

PassEnds == /\ Up /\ pruner = "pass"
            /\ pruner' = IF active THEN "timer" ELSE "off"
            /\ UNCHANGED <<drainVars, app, indexer, running, active, listening, request, timer>>

(* A server that closes answers 503 instead.                               *)
Accept(p) == /\ app \in {"serving", "stopping"} /\ listening
             /\ request[p] = "none"
             /\ request' = [request EXCEPT ![p] = "open"]
             /\ UNCHANGED <<drainVars, app, indexer, running, pruner, active, listening, timer>>

HangUp(p) == /\ Up /\ request[p] = "open"
             /\ request' = [request EXCEPT ![p] = "left"]
             /\ UNCHANGED <<drainVars, app, indexer, running, pruner, active, listening, timer>>

(* sendTestPing queues a delivery and the route awaits it, or there is no  *)
(* such webhook.                                                           *)
Ping(p) == /\ Up /\ request[p] \in {"open", "left"}
           /\ BeginWork(p)
           /\ UNCHANGED <<app, indexer, running, pruner, active, listening, request, timer>>

Answer(p) == /\ Up /\ request[p] \in {"open", "left"} /\ p \notin busy
             /\ request' = [request EXCEPT ![p] = "over"]
             /\ UNCHANGED <<drainVars, app, indexer, running, pruner, active, listening, timer>>

WorkEnds(w) == /\ Up /\ EndWork(w)
               /\ UNCHANGED <<app, indexer, running, pruner, active, listening, request, timer>>

-----------------------------------------------------------------------------
(* The shutdown.                                                           *)

\* Faulty variant: a pruner's timer is not cleared.
StopPruners_TimersRun == active' = FALSE /\ UNCHANGED pruner

StopPruners == /\ active' = FALSE
               /\ pruner' = IF pruner = "timer" THEN "off" ELSE pruner

\* Faulty variant: the timer is only set once the indexer has stopped.
ArmTimer_Later == UNCHANGED timer

ArmTimer == timer' = TRUE

(* The call of stopIndexer wakes a loop that sleeps.                       *)
StopIndexer == /\ running' = FALSE
               /\ indexer' = IF indexer = "asleep" THEN "off" ELSE indexer

(* shutdown up to its first await; a second signal joins it.  A pass in    *)
(* hand is not waited for.                                                 *)
Signal ==
  /\ app = "serving"
  /\ app' = "stopping"
  /\ StopPruners /\ ArmTimer /\ StopIndexer
  /\ UNCHANGED <<drainVars, listening, request>>

\* Faulty variant: stopIndexer is called and not awaited.
IndexerStopped_NoAwait == TRUE

IndexerStopped == indexer = "off"

(* server.close waits for the connections first: see the answers above.    *)
CloseServer ==
  /\ app = "stopping" /\ IndexerStopped
  /\ app' = "closing"
  /\ UNCHANGED <<drainVars, indexer, running, pruner, active, listening, request, timer>>

(* The last connection is gone: the onClose hook begins with the drain.    *)
ServerClosed ==
  /\ app = "closing"
  /\ \A p \in Pings : request[p] # "open"
  /\ app' = "draining"
  /\ StartDrain
  /\ UNCHANGED <<indexer, running, pruner, active, listening, request, timer>>

\* Faulty variant: the drain is called and not awaited.
Drained_NoAwait == phase \in {"draining", "closed"}

Drained == phase = "closed"

(* disconnectDb and disconnectRedis are called.                            *)
Disconnect ==
  /\ app = "draining" /\ Drained
  /\ app' = "disconnecting"
  /\ UNCHANGED <<drainVars, indexer, running, pruner, active, listening, request, timer>>

CleanExit == app = "disconnecting" /\ Exit("clean")

(* disconnectRedis or disconnectDb fails: the catch of shutdown.           *)
ShutdownFails == app = "disconnecting" /\ Exit("forced")

(* Ten seconds are up.                                                     *)
ShutdownTimeout == timer /\ Up /\ Exit("forced")

Work == \/ \E t \in Tips : HandOver(t)
        \/ \E p \in Pings : Accept(p) \/ HangUp(p) \/ Ping(p) \/ Answer(p)
        \/ \E w \in Tips \cup Pings : WorkEnds(w)
        \/ IndexerBoots \/ BootFails \/ IterationEnds \/ IndexerWakes
        \/ PassBegins \/ PassEnds

AppNext == \/ Start \/ StartFails \/ Listen \/ ListenFails
           \/ Work
           \/ Signal \/ CloseServer \/ ServerClosed \/ Disconnect
           \/ CleanExit \/ ShutdownFails \/ ShutdownTimeout

AppSpec == AppInit /\ [][AppNext]_appVars

(* Only the clock is relied on: a fetch of the indexer, a request, a       *)
(* delivery and a disconnect may all hang.                                 *)
AppFairSpec == AppSpec /\ WF_appVars(ShutdownTimeout)

-----------------------------------------------------------------------------
(* Properties.                                                             *)

(* The types; a loop that was told to stop does not sleep, and a pruner    *)
(* that was has no timer.                                                  *)
AppTypeOK ==
  /\ busy \subseteq begun /\ begun \subseteq Tips \cup Pings
  /\ phase \in {"up", "draining", "closed", "dead"}
  /\ app \in {"starting", "serving", "stopping", "closing", "draining", "disconnecting"}
             \cup Ended
  /\ indexer \in {"off", "boot", "poll", "asleep"} /\ (indexer = "asleep" => running)
  /\ pruner \in {"off", "timer", "pass"} /\ (pruner = "timer" => active)
  /\ request \in [Pings -> {"none", "open", "left", "over"}]
  /\ {running, active, listening, timer} \subseteq BOOLEAN

(* When the database and Redis are disconnected, and whenever the process  *)
(* reports a clean exit, the indexer is through with its iteration, every  *)
(* tip it handed over is delivered, every client that waited is answered,  *)
(* and no timer is left that would start a pass (app.ts, lines 54-75;      *)
(* server.ts, lines 172-175).  Handlers whose client hung up and a pass in *)
(* hand are not waited for.                                                *)
NothingCutOff ==
  app \in {"disconnecting", "clean"} =>
    /\ indexer = "off"
    /\ busy \cap Tips = {}
    /\ \A p \in Pings : request[p] # "open"
    /\ pruner # "timer"

(* The parts together keep to DeliveryDrain, although nothing at the queue *)
(* keeps a tip out once the drain has begun: the indexer is awaited before *)
(* (app.ts, lines 69-73).                                                  *)
KeepsToDrain == DrainSpec

(* A signal ends the process, even if the indexer, a request, a delivery   *)
(* or a disconnect hangs (lines 60-66).                                    *)
ShutdownEnds == app = "stopping" ~> app \in Ended
=============================================================================
