------------------------------- MODULE Pipeline -------------------------------
(***************************************************************************)
(* The two threads of the server and the two rings between them            *)
(* (include/matchbox/engine_thread.hpp, Server::run, submit and            *)
(* drain_engine in src/server.cpp, main in src/main_server.cpp): who waits *)
(* for whom, from start to shutdown.                                       *)
(*                                                                         *)
(* A ring is the number of elements in it: SpscQueue shows that it is a    *)
(* bounded queue.  A try_push or try_pop that fails is followed by another *)
(* one, a step that changes nothing here.  What the commands and events    *)
(* say is in Engine; here a command causes 1 to MaxEvents events.          *)
(***************************************************************************)
EXTENDS Integers

CONSTANTS
  InboxCap,    \* capacity of inbox_, 2^ring_log2
  Batch,       \* most frames submitted in one round of Server::run
  MaxEvents    \* most events one Engine::process sends

ASSUME PipelineAssumption ==
  InboxCap \in Nat \ {0} /\ Batch \in Nat /\ MaxEvents \in Nat \ {0}

(* The capacity of outbox_, 2^(ring_log2 + 2).                             *)
OutboxCap == 4 * InboxCap

VARIABLES
  inbox, outbox,   \* elements in the rings
  gpc,             \* gateway thread: "poll", "submit", "drain", "stopped"
  frames,          \* frames of this round that are still to be submitted
  round,           \* history: the frames this round began with
  epc,             \* engine thread: "loop", "emit" (in process), "done"
  events,          \* events process has still to send
  stop,            \* g_stop, set by a signal
  engineStop       \* EngineThread::stop_

pipelineVars == <<inbox, outbox, gpc, frames, round, epc, events, stop, engineStop>>
gatewayVars == <<gpc, frames, round, stop, engineStop>>
engineVars == <<epc, events>>

PipelineInit ==
  /\ inbox = 0 /\ outbox = 0
  /\ gpc = "poll" /\ frames = 0 /\ round = 0
  /\ epc = "loop" /\ events = 0
  /\ stop = FALSE /\ engineStop = FALSE
------------------------------------------------------------------------------
(* The gateway thread.                                                     *)

(* The top of run's loop: wait returns with n frames to handle; it returns *)
(* from run when stop is set, or when the poller fails.                    *)
Poll(n) ==
  /\ gpc = "poll" /\ ~ stop
  /\ gpc' = "submit" /\ frames' = n /\ round' = n
  /\ UNCHANGED <<inbox, outbox, stop, engineStop, engineVars>>

Return ==
  /\ gpc = "poll"
  /\ gpc' = "stopped"
  /\ UNCHANGED <<inbox, outbox, frames, round, stop, engineStop, engineVars>>

(* submit() of the next frame, once there is room.                         *)
Submit ==
  /\ gpc = "submit" /\ frames > 0 /\ inbox < InboxCap
  /\ inbox' = inbox + 1
  /\ frames' = frames - 1
  /\ UNCHANGED <<outbox, gpc, round, stop, engineStop, engineVars>>

Submitted ==
  /\ gpc = "submit" /\ frames = 0
  /\ gpc' = "drain"
  /\ UNCHANGED <<inbox, outbox, frames, round, stop, engineStop, engineVars>>

(* Fault: drain_engine takes one event a round.                            *)
Drain_one ==
  /\ gpc = "drain"
  /\ outbox' = IF outbox > 0 THEN outbox - 1 ELSE outbox
  /\ gpc' = "poll"
  /\ UNCHANGED <<inbox, frames, round, stop, engineStop, engineVars>>

(* Fault: drain_engine waits for an event.                                 *)
Drain_waits ==
  /\ gpc = "drain" /\ outbox > 0
  /\ outbox' = outbox - 1
  /\ gpc' = IF outbox = 1 THEN "poll" ELSE gpc
  /\ UNCHANGED <<inbox, frames, round, stop, engineStop, engineVars>>

(* A round of drain_engine's loop.  The session and publisher flushes that *)
(* follow it do not wait for anything.                                     *)
Drain ==
  /\ gpc = "drain"
  /\ \/ outbox > 0 /\ outbox' = outbox - 1 /\ UNCHANGED gpc
     \/ outbox = 0 /\ gpc' = "poll" /\ UNCHANGED outbox
  /\ UNCHANGED <<inbox, frames, round, stop, engineStop, engineVars>>

(* Fault: main joins the engine thread without telling it to stop.         *)
StopEngine_unsaid ==
  /\ gpc = "stopped" /\ ~ engineStop
  /\ UNCHANGED pipelineVars

(* main: engine.stop() after run has returned; it then waits for "done".   *)
StopEngine ==
  /\ gpc = "stopped" /\ ~ engineStop
  /\ engineStop' = TRUE
  /\ UNCHANGED <<inbox, outbox, gpc, frames, round, stop, engineVars>>
------------------------------------------------------------------------------
(* The engine thread.                                                      *)

(* loop: a command is there, process is called and will send n events.     *)
Take(n) ==
  /\ epc = "loop" /\ ~ engineStop /\ inbox > 0
  /\ inbox' = inbox - 1
  /\ epc' = "emit" /\ events' = n
  /\ UNCHANGED <<outbox, gatewayVars>>

(* on_event() of the next event, once there is room; stop_ is not looked   *)
(* at here.                                                                *)
Emit ==
  /\ epc = "emit" /\ events > 0 /\ outbox < OutboxCap
  /\ outbox' = outbox + 1
  /\ events' = events - 1
  /\ UNCHANGED <<inbox, epc, gatewayVars>>

Processed ==
  /\ epc = "emit" /\ events = 0
  /\ epc' = "loop"
  /\ UNCHANGED <<inbox, outbox, events, gatewayVars>>

Leave ==
  /\ epc = "loop" /\ engineStop
  /\ epc' = "done"
  /\ UNCHANGED <<inbox, outbox, events, gatewayVars>>
------------------------------------------------------------------------------
Signal ==
  /\ ~ stop
  /\ stop' = TRUE
  /\ UNCHANGED <<inbox, outbox, gpc, frames, round, engineStop, engineVars>>

Gateway == (\E n \in 0 .. Batch : Poll(n)) \/ Return \/ Submit \/ Submitted \/ Drain \/ StopEngine
EngineThread == (\E n \in 1 .. MaxEvents : Take(n)) \/ Emit \/ Processed \/ Leave

(* The program has ended.                                                  *)
Ended == gpc = "stopped" /\ epc = "done" /\ UNCHANGED pipelineVars

PipelineNext == Gateway \/ EngineThread \/ Signal \/ Ended

PipelineSpec == PipelineInit /\ [][PipelineNext]_pipelineVars

(* Both threads keep running; a signal need not come.                      *)
FairPipelineSpec == PipelineSpec /\ WF_pipelineVars(Gateway) /\ WF_pipelineVars(EngineThread)
------------------------------------------------------------------------------
PipelineTypeOK ==
  /\ inbox \in 0 .. InboxCap /\ outbox \in 0 .. OutboxCap
  /\ gpc \in {"poll", "submit", "drain", "stopped"} /\ frames \in 0 .. Batch /\ round \in 0 .. Batch
  /\ epc \in {"loop", "emit", "done"} /\ events \in 0 .. MaxEvents
  /\ stop \in BOOLEAN /\ engineStop \in BOOLEAN

(* on_event() finds the outbox full (engine_thread.hpp:32).                *)
EngineWaits == epc = "emit" /\ events > 0 /\ outbox = OutboxCap

(* Each thread waits for the other: submit() spins on a full inbox         *)
(* (server.cpp:140) while the engine spins on a full outbox.               *)
Standstill == gpc = "submit" /\ frames > 0 /\ inbox = InboxCap /\ EngineWaits

(* engine.stop() joins an engine thread that waits for a gateway that has  *)
(* left run.                                                               *)
JoinHangs == gpc = "stopped" /\ EngineWaits

(* "a full ring only happens under a burst" (server.cpp:138-139), and how  *)
(* large a burst: the threads stand still only when the frames of this one *)
(* round that were submitted so far, with the command in process, cause    *)
(* more events than the outbox holds, whatever was left over from earlier  *)
(* rounds; and stop() hangs only when the commands processed since the     *)
(* last drain_engine() do.                                                 *)
WaitsOnlyAfterBurst ==
  /\ Standstill => OutboxCap < MaxEvents * (round - frames + 1)
  /\ JoinHangs => OutboxCap < MaxEvents * (InboxCap - inbox + 1)

(* Every round of the gateway ends, or the threads stand still: nothing    *)
(* else keeps it in submit(), and drain_engine() comes to its end although *)
(* the engine keeps filling the outbox meanwhile.                          *)
RoundEnds == (gpc \in {"submit", "drain"}) ~> (gpc \in {"poll", "stopped"} \/ Standstill)

(* A signal ends the program, main's join included, unless the engine      *)
(* waits for room in an outbox that nobody drains any more: in a burst, or *)
(* after run has returned.  stop_ is not looked at in that wait.           *)
StopEnds == stop ~> ((gpc = "stopped" /\ epc = "done") \/ Standstill \/ JoinHangs)

(* "a full ring only happens under a burst, so just wait for it to drain"  *)
(* (server.cpp:138-139): the wait in submit() ends.                        *)
SubmitReturns == (gpc = "submit") ~> (gpc # "submit")

(* Why WaitsOnlyAfterBurst holds: the events that the outbox holds and     *)
(* that commands already taken over can still cause are those of a full    *)
(* inbox and one command in process whenever the outbox was drained, and   *)
(* grow only by what is submitted after that.                              *)
Work == outbox + events + MaxEvents * inbox

WorkFits ==
  /\ gpc \in {"poll", "stopped"} => Work <= MaxEvents * (InboxCap + 1)
  /\ gpc \in {"submit", "drain"} => Work <= MaxEvents * (InboxCap + 1) + MaxEvents * (round - frames)
  /\ frames <= round
  /\ gpc # "submit" => frames = 0
  /\ epc # "emit" => events = 0

PipelineInv == PipelineTypeOK /\ WorkFits
==============================================================================
