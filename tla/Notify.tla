------------------------------- MODULE Notify -------------------------------
(***************************************************************************)
(* Package notify: alerts go through a channel of bounded capacity to one  *)
(* goroutine that sends them, each once.                                   *)
(***************************************************************************)
EXTENDS Naturals, Sequences

CONSTANTS Events,
          NoEvent,
          Capacity     \* of the channel, 256 in the code

VARIABLES queue,       \* the channel
          sending,     \* what the goroutine is delivering
          attempted,   \* alerts whose Send has returned
          dropped      \* alerts that found the channel full

notifyVars == <<queue, sending, attempted, dropped>>

TypeOK ==
  /\ queue \in Seq(Events) /\ Len(queue) <= Capacity
  /\ sending \in Events \cup {NoEvent}
  /\ attempted \subseteq Events
  /\ dropped \subseteq Events

Init ==
  /\ queue = << >>
  /\ sending = NoEvent
  /\ attempted = {}
  /\ dropped = {}

-----------------------------------------------------------------------------
(* Mistake: a full channel blocks the caller. *)
AfterSensitiveActionWaits(e) ==
  /\ Len(queue) < Capacity
  /\ queue' = Append(queue, e)
  /\ UNCHANGED <<sending, attempted, dropped>>

AfterSensitiveAction(e) ==
  /\ IF Len(queue) < Capacity
     THEN queue' = Append(queue, e) /\ UNCHANGED dropped
     ELSE dropped' = dropped \cup {e} /\ UNCHANGED queue
  /\ UNCHANGED <<sending, attempted>>

(* Mistake: the goroutine receives one alert and ends. *)
ReceiveOnce ==
  /\ sending = NoEvent /\ attempted = {}
  /\ queue # << >>
  /\ sending' = Head(queue)
  /\ queue' = Tail(queue)
  /\ UNCHANGED <<attempted, dropped>>

(* The loop of start. *)
Receive ==
  /\ sending = NoEvent
  /\ queue # << >>
  /\ sending' = Head(queue)
  /\ queue' = Tail(queue)
  /\ UNCHANGED <<attempted, dropped>>

(* deliver: Send returns; an error is logged and not tried again. *)
Sent ==
  /\ sending # NoEvent
  /\ attempted' = attempted \cup {sending}
  /\ sending' = NoEvent
  /\ UNCHANGED <<queue, dropped>>
=============================================================================
