--------------------------- MODULE MCRelaySession ---------------------------
(* Instances of RelaySession for TLC. *)
EXTENDS RelaySession

(* States are told apart without wire and received.  They are where messages *)
(* end: no guard reads them and they decide no other variable, and of the    *)
(* properties only DurableOrchestrator needs what is in them (a run of its   *)
(* own, without this view) and OneWay what a step adds to wire.              *)
View == <<sandboxes, queue, pollWaiters, pollTimers, polls,
          clients, readyState, mailbox, sent, handed>>
=============================================================================
