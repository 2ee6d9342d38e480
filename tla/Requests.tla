------------------------------ MODULE Requests ------------------------------
(***************************************************************************)
(* The goroutines in which fiber serves HTTP requests, shared by the       *)
(* components that are composed in Desk: each serves one request at a      *)
(* time, of whichever component.                                           *)
(***************************************************************************)
EXTENDS FiniteSets

CONSTANT Worker  \* requests that can be in progress at once

ASSUME WorkerAssumption == IsFiniteSet(Worker)
=============================================================================
