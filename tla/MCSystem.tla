------------------------------ MODULE MCSystem -------------------------------
(***************************************************************************)
(* PHP processes and their broker for TLC.                                 *)
(***************************************************************************)
EXTENDS AheSystem, TLC

CONSTANTS p1, p2

(* The bounds on queues and sends are the four messages of a process's     *)
(* life, so they never bind.                                               *)
NoForeign == {}

(* Without signals: the broker may still be killed at any moment, fail and  *)
(* shut down between any two rounds, or never take another step.           *)
UnsignalledSpec ==
    /\ SystemInit
    /\ [][SystemNext /\ ~ahe_broker_stopping']_systemVars
    /\ \A p \in Conns : WF_systemVars(ProcessStep(p))

(* Nor is the broker killed, and it fails at the top of a round only: for  *)
(* liveness, where all a process can see is a broker that goes away or     *)
(* never takes another step.                                               *)
UndisturbedSpec ==
    /\ SystemInit
    /\ [][/\ SystemNext
          /\ ~ahe_broker_stopping'
          /\ (pc' = "drain" => pc \in {"setup", "drain"})
          /\ (pc' = "exited" => pc \in {"drain", "exited"})]_systemVars
    /\ \A p \in Conns : WF_systemVars(ProcessStep(p))

Symmetry == Permutations(Conns) \cup Permutations(Keys)

=============================================================================
