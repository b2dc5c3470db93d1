---------------------------- MODULE GuardedPaths ----------------------------
(***************************************************************************)
(* What a service that has a name of its own before its paths promises of  *)
(* them (the order of the addresses, and the ? in bind_multiple,           *)
(* listener.rs 489-495): the name is a lock.  Only who holds it touches    *)
(* the files, nobody does while an instance is up, an instance is up only  *)
(* when all of them lead to it, and the name changes hands only through    *)
(* nobody's.                                                               *)
(***************************************************************************)
CONSTANT Instances

VARIABLES
  holder,  (* of the name: nobody, or one instance     *)
  up,      (* the instances whose service is up        *)
  leads    (* per path: nowhere, or to one instance    *)

vars == <<holder, up, leads>>

Init == holder = {} /\ up = {} /\ \A p \in DOMAIN leads : leads[p] = {}

Acquire(i) ==
  /\ holder = {}
  /\ holder' = {i}
  /\ UNCHANGED <<up, leads>>

Unlink(i) == \E p \in DOMAIN leads :
  /\ holder = {i} /\ up = {}
  /\ leads' = [leads EXCEPT ![p] = {}]
  /\ UNCHANGED <<holder, up>>

Make(i) == \E p \in DOMAIN leads :
  /\ holder = {i} /\ up = {}
  /\ leads[p] = {}
  /\ leads' = [leads EXCEPT ![p] = {i}]
  /\ UNCHANGED <<holder, up>>

Serve(i) ==
  /\ holder = {i} /\ up = {}
  /\ \A p \in DOMAIN leads : leads[p] = {i}
  /\ up' = {i}
  /\ UNCHANGED <<holder, leads>>

(* It fails or ends, and leaves its files. *)
Release(i) ==
  /\ holder = {i}
  /\ holder' = {} /\ up' = {}
  /\ UNCHANGED leads

Next == \E i \in Instances : Acquire(i) \/ Unlink(i) \/ Make(i) \/ Serve(i) \/ Release(i)

Spec == Init /\ [][Next]_vars
=============================================================================
