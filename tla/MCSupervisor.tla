---------------------------- MODULE MCSupervisor ----------------------------
(* Supervisor on a small instance: workers that declare different profiles. *)
EXTENDS Supervisor

MCProfiles == {[conc |-> 1, caps |-> 1], [conc |-> 0, caps |-> 2]}
=============================================================================
