------------------------- MODULE MCTenantGovernance -------------------------
(* Instance of TenantGovernance for TLC. *)
EXTENDS TenantGovernance

\* Somebody joins as an operator or is made one, or loses the seat.
MCRequests == [role : {"operator"}, status : {"active", "inactive"}]
=============================================================================
