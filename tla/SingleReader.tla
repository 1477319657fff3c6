--------------------------- MODULE SingleReader ---------------------------
(***************************************************************************)
(* What the reader-busy flag of a device promises to its callers: at any   *)
(* time at most one session owns the bulk endpoint, only the owner runs a  *)
(* transfer on it, and the owner gives the endpoint up between transfers.  *)
(* BulkStream implements this specification.                               *)
(***************************************************************************)
EXTENDS FiniteSets

CONSTANT Sessions      \* the sessions that compete for the endpoint

VARIABLES
    owner,             \* the session that owns the endpoint, as a set
    inFlight           \* the session whose transfer is pending, as a set

srVars == <<owner, inFlight>>

SRTypeOK == owner \subseteq Sessions /\ inFlight \subseteq Sessions

SRInit == owner = {} /\ inFlight = {}

Acquire(s) == owner = {} /\ owner' = {s} /\ UNCHANGED inFlight

Begin(s) ==
    /\ owner = {s} /\ inFlight = {}
    /\ inFlight' = {s}
    /\ UNCHANGED owner

Complete(s) == inFlight = {s} /\ inFlight' = {} /\ UNCHANGED owner

Release(s) ==
    /\ owner = {s} /\ inFlight = {}
    /\ owner' = {}
    /\ UNCHANGED inFlight

SRNext == \E s \in Sessions : Acquire(s) \/ Begin(s) \/ Complete(s) \/ Release(s)

SRSpec == SRInit /\ [][SRNext]_srVars
===========================================================================
