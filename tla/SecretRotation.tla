--------------------------- MODULE SecretRotation ---------------------------
(***************************************************************************)
(* Credentials in local envelopes.  An administrator's request writes a    *)
(* new envelope for a service and retires the one it read in the service's *)
(* configuration; the operator introduces a new master key, restarts the   *)
(* processes one by one, has the active envelopes wrapped again and takes  *)
(* the old keys out of the deployment when none is left to do.             *)
(***************************************************************************)
EXTENDS Integers, FiniteSets

CONSTANTS
    Services,   \* the services that have credentials, of whatever tenants
    Processes,  \* that answer requests
    Refs,       \* references of envelopes; bound: credentials committed
    MaxKeys,    \* bound: versions of the master key
    None

\* Of the constants; assumed where an instance gives them values.
RotationAssumption == None \notin Refs

VARIABLES
    config,    \* secret_ref of each service
    secret,    \* the ManagedSecret rows
    deployed,  \* the keyring of the deployment's configuration
    keyring,   \* the keyring each process was started with
    request    \* the request each process is serving

vars == <<config, secret, deployed, keyring, request>>

Idle == [at |-> "idle"]

Unused == [status |-> "unused", key |-> 0]

Init ==
    /\ config = [s \in Services |-> None]
    /\ secret = [r \in Refs |-> Unused]
    /\ deployed = [current |-> 1, previous |-> {}]
    /\ keyring = [p \in Processes |-> deployed]
    /\ request = [p \in Processes |-> Idle]

-----------------------------------------------------------------------------
(* A request that saves a service with a credential *)

Read(p, s) ==
    /\ request[p].at = "idle"
    /\ request' = [request EXCEPT ![p] = [at |-> "read", service |-> s, previous |-> config[s]]]
    /\ UNCHANGED <<config, secret, deployed, keyring>>

Written == {request[p].ref : p \in {q \in Processes : request[q].at \in {"stored", "flushed"}}}

\* The envelope that is to be retired, if it still is the active one.
Retires(ref) == {r \in {ref} \ {None} : secret[r].status = "active"}

Store(p) ==
    /\ request[p].at = "read"
    /\ \E r \in {ref \in Refs : secret[ref] = Unused} \ Written :
          request' = [request EXCEPT ![p] =
                        [at |-> "stored", service |-> @.service, previous |-> @.previous, ref |-> r,
                         key |-> keyring[p].current, retires |-> Retires(@.previous)]]
    /\ UNCHANGED <<config, secret, deployed, keyring>>

\* The rows of the service and of its old envelope are locked until the end; the first
\* row of a service is unique.
Flush(p) ==
    /\ request[p].at = "stored"
    /\ request[p].previous = None => config[request[p].service] = None
    /\ \A q \in Processes : request[q].at = "flushed" => request[q].service # request[p].service
    /\ request' = [request EXCEPT ![p].at = "flushed"]
    /\ UNCHANGED <<config, secret, deployed, keyring>>

Commit(p) ==
    /\ request[p].at = "flushed"
    /\ LET new == request[p] IN
       /\ config' = [config EXCEPT ![new.service] = new.ref]
       /\ secret' = [r \in Refs |->
                       IF r = new.ref THEN [status |-> "active", key |-> new.key]
                       ELSE IF r \in new.retires THEN [secret[r] EXCEPT !.status = "retired"]
                       ELSE secret[r]]
    /\ request' = [request EXCEPT ![p] = Idle]
    /\ UNCHANGED <<deployed, keyring>>

Abort(p) ==
    /\ request[p].at # "idle"
    /\ request' = [request EXCEPT ![p] = Idle]
    /\ UNCHANGED <<config, secret, deployed, keyring>>

-----------------------------------------------------------------------------
(* The operator *)

Restart(p) ==
    /\ keyring' = [keyring EXCEPT ![p] = deployed]
    /\ request' = [request EXCEPT ![p] = Idle]
    /\ UNCHANGED <<config, secret, deployed>>

RolledOut == \A p \in Processes : keyring[p] = deployed

IntroduceKey ==
    /\ deployed.current < MaxKeys /\ RolledOut
    /\ deployed' = [current |-> deployed.current + 1, previous |-> deployed.previous \cup {deployed.current}]
    /\ UNCHANGED <<config, secret, keyring, request>>

Keys(ring) == {ring.current} \cup ring.previous

Active == {r \in Refs : secret[r].status = "active"}

Locked == UNION {request[p].retires : p \in {q \in Processes : request[q].at = "flushed"}}

\* Mutant: envelopes a request holds are not waited for.
Pending_Unlocked == {r \in Active \ Locked : secret[r].key # deployed.current}

\* Active envelopes of an older key (rotation_pending).
Pending == {r \in Active : secret[r].key # deployed.current}

\* Rows that a request holds are skipped; one that cannot be decrypted stops it all.
Rewrap ==
    /\ Pending \ Locked # {}
    /\ \A r \in Pending \ Locked : secret[r].key \in Keys(deployed)
    /\ secret' = [r \in Refs |->
                    IF r \in Pending \ Locked THEN [secret[r] EXCEPT !.key = deployed.current] ELSE secret[r]]
    /\ UNCHANGED <<config, deployed, keyring, request>>

\* Every process runs with the new key, and nothing is reported as left to be rotated.
DropKeys ==
    /\ deployed.previous # {} /\ RolledOut
    /\ Pending = {}
    /\ deployed' = [deployed EXCEPT !.previous = {}]
    /\ UNCHANGED <<config, secret, keyring, request>>

Next ==
    \/ \E p \in Processes, s \in Services : Read(p, s)
    \/ \E p \in Processes : Store(p) \/ Flush(p) \/ Commit(p) \/ Abort(p) \/ Restart(p)
    \/ IntroduceKey \/ Rewrap \/ DropKeys

Spec == Init /\ [][Next]_vars

-----------------------------------------------------------------------------

\* resolve_secret succeeds in a process of the present deployment: the envelope of a
\* configured service is active and its key still there, whoever saves, fails, restarts
\* or rotates meanwhile.
NothingIsLost ==
    \A s \in {t \in Services : config[t] # None} :
        /\ secret[config[s]].status = "active"
        /\ secret[config[s]].key \in Keys(deployed)
=============================================================================
