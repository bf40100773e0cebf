-------------------------- MODULE MCAdministration --------------------------
(***************************************************************************)
(* Constants for model-checking Administration: calls that compete for a  *)
(* domain, an e-mail, the settings of a tenant, and two connections.       *)
(*                                                                         *)
(* Two calls of any operation are enough to race for a row.  A third      *)
(* comes to two that make tenants, which hold both connections and maybe  *)
(* the key of the domain it wants: only then can it wait for either.       *)
(***************************************************************************)
EXTENDS Administration

CONSTANTS c1, c2, c3, d1, d2

MCDefaults == [k \in Keys |-> CHOOSE v \in Values : TRUE]

\* Requests name the domain d2, or, updates, none; the seeded tenant has that
\* or another one.  Of the first two calls the one that arrives first is called c1.
Arrivals ==
    /\ \A c \in Calls : Op(c) \in {"provision", "create", "update"} =>
                            request[c].domain # d1
    /\ request[c2] # NoInput => request[c1] # NoInput
    /\ request[c3] # NoInput =>
          /\ Op(c1) = "provision" /\ Op(c2) \in {"provision", "create"}
          /\ Op(c3) \in {"create", "register"}

\* A call that is never sent is waited for by nobody.
Unsent ==
    /\ \A c \in Calls : pc[c] \in Final \cup {"idle"}
    /\ UNCHANGED vars

FairSpecOfArrivals ==
    /\ Init
    /\ [][(Next /\ Arrivals') \/ Unsent]_vars
    /\ \A c \in Calls : WF_vars(Step(c))
=============================================================================
