---------------------------- MODULE IdentityStore ----------------------------
(***************************************************************************)
(* What the worker promises about the user's identities, without handlers, *)
(* awaits, messages or failures: a list and a selected member of it, each  *)
(* changed by one of five atomic operations.                               *)
(***************************************************************************)
EXTENDS Naturals, Sequences, SequencesExt

CONSTANT Ids

VARIABLES identities, active

store == <<identities, active>>

StoreInit == identities = <<>> /\ active = 0

\* The identities found at start-up; never on top of others.
Load ==
    /\ identities = <<>>
    /\ identities' \in Seq(Ids) /\ identities' # <<>>
    /\ active' = 0

\* A created or restored identity is selected at once.
Add ==
    \E id \in Ids :
        /\ identities' = Append(identities, id)
        /\ active' = Len(identities)

\* The identity that replaces the last one takes the selected place unless
\* another arrived before it.
Refill ==
    \E id \in Ids :
        /\ identities' = Append(identities, id)
        /\ UNCHANGED active

\* The selected identity stays selected unless it is the one removed; then a
\* neighbour is, if there is one.
Drop(i) ==
    /\ identities' = RemoveAt(identities, i)
    /\ IF identities' = <<>> THEN active' = 0
       ELSE /\ active' < Len(identities')
            /\ IF i = active + 1
               THEN active' \in {active, active - 1}
               ELSE identities'[active' + 1] = identities[active + 1]

Select(i) ==
    /\ active' = i - 1
    /\ UNCHANGED identities

StoreNext ==
    \/ Load \/ Add \/ Refill
    \/ \E i \in 1..Len(identities) : Drop(i) \/ Select(i)

StoreSpec == StoreInit /\ [][StoreNext]_store
=============================================================================
