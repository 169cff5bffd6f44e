------------------------ MODULE MCHelloAuthentication ------------------------
(***************************************************************************)
(* What a hello needs: the credential files, the daemon's authenticator    *)
(* and the producer's sockets.  The modules share no state, so a behaviour *)
(* picks one of them and only that one moves.                              *)
(***************************************************************************)
EXTENDS HelloAuthentication, BrokerConnection, CredentialStore, TLC

CONSTANTS cg, pg, h1, h2, r1, r2, g1, g2, g3, c1, l1, l2, l3, callers

VARIABLE part

MCHello == {h1, h2}
MCRequest == {r1, r2}
MCGeneration == {g1, g2, g3}
MCLoader == {l1, l2, l3}
MCSymmetry == Permutations(MCHello) \cup Permutations(MCRequest)

MCInit ==
    /\ AuthInit /\ Init /\ CredentialInit
    /\ part \in {"authenticator", "connection", "credentials"}
    /\ part # "connection" => ~bridge
    /\ part # "credentials" => published = [r \in Role |-> NoKey]

MCNext ==
    /\ UNCHANGED part
    /\ \/ part = "authenticator" /\ AuthNext /\ UNCHANGED <<vars, credentialVars>>
       \/ part = "connection" /\ Next /\ UNCHANGED <<authVars, credentialVars>>
       \/ part = "credentials" /\ CredentialNext /\ UNCHANGED <<authVars, vars>>

MCSpec == MCInit /\ [][MCNext]_<<authVars, vars, credentialVars, part>>
=============================================================================
