-------------------------- MODULE MCContractManager --------------------------
(* ContractManager for TLC: the settings.                                  *)
EXTENDS ContractManager

\* The default, with exits; and used contracts tracked against a platform
\* that offers them again, one request at a time.
DefaultAndTracked ==
    {[track |-> FALSE, reoffers |-> FALSE, exits |-> TRUE, requests |-> Requests],
     [track |-> TRUE, reoffers |-> TRUE, exits |-> FALSE,
      requests |-> {CHOOSE r \in Requests : TRUE}]}
=============================================================================
