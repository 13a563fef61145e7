------------------------------- MODULE MCZone -------------------------------
(* Small deployments for model checking Zone: one backend with three calls,  *)
(* two of them by one process, or several backends with two calls.           *)
EXTENDS Zone, TLC

CONSTANTS v1, v2

MCSymmetry == Permutations({v1, v2})
MCOwner == <<1, 1, 2>>

On(k, q, n) == [kinds |-> k, quorum |-> q, calls |-> n]

MCDeployments ==
    {On(<<"update", "memory">>, q, 2) : q \in {<<"all">>, <<"any">>}}
    \cup {On(<<"update", "node">>, <<"any">>, 2),
          On(<<"memory", "cloudflare">>, <<"all">>, 2),
          On(<<"foreign", "node">>, <<"any">>, 2),
          On(<<"memory", "memory", "node">>, <<"atleast", 2>>, 2),
          On(<<"update">>, <<"all">>, 3),
          On(<<"cloudflare">>, <<"all">>, 3)}
=============================================================================
