---------------------------- MODULE MCEventLoop ------------------------------
EXTENDS EventLoop, TLC

CONSTANTS p1, p2, p3, p4, ip1, ip2

All == [perProcess |-> TRUE, network |-> TRUE, filesystem |-> TRUE, scheduling |-> TRUE]
HostOnly == [All EXCEPT !.perProcess = FALSE, !.filesystem = FALSE]
NoScheduling == [All EXCEPT !.scheduling = FALSE, !.network = FALSE]

Lives == {<<"exec", {}>>, <<"exit", {}>>}
Families == {<<"fork", {}>>, <<"exit", {}>>}
Connections == {<<"connect", {}>>, <<"connect", {"port"}>>}
Files == {<<"openat", {}>>, <<"openat", {"tmp", "sensitive"}>>, <<"openat", {"tmp"}>>,
          <<"write", {}>>, <<"exec", {"sudo"}>>}

MCMaxEvents == Lives :> 3 @@ Families :> 4 @@ Connections :> 3 @@ Files :> 2
MCMaxTime == Lives :> 3 @@ Families :> 1 @@ Connections :> 1 @@ Files :> 1

MCOptions == Lives :> {All, NoScheduling} @@ Families :> {All, HostOnly, NoScheduling}
               @@ Connections :> {All, HostOnly, NoScheduling} @@ Files :> {All, HostOnly}

MCStarted == Lives :> {p1} @@ Families :> {p1, p2} @@ Connections :> {p1, p2} @@ Files :> {p1}
MCWorkloads == DOMAIN MCMaxEvents

Symmetry == {f @@ g : f \in Permutations({p3, p4}), g \in Permutations({ip1, ip2})}
=============================================================================
