------------------------- MODULE MCNetworkObserver -------------------------
(* Small instances of NetworkObserver for TLC.                             *)
EXTENDS NetworkObserver

\* Named sets for the configurations.
Off == {}
TcpOnly == {{"tcp"}}
AllKinds == {{}, {"dns"}, {"tcp", "dns", "http"}}
\* A UDP socket that is not connected, DNS, HTTP and HTTPS.
SomePorts == {0, 53, 80, 443}
Https == {443}
\* The texts of the probes, and a name.
SomeTexts == {pending_domain, no_domain, NoPayload, "a.example"}
=============================================================================
