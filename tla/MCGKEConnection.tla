-------------------------- MODULE MCGKEConnection --------------------------
(* Instances of GKEConnection for TLC. *)
EXTENDS GKEConnection

CONSTANTS p1, p2, g1

State(ip, dns, external, private, oldPrivate, ca) ==
  [ip |-> ip, dns |-> dns, dnsExternal |-> external, private |-> private,
   oldPrivate |-> oldPrivate, ca |-> ca]

\* the IP endpoint is switched off, and comes back at its address with a new CA
\* and a new private address
OffAndOn ==
  [c \in {g1} |-> <<State("ip1", NoHost, FALSE, NoHost, "pr", "ca1"),
                    State(NoHost, "dns", TRUE, NoHost, NoHost, BadCA),
                    State("ip1", "dns", TRUE, "pr2", "pr", "ca2")>>]

Remote(endpoint) == [cluster |-> g1, endpoint |-> endpoint, complete |-> TRUE]
Incomplete == [Remote("DNS") EXCEPT !.complete = FALSE]

\* two KRMSyncers that name the same endpoint in two ways, and one that is
\* incomplete
Named == {Remote(""), Remote("Default"), Incomplete}
==============================================================================
