---------------------------- MODULE MCServices ----------------------------
EXTENDS Services

\* A device of the venue's network that speaks TLS, the kiosk's own browser,
\* and a relay on the host that forwards for somebody else.
MCDevices == {[key |-> "lan", addr |-> "private", tls |-> TRUE, forwarded |-> FALSE],
              [key |-> "lo", addr |-> "loopback", tls |-> FALSE, forwarded |-> FALSE],
              [key |-> "lo", addr |-> "loopback", tls |-> FALSE, forwarded |-> TRUE]}
=============================================================================
