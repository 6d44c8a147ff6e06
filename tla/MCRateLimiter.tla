---------------------------- MODULE MCRateLimiter ----------------------------
(* An instance of RateLimiter for TLC, and what the limit is documented to be. *)
EXTENDS RateLimiter, FiniteSetsExt

CONSTANTS
  h1, a1, a2,
  ClientOf   \* the client at the other end of each connection

OneClient == [a \in Addresses |-> "alice"]

\* README.md:243, RATE_LIMIT_PER_MINUTE "Per-client in-memory rate limit": a client gets at
\* most Limit requests through in a minute, over all of its connections.
PerClientLimit ==
  \A c \in {ClientOf[a] : a \in Addresses} : \A m \in Minutes :
    MapThenSumSet(LAMBDA a : admitted[a][m], {a \in Addresses : ClientOf[a] = c}) <= Limit
==============================================================================
