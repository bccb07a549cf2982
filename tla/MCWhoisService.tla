---------------------------- MODULE MCWhoisService -----------------------------
(* Instances of WhoisService for TLC. *)
EXTENDS WhoisService

CONSTANTS iana, nic, alt

\* The pattern host is used when the root has nothing better.
NicOnly == <<nic>>

\* All hosts answer at first; then one of them may change.
AllAnswer == {[s \in Servers |-> "answers"]}

\* The registry's host alt is lost and nic replaces it; nic is slow at everything, or
\* connects slowly and never ends its answers; IANA turns connections away.
Trouble ==
    {[host |-> alt, kind |-> "unroutable", named |-> nic],
     [host |-> nic, kind |-> "late", named |-> nic],
     [host |-> nic, kind |-> "drags", named |-> nic],
     [host |-> iana, kind |-> "refuses", named |-> alt]}

\* The registry's host is lost and its successor is named.
HostLost == {[host |-> alt, kind |-> "unroutable", named |-> nic]}

\* Referrals: the registry's host refers to another, and both to each other.
Cycle == {[s \in Servers |-> IF s = nic THEN alt ELSE nic]}

\* A small, a middling and a large machine.
Machines == {[memory |-> 0, cores |-> 2, production |-> FALSE],
             [memory |-> 6000, cores |-> 4, production |-> TRUE],
             [memory |-> 65536, cores |-> 64, production |-> TRUE]}

\* A developer's machine and no variable set.
Development == {[memory |-> 6000, cores |-> 2, production |-> FALSE]}
Unset == {<<>>}

\* Every value that depends on the machine is set, so that the machines share their
\* configurations: one with time limits that are short beside RequestTimeout, one
\* with long ones, and two that must be rejected.
Limits(timeout) ==
    [v \in {"WHOIS_TIMEOUT_SECONDS", "WHOIS_TIMEOUT", "DISCOVERY_TIMEOUT",
            "MAX_REFERRALS", "CONCURRENT_WHOIS_QUERIES", "BUFFER_POOL_SIZE",
            "BUFFER_SIZE", "MAX_RESPONSE_SIZE", "CACHE_SIZE", "CACHE_TTL"} |->
        CASE v = "WHOIS_TIMEOUT" -> timeout [] v = "MAX_REFERRALS" -> 2 [] OTHER -> 1]
Settings == {Limits(1), Limits(30), "CONCURRENT_WHOIS_QUERIES" :> 0 @@ Limits(1),
             "PORT" :> Unparsable @@ Limits(1)}
===============================================================================
