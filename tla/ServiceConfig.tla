----------------------------- MODULE ServiceConfig -----------------------------
(***************************************************************************)
(* Config (src/src/config.rs): defaults derived from the machine, then the *)
(* environment's overrides, then validate.  Memory is counted in MiB and   *)
(* max_response_size in KiB; everything else is in the units of the code.  *)
(***************************************************************************)
EXTENDS Integers, SequencesExt

\* What is read from the machine: available memory, available_parallelism and
\* the ENVIRONMENT variable (is_production_value).
System == [memory : Nat, cores : Nat \ {0}, production : BOOLEAN]

Port == {n \in Nat : n <= 65535}    \* a u16
Unparsable == -1    \* the value of a variable that is no number
Rejected == [rejected |-> TRUE]     \* load returned an error

Clamp(n, low, high) == IF n < low THEN low ELSE IF n > high THEN high ELSE n

\* The four memory classes of the calculators, 1 (low) to 4 (very high).
MemoryClass(memory) ==
    LET gb == memory \div 1024
    IN IF gb <= 2 THEN 1 ELSE IF gb <= 8 THEN 2 ELSE IF gb <= 16 THEN 3 ELSE 4

calculate_max_response_size(memory) == Clamp((memory * 1024) \div 1000, 1024, 10240)
calculate_cache_size(memory) == <<1000, 5000, 10000, 25000>>[MemoryClass(memory)]
calculate_buffer_pool_size(memory) == <<10, 50, 100, 200>>[MemoryClass(memory)]
calculate_buffer_size(memory) == <<4096, 8192, 16384, 32768>>[MemoryClass(memory)]

\* Mutant: the service is to use a quarter of the cores.
quarter_of_cores(cores) == cores \div 4

default_concurrency(cores) == IF cores < 8 THEN cores ELSE 8

\* The first variable that is set decides, also when it cannot be parsed.
PortNames == <<"PORT", "HTTP_PORT", "SERVER_PORT">>

get_default_port(env) ==
    LET present == {i \in DOMAIN PortNames : PortNames[i] \in DOMAIN env}
        first == PortNames[Min(present)]
    IN IF present = {} \/ env[first] \notin Port THEN 3000 ELSE env[first]

Defaults(sys, env) ==
    [port |-> get_default_port(env),
     whois_timeout_seconds |-> IF sys.production THEN 30 ELSE 15,
     max_response_size |-> calculate_max_response_size(sys.memory),
     cache_ttl_seconds |-> IF sys.production THEN 3600 ELSE 1800,
     negative_cache_ttl_seconds |-> 300,
     cache_max_entries |-> calculate_cache_size(sys.memory),
     max_referrals |-> IF sys.production THEN 10 ELSE 5,
     discovery_timeout_seconds |-> IF sys.production THEN 20 ELSE 10,
     concurrent_whois_queries |-> default_concurrency(sys.cores),
     buffer_pool_size |-> calculate_buffer_pool_size(sys.memory),
     buffer_size |-> calculate_buffer_size(sys.memory)]

\* A later line overrides an earlier one, so the short alias wins.
env_mappings == <<
    <<"PORT", "port">>,
    <<"WHOIS_TIMEOUT_SECONDS", "whois_timeout_seconds">>,
    <<"WHOIS_TIMEOUT", "whois_timeout_seconds">>,
    <<"MAX_RESPONSE_SIZE", "max_response_size">>,
    <<"CACHE_TTL_SECONDS", "cache_ttl_seconds">>,
    <<"CACHE_TTL", "cache_ttl_seconds">>,
    <<"NEGATIVE_CACHE_TTL_SECONDS", "negative_cache_ttl_seconds">>,
    <<"NEGATIVE_CACHE_TTL", "negative_cache_ttl_seconds">>,
    <<"CACHE_MAX_ENTRIES", "cache_max_entries">>,
    <<"CACHE_SIZE", "cache_max_entries">>,
    <<"MAX_REFERRALS", "max_referrals">>,
    <<"DISCOVERY_TIMEOUT_SECONDS", "discovery_timeout_seconds">>,
    <<"DISCOVERY_TIMEOUT", "discovery_timeout_seconds">>,
    <<"CONCURRENT_WHOIS_QUERIES", "concurrent_whois_queries">>,
    <<"BUFFER_POOL_SIZE", "buffer_pool_size">>,
    <<"BUFFER_SIZE", "buffer_size">>>>

\* The lines that set a field.
Overrides(field, env) ==
    {i \in DOMAIN env_mappings :
        env_mappings[i][2] = field /\ env_mappings[i][1] \in DOMAIN env}

apply_env_overrides(defaults, env) ==
    [f \in DOMAIN defaults |->
        IF Overrides(f, env) = {} THEN defaults[f]
        ELSE env[env_mappings[Max(Overrides(f, env))][1]]]

\* try_deserialize: a value that is no number, or no u16 for the port.
Deserializes(c) ==
    /\ \A f \in DOMAIN c : c[f] # Unparsable
    /\ c.port \in Port

\* Mutant: the permits are not validated.
validateSizes(c) ==
    \A f \in {"port", "whois_timeout_seconds", "buffer_size", "buffer_pool_size",
              "max_response_size"} : c[f] # 0

validate(c) ==
    \A f \in {"port", "whois_timeout_seconds", "buffer_size", "buffer_pool_size",
              "max_response_size", "concurrent_whois_queries"} : c[f] # 0

load(sys, env) ==
    LET c == apply_env_overrides(Defaults(sys, env), env)
    IN IF Deserializes(c) /\ validate(c) THEN c ELSE Rejected
===============================================================================
