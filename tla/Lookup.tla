--------------------------------- MODULE Lookup --------------------------------
(***************************************************************************)
(* One HTTP client's lookups, from the request to the reply: validation    *)
(* and the cache (src/src/lib.rs, src/src/main.rs), RDAP first             *)
(* (src/src/rdap.rs), WHOIS and its referrals if RDAP fails                *)
(* (src/src/whois.rs), and the HTTP status (src/src/errors.rs).  What the  *)
(* servers say is any of RdapBodies and Texts.  How their hosts are found, *)
(* and how long they take, is in RdapBootstrap and WhoisService; what the  *)
(* cache does with concurrent callers and with time is in CacheService.    *)
(***************************************************************************)
EXTENDS RdapRecord

Ip == INSTANCE IpRanges

CONSTANTS
    Inputs,             \* what clients ask for: [has, ip]
    RdapBodies,         \* bodies of RDAP responses, for domains and for addresses
    IpBodies,
    Texts,              \* WHOIS answers of the first server and of a referral, ...
    ReferralTexts,
    IpTexts,            \* ... for domains and for addresses
    IpReferralTexts,
    MaxRetryAttempts,   \* MAX_RETRY_ATTEMPTS of rdap.rs
    MaxReferrals        \* max_referrals of the Config

ASSUME LookupAssumption ==
    /\ MaxRetryAttempts \in Nat /\ MaxReferrals \in Nat
    /\ \A input \in Inputs : "address" \in input.has => input.ip \in Ip!Addresses

VARIABLES
    request,    \* the request being served, or the last one
    stage,      \* what it waits for
    seen,       \* the outcomes of its RDAP queries, in order
    chain,      \* the WHOIS answers it has: the first server's, then the referrals'
    cache,      \* the cache, with room for one response
    reply       \* the reply to the last request

vars == <<request, stage, seen, chain, cache, reply>>

Stages == {"idle", "rdap", "rdapQuery", "whois", "whoisQuery", "referral"}
Statuses == {"Found", "NotFound", "RateLimited"}
RdapOutcomes == {"200", "404", "429", "5xx", "tooLarge", "transport"}

\* The errors of a WHOIS query (UnsupportedTld aside, which comes before it).
QueryErrors == {"Timeout", "IoError", "ResponseTooLarge", "InvalidUtf8", "Internal"}

NoRequest == [input |-> [has |-> {}, ip |-> <<>>], fresh |-> FALSE, debug |-> FALSE]
NoResponse == [server |-> None]
NoEntry == [query |-> NoRequest.input]
NoReply == [code |-> 0, error |-> None, response |-> NoResponse]

Init ==
    /\ request = NoRequest
    /\ stage = "idle"
    /\ seen = <<>> /\ chain = <<>>
    /\ cache = NoEntry
    /\ reply = NoReply

-------------------------------------------------------------------------------
(* Validation *)

ValidDomain(has) ==
    "dot" \in has /\ ~Has(has, {"/", ":", "?", "#", "@", " "}) /\ "dns name" \in has

\* ValidatedQuery::new on what the trimmed input has; "digits" and "hex" say that it
\* has no other characters besides its dots (and, for hex, colons).
Validate(input) ==
    CASE "address" \in input.has -> "Ok"
      [] {"dot", "digits"} \subseteq input.has \/ {":", "hex"} \subseteq input.has ->
            "InvalidIpAddress"
      [] ValidDomain(input.has) -> "Ok"
      [] OTHER -> "InvalidDomain"

IsIp(r) == "address" \in r.input.has
Rir(r) == Ip!detect_rir(r.input.ip)

-------------------------------------------------------------------------------
(* The end of a request *)

duplicate(error) == IF error \in {"IoError", "HttpError"} THEN "Internal" ELSE error

HttpStatus(error) ==
    CASE error \in {"InvalidDomain", "InvalidIpAddress", "UnsupportedIpAddress",
                    "UnsupportedTld"} -> 400
      [] error \in {"Timeout", "Elapsed"} -> 408
      [] error = "RateLimited" -> 503
      [] error = "ResponseTooLarge" -> 413
      [] error \in {"InvalidUtf8", "HttpError"} -> 502
      [] error \in {"IoError", "Internal"} -> 500

Refuse(error) ==
    /\ reply' = [code |-> HttpStatus(error), error |-> error, response |-> NoResponse]
    /\ stage' = "idle"

Response(server, raw, parsed, status) ==
    [server |-> server, raw |-> raw, parsed |-> parsed, status |-> status,
     cached |-> FALSE, analysis |-> TRUE]

\* The analysis is kept for debug requests only.
Send(r, response) ==
    /\ reply' = [code |-> 200, error |-> None,
                 response |-> [response EXCEPT !.analysis = @ /\ r.debug]]
    /\ stage' = "idle"

\* Mutant: a fresh answer refreshes the cache.
StoreAll(response) ==
    cache' = IF response.status = "RateLimited" THEN cache
             ELSE [query |-> request.input, response |-> response]

\* get_or_fetch stores what it fetched, but keeps no throttled answer; a fresh lookup
\* does not go through it.
Store(response) ==
    cache' = IF request.fresh \/ response.status = "RateLimited" THEN cache
             ELSE [query |-> request.input, response |-> response]

Deliver(response) == Store(response) /\ Send(request, response)

\* The entry expires or is evicted.
Expire ==
    /\ stage = "idle" /\ cache # NoEntry
    /\ cache' = NoEntry
    /\ UNCHANGED <<request, stage, seen, chain, reply>>

-------------------------------------------------------------------------------
(* The handlers *)

\* perform_whois_lookup up to the first wait: the handler validates the query, the
\* cache answers it, or a lookup starts.
Serve(r) ==
    /\ stage = "idle"
    /\ request' = r
    /\ seen' = <<>> /\ chain' = <<>>
    /\ UNCHANGED cache
    /\ IF Validate(r.input) # "Ok" THEN Refuse(Validate(r.input))
       ELSE IF ~r.fresh /\ cache.query = r.input
       THEN Send(r, [cache.response EXCEPT !.cached = TRUE])
       ELSE stage' = "rdap" /\ reply' = NoReply

\* /whois, by GET, POST or path
whois_lookup ==
    \E input \in Inputs, fresh \in BOOLEAN :
        Serve([input |-> input, fresh |-> fresh, debug |-> FALSE])

\* /whois/debug: always fresh
whois_debug ==
    \E input \in Inputs : Serve([input |-> input, fresh |-> TRUE, debug |-> TRUE])

-------------------------------------------------------------------------------
(* RDAP *)

\* detect_rir, or find_rdap_server, which may find none; then WHOIS is tried.
FindRdapServer ==
    /\ stage = "rdap"
    /\ IF IsIp(request)
       THEN stage' = IF Rir(request) = "Unsupported" THEN "whois" ELSE "rdapQuery"
       ELSE stage' \in {"rdapQuery", "whois"}
    /\ UNCHANGED <<request, seen, chain, cache, reply>>

\* Mutant: every error is worth another attempt.
RetriesAll(outcome) == Len(seen) < MaxRetryAttempts

\* Mutant: the first attempt is not counted.
RetriesOnceMore(outcome) == outcome = "transport" /\ Len(seen) <= MaxRetryAttempts

\* Only HttpError is transient: the request timed out or the connection failed.
Retries(outcome) == outcome = "transport" /\ Len(seen) < MaxRetryAttempts

RdapFails ==
    /\ stage = "rdapQuery"
    /\ \E outcome \in {"429", "5xx", "tooLarge", "transport"} :
          /\ seen' = Append(seen, outcome)
          /\ stage' = IF Retries(outcome) THEN "rdapQuery" ELSE "whois"
    /\ UNCHANGED <<request, chain, cache, reply>>

RdapServer == IF IsIp(request) THEN Rir(request) ELSE "rdap"

\* A body that is no JSON is an answer without a record.
RdapAnswers ==
    /\ stage = "rdapQuery"
    /\ seen' = Append(seen, "200")
    /\ \E body \in IF IsIp(request) THEN IpBodies ELSE RdapBodies :
          LET parsed == IF IsIp(request) THEN parse_rdap_ip_response(body)
                        ELSE parse_rdap_response(body)
          IN Deliver(Response(RdapServer, body, parsed, "Found"))
    /\ UNCHANGED <<request, chain>>

\* Mutant: a 404 is a failure like the others.
AskWhoisAfter404 ==
    /\ stage = "rdapQuery"
    /\ seen' = Append(seen, "404")
    /\ stage' = "whois"
    /\ UNCHANGED <<request, chain, cache, reply>>

\* 404 is the registry's word that there is no such object.
RdapNotFound ==
    /\ stage = "rdapQuery"
    /\ seen' = Append(seen, "404")
    /\ Deliver(Response(RdapServer, NotJson, NoRecord, "NotFound"))
    /\ UNCHANGED <<request, chain>>

-------------------------------------------------------------------------------
(* WHOIS *)

\* detect_rir again, or find_whois_server.
FindWhoisServer ==
    /\ stage = "whois"
    /\ \/ ~(IsIp(request) /\ Rir(request) = "Unsupported")
          /\ stage' = "whoisQuery" /\ UNCHANGED reply
       \/ IsIp(request) /\ Rir(request) = "Unsupported" /\ Refuse("UnsupportedIpAddress")
       \/ ~IsIp(request) /\ Refuse("UnsupportedTld")
    /\ UNCHANGED <<request, seen, chain, cache>>

\* Mutant: the error of the preferred protocol is the one reported.
ReportRdapError(error) ==
    IF seen # <<>> /\ Last(seen) = "transport" THEN "HttpError" ELSE error

\* When both protocols fail the client is told of WHOIS.
ReportedError(error) == error

WhoisFails ==
    /\ stage = "whoisQuery"
    /\ \E error \in QueryErrors : Refuse(ReportedError(error))
    /\ UNCHANGED <<request, seen, chain, cache>>

\* Mutant: only the text is put back.
KeepServerName(answers) ==
    LET first == answers[1]
        final == Last(answers)
        parsed == parse_whois_data(final.text)
        status == classify_response(final.text, parsed)
        firstParsed == parse_whois_data(first.text)
    IN IF Len(answers) > 1 /\ status = "RateLimited"
       THEN Response(final.server, first.text, firstParsed,
                     classify_response(first.text, firstParsed))
       ELSE Response(final.server, final.text,
                     IF Len(answers) > 1 THEN fill_missing_from(parsed, firstParsed)
                     ELSE parsed, status)

\* Mutant: the answer of the last server is the result, throttled or not.
TakeLast(answers) ==
    LET final == Last(answers)
        parsed == parse_whois_data(final.text)
    IN Response(final.server, final.text,
                fill_missing_from(parsed, parse_whois_data(answers[1].text)),
                classify_response(final.text, parsed))

\* WhoisService::lookup: the last referral's answer with what it lacks from the first
\* server, or the first server's if only the referral was throttled.  The status is
\* that of the answer as it came.
DomainResult(answers) ==
    LET first == answers[1]
        final == Last(answers)
        parsed == parse_whois_data(final.text)
        status == classify_response(final.text, parsed)
        firstParsed == parse_whois_data(first.text)
        firstStatus == classify_response(first.text, firstParsed)
    IN IF Len(answers) = 1 THEN Response(first.server, first.text, parsed, status)
       ELSE IF status # "RateLimited"
       THEN Response(final.server, final.text, fill_missing_from(parsed, firstParsed),
                     status)
       ELSE IF firstStatus # "RateLimited"
       THEN Response(first.server, first.text, firstParsed, firstStatus)
       ELSE Response(final.server, final.text, parsed, status)

\* lookup_ip: the status is that of the text with the record as completed.
IpResult(answers) ==
    LET final == Last(answers)
        parsed == parse_ip_whois_data(final.text)
        filled == IF Len(answers) = 1 THEN parsed
                  ELSE fill_missing_from(parsed, parse_ip_whois_data(answers[1].text))
    IN Response(final.server, final.text, filled, classify_response(final.text, filled))

Result(answers) == IF IsIp(request) THEN IpResult(answers) ELSE DomainResult(answers)

\* follow_referrals: the next server, if the last answer names one to be asked.
Target(answers) == extract_whois_server(Last(answers).text)

MayFollow(answers) ==
    /\ Target(answers) # None
    /\ \A i \in DOMAIN answers : answers[i].server # Target(answers)
    /\ Len(answers) - 1 < MaxReferrals

GoOnWith(answers) ==
    /\ chain' = answers
    /\ IF MayFollow(answers) THEN stage' = "referral" /\ UNCHANGED <<cache, reply>>
       ELSE Deliver(Result(answers))

WhoisAnswers ==
    /\ stage = "whoisQuery"
    /\ \E text \in IF IsIp(request) THEN IpTexts ELSE Texts :
          GoOnWith(<<[server |-> IF IsIp(request) THEN Rir(request) ELSE "registry",
                      text |-> text]>>)
    /\ UNCHANGED <<request, seen>>

ReferralAnswers ==
    /\ stage = "referral"
    /\ \E text \in IF IsIp(request) THEN IpReferralTexts ELSE ReferralTexts :
          GoOnWith(Append(chain, [server |-> Target(chain), text |-> text]))
    /\ UNCHANGED <<request, seen>>

\* The answers so far have to do.
ReferralFails ==
    /\ stage = "referral"
    /\ Deliver(Result(chain))
    /\ UNCHANGED <<request, seen, chain>>

-------------------------------------------------------------------------------

\* The TimeoutLayer drops the handler, wherever it waits.
TimeOut ==
    /\ \/ stage \in {"rdapQuery", "whoisQuery", "referral"}
       \/ stage \in {"rdap", "whois"} /\ ~IsIp(request)
    /\ Refuse("Elapsed")
    /\ UNCHANGED <<request, seen, chain, cache>>

Next ==
    \/ whois_lookup \/ whois_debug \/ Expire \/ TimeOut
    \/ FindRdapServer \/ RdapFails \/ RdapAnswers \/ RdapNotFound
    \/ FindWhoisServer \/ WhoisFails \/ WhoisAnswers
    \/ ReferralAnswers \/ ReferralFails

Spec == Init /\ [][Next]_vars

-------------------------------------------------------------------------------
(* Properties *)

Answered == reply.code = 200
FromWhois == Answered /\ ~reply.response.cached /\ chain # <<>>

RecordIn(text) ==
    IF IsIp(request) THEN parse_ip_whois_data(text) ELSE parse_whois_data(text)

FirstRecord == RecordIn(chain[1].text)

\* Every variable has its type; a reply has a response exactly when it has no error.
TypeOK ==
    /\ stage \in Stages
    /\ seen \in Seq(RdapOutcomes) /\ Len(seen) <= MaxRetryAttempts + 1
    /\ Len(chain) <= MaxReferrals + 1
    /\ cache # NoEntry => cache.response.status \in {"Found", "NotFound"}
    /\ reply.code \in {0, 200, 400, 408, 413, 500, 502, 503}
    /\ Answered <=> reply.response # NoResponse
    /\ Answered => reply.response.status \in Statuses
    /\ (reply.code \notin {0, 200}) <=> reply.error # None

\* "Referrals are enrichment": whatever the chain of referrals comes to, a lookup
\* loses no field that the first server filled, unless all it got was throttled
\* (whois.rs 119-127, 176-185).
FieldsKept ==
    FromWhois /\ reply.response.status # "RateLimited" =>
        \A f \in Fields : FirstRecord[f] # {} => reply.response.parsed[f] # {}

\* A throttled referral does not make a domain's lookup throttled: RateLimited is
\* reported, and thus not cached, only when the registry's own answer was a banner
\* (whois.rs 107-121).
ThrottleHidden ==
    FromWhois /\ ~IsIp(request) /\ reply.response.status = "RateLimited" =>
        classify_response(chain[1].text, FirstRecord) = "RateLimited"

\* "A real record that merely mentions 'not found' or carries an appended quota
\* notice still classifies as Found": the text that is reported under another status
\* has no registrar, creation date or name server in it (parser.rs 52-58).
NoticeNeverMasks ==
    FromWhois /\ reply.response.status # "Found" =>
        ~HasRecordData(RecordIn(reply.response.raw))

\* Server, raw text and record are one answer's, whichever answer of the chain was taken
\* in the end: the server that is named gave the text, every field that the text has is
\* in the record as the text has it, and what it lacks is empty or the first server's,
\* never that of a server between the two (whois.rs 107-130, 173-185).
AnswerIsItsServers ==
    FromWhois =>
        \E i \in DOMAIN chain :
            /\ chain[i].server = reply.response.server
            /\ chain[i].text = reply.response.raw
            /\ \A f \in Fields :
                  LET own == RecordIn(chain[i].text)[f]
                  IN reply.response.parsed[f] \in
                        IF own # {} THEN {own} ELSE {{}, FirstRecord[f]}

\* Whose date an age belongs to: to the date beside it, if that can be read.  Otherwise
\* a record that may have been completed has the age of the first server's date, which
\* is not the date beside it if the last server's could not be read: fill_missing_from
\* fills dates and ages one by one (lib.rs 344-378).  All other records, those of RDAP
\* among them, have no age then.
AgesMatch ==
    Answered /\ ~reply.response.cached /\ reply.response.parsed # NoRecord =>
        \A age \in Ages :
            LET parsed == reply.response.parsed
                date == DateOf[age]
                completed ==
                    FromWhois /\ (IsIp(request) \/ reply.response.status # "RateLimited")
            IN parsed[age] = IF AgeOf(parsed[date]) # {} THEN AgeOf(parsed[date])
                             ELSE IF completed THEN AgeOf(FirstRecord[date]) ELSE {}

\* The RDAP server is asked again only after a failure of the transport: a throttled
\* or refused query is not repeated (rdap.rs 413-415, 484-486).
OnlyTransientRetried ==
    \A i \in 1 .. Len(seen) - 1 : seen[i] = "transport"

\* An answer by RDAP, also that there is no such object, is final: WHOIS is asked
\* only when the last outcome was a failure (lib.rs 527-536).
RdapAnswerIsFinal ==
    seen # <<>> /\ Last(seen) \in {"200", "404"} =>
        chain = <<>> /\ stage \notin {"whois", "whoisQuery", "referral"}

\* The callers that waited for one failed fetch get a copy of its error, which may
\* be another error (errors.rs 57-74), but not another HTTP status.
WaitersAgree ==
    reply.error # None => HttpStatus(duplicate(reply.error)) = HttpStatus(reply.error)

\* The special ranges of the RFCs that the comments of ip.rs name, and IPv4 multicast,
\* ...
SpecialRanges4 ==
    Ip!Blocks({10, 127} \cup 224..255) \cup
    {<<<<172, 16>>, <<172, 31>>>>, <<<<192, 168>>, <<192, 168>>>>,
     <<<<169, 254>>, <<169, 254>>>>, <<<<100, 64>>, <<100, 127>>>>,
     <<<<198, 18>>, <<198, 19>>>>}
SpecialRanges6 ==
    {<<<<\hfc00, 0>>, <<\hfdff, \hffff>>>>, <<<<\hfe80, 0>>, <<\hfebf, \hffff>>>>,
     <<<<\hff00, 0>>, <<\hffff, \hffff>>>>, <<<<\h2001, \hdb8>>, <<\h2001, \hdb8>>>>}

\* ... and what is smaller: documentation networks and single addresses.
Special(ip) ==
    IF Ip!IsV4(ip)
    THEN \/ \E range \in SpecialRanges4 : Ip!Contains(range, ip)
         \/ <<ip[1], ip[2], ip[3]>> \in {<<192, 0, 2>>, <<198, 51, 100>>, <<203, 0, 113>>}
         \/ ip = <<0, 0, 0, 0>>
    ELSE \/ \E range \in SpecialRanges6 : Ip!Contains(range, ip)
         \/ ip \in {<<0, 0, 0>>, <<0, 0, 1>>}

\* No server is ever asked about an address that belongs to no registry, by neither
\* protocol and through no referral; all others are asked about (ip.rs 471-540).
SpecialNeverAsked ==
    IsIp(request) =>
        /\ stage \in {"rdapQuery", "whoisQuery", "referral"} => ~Special(request.input.ip)
        /\ reply.error = "UnsupportedIpAddress" => Special(request.input.ip)

\* No address has ranges of two registries, so that the order of the table does not
\* matter: ranges of two registries share no address, and both ends of every range are
\* their registry's, none of them special (ip.rs 212-401).
RirUnambiguous ==
    LET Overlap(r, s) == Ip!NotAfter(r[1], s[2]) /\ Ip!NotAfter(s[1], r[2])
        Disjoint(table) ==
            \A i, j \in DOMAIN table : \A r \in table[i][2], s \in table[j][2] :
                Overlap(r, s) => i = j
        Right(table, rest) ==
            \A i \in DOMAIN table : \A r \in table[i][2] :
                \A a \in {r[1] \o rest, r[2] \o rest} : Ip!detect_rir(a) = table[i][1]
    IN reply = NoReply /\ stage = "idle" =>
        /\ Disjoint(Ip!ipv4_ranges) /\ Right(Ip!ipv4_ranges, <<0, 1>>)
        /\ Disjoint(Ip!ipv6_ranges) /\ Right(Ip!ipv6_ranges, <<2>>)

\* A fresh or debug request shows the servers' present answer and leaves the cache
\* to the other requests (lib.rs 580-583, main.rs 263-267).
LiveBypassesCache ==
    [][request'.fresh /\ reply' # reply =>
          /\ cache' = cache
          /\ reply'.code = 200 => ~reply'.response.cached]_vars

\* NotFound means that "the queried object is not registered" (lib.rs 270-271) and
\* is only for answers without "substantive record data" (parser.rs 55-58).
NegativeMeansNoRecord ==
    FromWhois /\ reply.response.status = "NotFound" =>
        ~HasRecordData(reply.response.parsed)
===============================================================================
