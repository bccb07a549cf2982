------------------------------- MODULE WhoisText -------------------------------
(***************************************************************************)
(* What the service reads in an answer: the records and their age fields   *)
(* (src/src/lib.rs, src/src/dates.rs), the line parsers for domains and    *)
(* addresses and the classification (src/src/parser.rs), and the referral  *)
(* (src/src/whois.rs).                                                     *)
(*                                                                         *)
(* A text is a sequence of lines, and a key is the set of those words of   *)
(* the parsers that it contains, with "..." for other words: contains(w)   *)
(* is w \in key, and an equality is key = {w}.  A value is <<kind, what>>. *)
(***************************************************************************)
EXTENDS Integers, SequencesExt

None == "none"

Contacts == {"registrant_email", "admin_email", "tech_email"}
Fields == {"registrar", "creation_date", "expiration_date", "updated_date",
           "name_servers", "status", "registrant_name"} \cup Contacts
Ages == {"created_ago", "updated_ago", "expires_in"}

\* A ParsedWhoisData has a set of values for every field, which is empty for None
\* and has at most one element for all but name_servers and status.
EmptyRecord == [f \in Fields \cup Ages |-> {}]

\* lead marks a comment; says is what the phrases in the line tell the classifier.
Line(lead, key, value, says) == [lead |-> lead, key |-> key, value |-> value, says |-> says]
Entry(key, value) == Line("", key, value, "")
Phrase(lead, says) == Line(lead, {}, <<"blank", "">>, says)

Blank(v) == v[1] = "blank"
IsMail(v) == v[1] = "mail"          \* it contains '@'
IsRequest(v) == v[1] = "request"    \* it contains "select request"

-------------------------------------------------------------------------------
(* Age fields *)

\* The days since or until a date, which stand for the date; None for a text that
\* no format fits.
AgeOf(dates) == {d \in dates : d[1] = "date"}

DateOf == [created_ago |-> "creation_date", updated_ago |-> "updated_date",
           expires_in |-> "expiration_date"]

calculate_age_fields(parsed) ==
    [f \in Fields \cup Ages |->
        IF f \in Ages THEN AgeOf(parsed[DateOf[f]]) ELSE parsed[f]]

\* Mutant: a referral's record is taken as it is when it has substance.
fill_if_empty(parsed, fallback) ==
    [f \in Fields \cup Ages |->
        IF parsed.registrar = {} /\ parsed[f] = {} THEN fallback[f] ELSE parsed[f]]

\* Mutant: the ages are always the registry's.
fill_ages_first(parsed, fallback) ==
    [f \in Fields \cup Ages |->
        IF parsed[f] = {} \/ f \in Ages THEN fallback[f] ELSE parsed[f]]

fill_missing_from(parsed, fallback) ==
    [f \in Fields \cup Ages |-> IF parsed[f] = {} THEN fallback[f] ELSE parsed[f]]

-------------------------------------------------------------------------------
(* The line parsers *)

Has(key, words) == key \cap words # {}

\* The arms of parse_whois_data, in their order, that fit a key.
DomainArms(key) ==
    LET fits(f) ==
        CASE f = "expiration_date" -> Has(key, {"expir"})
          [] f = "creation_date" ->
                Has(key, {"creation", "created"}) \/ key = {"registered"}
          [] f = "updated_date" -> Has(key, {"updated", "modified"})
          [] f = "registrar" -> /\ "registrar" \in key
                                /\ ~Has(key, {"whois", "url", "abuse", "expir",
                                              "registration"})
          [] f = "name_servers" ->
                "name server" \in key \/ key \in {{"nserver"}, {"ns"}}
          [] f = "status" -> "status" \in key \/ key = {"state"}
          [] f = "registrant_name" -> /\ "registrant" \in key
                                      /\ Has(key, {"name", "org"}) \/ key = {"registrant"}
          [] f = "registrant_email" -> {"registrant", "email"} \subseteq key
          [] f = "admin_email" -> {"admin", "email"} \subseteq key
          [] f = "tech_email" -> {"tech", "email"} \subseteq key
    IN SelectSeq(<<"expiration_date", "creation_date", "updated_date", "registrar",
                   "name_servers", "status", "registrant_name", "registrant_email",
                   "admin_email", "tech_email">>, fits)

\* The part of an arm's guard that looks at the value and at what has been parsed.
Takes(f, value, parsed) ==
    CASE f = "name_servers" -> TRUE
      [] f = "status" -> value \notin parsed[f]
      [] f \in Contacts -> parsed[f] = {} /\ IsMail(value)
      [] f = "registrant_name" -> parsed[f] = {} /\ ~IsRequest(value)
      [] OTHER -> parsed[f] = {}

\* One line: the first arm that fits and takes the value; a line whose own arm is
\* full goes on to the arms below.
ReadLine(parsed, line) ==
    LET arms == SelectSeq(DomainArms(line.key), LAMBDA f : Takes(f, line.value, parsed))
    IN IF line.lead # "" \/ Blank(line.value) \/ arms = <<>> THEN parsed
       ELSE [parsed EXCEPT ![Head(arms)] = @ \cup {line.value}]

parse_whois_data(text) ==
    calculate_age_fields(FoldLeft(ReadLine, EmptyRecord, text))

\* The arms for addresses; their keys are matched as wholes but for the contacts.
IpArms(key) ==
    LET fits(f) ==
        CASE f = "registrar" ->
                key \in {{"orgname"}, {"org-name"}, {"owner"}, {"organization"}}
          [] f = "netname" -> key = {"netname"}
          [] f = "updated_date" ->
                key \in {{"updated"}, {"lastupdated"}, {"changed"}, {"last-modified"}}
          [] f = "creation_date" -> key \in {{"created"}, {"regdate"}, {"registration"}}
          [] f = "tech_email" -> Has(key, {"orgtechemail", "tech-c", "technical"})
          [] f = "admin_email" -> Has(key, {"abuse"})
          [] f = "registrant_email" -> Has(key, {"e-mail", "email"})
          [] f = "status" -> key \in {{"status"}, {"nettype"}}
    IN SelectSeq(<<"registrar", "netname", "updated_date", "creation_date", "tech_email",
                   "admin_email", "registrant_email", "status">>, fits)

\* soFar is the record and org_from_netname.
ReadIpLine(soFar, line) ==
    LET p == soFar.parsed
        takes(f) == CASE f = "registrar" -> p.registrar = {} \/ soFar.fromNetname
                      [] f = "netname" -> p.registrar = {}
                      [] OTHER -> Takes(f, line.value, p)
        arms == SelectSeq(IpArms(line.key), takes)
    IN IF line.lead \in {"%", "#"} \/ Blank(line.value) \/ arms = <<>> THEN soFar
       ELSE IF Head(arms) \in {"registrar", "netname"}
       THEN [parsed |-> [p EXCEPT !.registrar = {line.value}],
             fromNetname |-> Head(arms) = "netname"]
       ELSE [soFar EXCEPT !.parsed[Head(arms)] = @ \cup {line.value}]

parse_ip_whois_data(text) ==
    calculate_age_fields(
        FoldLeft(ReadIpLine, [parsed |-> EmptyRecord, fromNetname |-> FALSE], text).parsed)

-------------------------------------------------------------------------------
(* Classification and referral *)

HasRecordData(parsed) ==
    \E f \in {"registrar", "creation_date", "name_servers"} : parsed[f] # {}

\* One of RATE_LIMIT_PATTERNS or NOT_FOUND_PATTERNS is in the raw text.
Says(text, what) == \E i \in DOMAIN text : text[i].says = what

\* Mutant: the phrases come first.
classify_phrases_first(text, parsed) ==
    IF Says(text, "throttled") THEN "RateLimited"
    ELSE IF Says(text, "absent") /\ ~HasRecordData(parsed) THEN "NotFound"
    ELSE "Found"

classify_response(text, parsed) ==
    IF HasRecordData(parsed) THEN "Found"
    ELSE IF Says(text, "throttled") THEN "RateLimited"
    ELSE IF Says(text, "absent") THEN "NotFound"
    ELSE "Found"

IsReferralKey(key) ==
    {"whois", "server"} \subseteq key \/ key \in {{"refer"}, {"referralserver"}}

\* A host, also as whois://host, can be asked; a URL, rwhois:// or a text cannot.
\* The first referral line that holds a host counts, in a comment too.
extract_whois_server(text) ==
    LET usable == SelectSeq(text, LAMBDA l : IsReferralKey(l.key) /\ l.value[1] = "host")
    IN IF usable = <<>> THEN None ELSE Head(usable).value[2]
===============================================================================
