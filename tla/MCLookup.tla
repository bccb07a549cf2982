-------------------------------- MODULE MCLookup -------------------------------
(* Instances of Lookup for TLC: texts as registries and registrars send them. *)
EXTENDS Lookup

Date(what) == <<"date", what>>
Text(what) == <<"text", what>>
Mail(what) == <<"mail", what>>
Host(what) == <<"host", what>>

Address(ip) == [has |-> {"address", "dot", "digits"}, ip |-> ip]
Name(has) == [has |-> has, ip |-> <<>>]

\* A domain, and what is neither a domain nor an address.
Names == {Name({"dot", "dns name"}), Name({"dns name"}), Name({"dot", "digits"}),
          Name({":", "hex"}), Name({"dot", ":", "/", "dns name"})}

\* Public and special addresses on both sides of the ranges' ends, in both tables and
\* in none.
Addresses ==
    {Address(a) : a \in {<<8, 8, 8, 8>>, <<10, 0, 0, 1>>, <<100, 127, 0, 1>>,
                         <<198, 19, 0, 1>>, <<198, 20, 0, 1>>, <<172, 32, 0, 1>>,
                         <<240, 0, 0, 1>>, <<192, 0, 2, 1>>,
                         <<0, 0, 0, 0>>, <<0, 0, 1>>,
                         <<\h2001, \h600, 2>>, <<\hfdff, 0, 2>>, <<\hfebf, 1, 2>>,
                         <<\h2001, \hdb8, 2>>}}

DomainsOnly == Names
AllInputs == Names \cup Addresses

-------------------------------------------------------------------------------
(* WHOIS answers about domains *)

ReferralLine(host) == Entry({"registrar", "whois", "server"}, Host(host))

\* A registry's record with its referral; "Last Updated by Registrar" follows
\* "Updated Date".
Record(by) == <<
    Entry({"registrar"}, Text(by)), Entry({"creation", "..."}, Date(by)),
    Entry({"expir", "..."}, Date(by)), Entry({"updated", "..."}, Date(by)),
    Entry({"updated", "registrar", "..."}, Text("by")),
    Entry({"name server"}, Host("ns")), Entry({"status", "..."}, Text("ok"))>>

Throttled == <<Phrase("", "throttled")>>
Absent == <<Phrase("", "absent")>>

\* A record without what makes it substantial.
Thin(by) == <<Entry({"expir", "..."}, Date(by)), Entry({"state"}, Text("ok"))>>

\* A registrar's answer with a contact and a creation date that no format fits.
Unreadable == <<Entry({"created", "..."}, Text("long ago")),
                Entry({"registrant", "name"}, <<"request", "form">>),
                Entry({"registrant", "org"}, Text("org")),
                Entry({"registrant", "email"}, Text("redacted")),
                Entry({"admin", "email"}, Mail("admin")),
                Entry({"tech", "email"}, Mail("tech"))>>

Notice == Phrase("%", "throttled")

RegistryTexts == {
    Record("registry") \o <<ReferralLine("registrar")>>,
    Append(Record("registry"), Notice),
    Thin("registry") \o <<ReferralLine("registrar")>> \o Throttled,
    Throttled \o <<ReferralLine("registrar")>>,
    <<ReferralLine("registrar")>>,
    Absent}

RegistrarTexts == {
    Append(Record("registrar"), Notice),
    Unreadable \o <<ReferralLine("registry")>>,
    Thin("registrar") \o <<Entry({"whois", "server"}, <<"url", "rwhois">>),
                           ReferralLine("reseller")>>,
    Throttled, Absent, <<>>}

-------------------------------------------------------------------------------
(* WHOIS answers about addresses *)

ArinText == <<Entry({"netname"}, Text("net")), Entry({"nettype"}, Text("direct")),
              Entry({"organization"}, Text("org")), Entry({"regdate"}, Date("arin")),
              Entry({"updated"}, Date("arin")),
              Entry({"orgabuseemail", "abuse", "email"}, Mail("abuse")),
              Entry({"orgtechemail", "email"}, Mail("tech")),
              Entry({"orgtechemail", "email"}, Mail("tech too")),
              Entry({"referralserver"}, Host("RIPE"))>>
RipeText == <<Phrase("%", "throttled"), Entry({"netname"}, Text("net")),
              Entry({"abuse-c", "abuse"}, Text("handle")), Entry({"status"}, Text("legacy")),
              Entry({"last-modified"}, Date("ripe"))>>
ReferralOnly == <<Entry({"refer"}, <<"text", "see below">>), Entry({"refer"}, Host("RIPE"))>>

FirstIpTexts == {ArinText, ReferralOnly, Throttled}
NextIpTexts == {RipeText, Throttled, Absent}

-------------------------------------------------------------------------------
(* RDAP bodies *)

Vcard(fn, email) == <<[name |-> "fn", value |-> fn], [name |-> "org", value |-> Text("org")],
                      [name |-> "email", value |-> email]>>

DomainBody ==
    [nameservers |-> {Host("ns")}, status |-> {Text("active")},
     events |-> <<[action |-> "registration", date |-> Date("1995")],
                  [action |-> "last changed", date |-> Date("2024")],
                  [action |-> "last update of RDAP database", date |-> Date("2026")],
                  [action |-> "expiration", date |-> Text("never")]>>,
     entities |-> <<[roles |-> {"registrar", "technical"},
                     vcard |-> Vcard(Text("registrar"), Mail("tech"))],
                    [roles |-> {"registrant", "administrative"},
                     vcard |-> Vcard(<<"blank", "">>, Mail("owner"))]>>]
NetworkBody ==
    [name |-> {Text("net")}, status |-> {Text("active")},
     events |-> <<[action |-> "registration", date |-> Date("1992")],
                  [action |-> "last changed", date |-> Date("2018")]>>,
     entities |-> <<[roles |-> {"technical", "abuse"}, vcard |-> Vcard(Text("noc"), Mail("a"))],
                    [roles |-> {"technical", "abuse"}, vcard |-> Vcard(Text("noc"), Mail("b"))],
                    [roles |-> {"registrant"}, vcard |-> Vcard(Text("org"), Mail("c"))]>>]

DomainBodies == {DomainBody, NotJson}
NetworkBodies == {NetworkBody, NotJson}
===============================================================================
