------------------------------- MODULE RdapRecord ------------------------------
(***************************************************************************)
(* The record in the body of an RDAP response (src/src/rdap.rs 503-787).   *)
(* A body is NotJson or the parts of the JSON that are read: nameservers   *)
(* and status as sets, events as a sequence of [action, date], entities as *)
(* a sequence of [roles, vcard], a vcard as a sequence of [name, value],   *)
(* and the name of a network.                                              *)
(***************************************************************************)
EXTENDS WhoisText

NotJson == [json |-> FALSE]
NoRecord == [json |-> FALSE]    \* parsed_data: None

\* The value of the first entry of that name that is not blank.
extract_vcard_property(vcard, property) ==
    LET entries == SelectSeq(vcard, LAMBDA e : e.name = property /\ ~Blank(e.value))
    IN IF entries = <<>> THEN {} ELSE {Head(entries).value}

extract_name_from_vcard(vcard) ==
    LET fn == extract_vcard_property(vcard, "fn")
    IN IF fn # {} THEN fn ELSE extract_vcard_property(vcard, "org")

extract_email_from_vcard(vcard) == extract_vcard_property(vcard, "email")

\* new if there is one, and else old; the other way round, the first counts.
LastOf(old, new) == IF new # {} THEN new ELSE old
FirstOf(old, new) == IF old # {} THEN old ELSE new

\* The events in their order: the last registration and the last expiration count,
\* but the first change.
ReadEvent(parsed, event) ==
    CASE event.action = "registration" -> [parsed EXCEPT !.creation_date = {event.date}]
      [] event.action = "expiration" -> [parsed EXCEPT !.expiration_date = {event.date}]
      [] event.action \in {"last changed", "last update of RDAP database"} ->
            [parsed EXCEPT !.updated_date = FirstOf(@, {event.date})]
      [] OTHER -> parsed

ReadIpEvent(parsed, event) ==
    IF event.action = "expiration" THEN parsed ELSE ReadEvent(parsed, event)

\* An entity fills the fields of all its roles; the last registrar and registrant
\* count, and the first of the other contacts.
ReadEntity(parsed, entity) ==
    LET name == extract_name_from_vcard(entity.vcard)
        email == extract_email_from_vcard(entity.vcard)
        In(role, found) == IF role \in entity.roles THEN found ELSE {}
    IN [parsed EXCEPT !.registrar = LastOf(@, In("registrar", name)),
                      !.registrant_name = LastOf(@, In("registrant", name)),
                      !.registrant_email = LastOf(@, In("registrant", email)),
                      !.admin_email = FirstOf(@, In("administrative", email)),
                      !.tech_email = FirstOf(@, In("technical", email))]

parse_rdap_response(body) ==
    IF body = NotJson THEN NoRecord
    ELSE LET start == [EmptyRecord EXCEPT !.name_servers = body.nameservers,
                                          !.status = body.status]
         IN calculate_age_fields(
                FoldLeft(ReadEntity, FoldLeft(ReadEvent, start, body.events),
                         body.entities))

\* An address's entity gives its email to one field: the technical contact, else the
\* one for abuse, else the registrant, whichever is meant and is still empty.  Every
\* entity has roles.
ReadIpEntity(parsed, entity) ==
    LET email == extract_email_from_vcard(entity.vcard)
        named == [parsed EXCEPT !.registrant_name =
                      FirstOf(@, extract_name_from_vcard(entity.vcard))]
    IN CASE email = {} -> named
         [] "technical" \in entity.roles /\ parsed.tech_email = {} ->
                [named EXCEPT !.tech_email = email]
         [] "abuse" \in entity.roles /\ parsed.admin_email = {} ->
                [named EXCEPT !.admin_email = email]
         [] OTHER -> [named EXCEPT !.registrant_email = FirstOf(@, email)]

parse_rdap_ip_response(body) ==
    IF body = NotJson THEN NoRecord
    ELSE LET start == [EmptyRecord EXCEPT !.registrar = body.name, !.status = body.status]
         IN calculate_age_fields(
                FoldLeft(ReadIpEntity, FoldLeft(ReadIpEvent, start, body.events),
                         body.entities))
===============================================================================
