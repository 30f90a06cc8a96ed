----------------------------- MODULE FilterRules -----------------------------
(***************************************************************************)
(* The pure decision rules of the after-queue mail filter                  *)
(* (spark-a/mail-server/filters/mail_filter.py).  A subject line is        *)
(* abstracted to what the rules read in it: the canonical article tags it  *)
(* carries, in order, and whether it carries the [SERVIZIO] flag.          *)
(***************************************************************************)
EXTENDS Integers, Sequences

CONSTANTS
    Tags,       \* canonical article tags, [ART-YYYY-NNN]
    NoTag,      \* the None of extract_tag
    Addresses,  \* mail addresses, each spelling a value of its own
    NoAddress,  \* the null envelope sender; a missing or unparsable From
    lower       \* lower[a]: the lower-case spelling of address a

ASSUME TagAssumption == NoTag \notin Tags
ASSUME AddressAssumption ==
    NoAddress \notin Addresses /\ lower \in [Addresses -> Addresses]

Subject == [tags : Seq(Tags), service : BOOLEAN]

Verdict == {"accept", "accept_warn", "reject_no_tag", "freeze"}

\* A missing header and one parseaddr cannot read are the same: no match.
from_matches_sender(from_header, envelope_sender) ==
    /\ from_header # NoAddress
    /\ lower[from_header] = lower[envelope_sender]

grace_margin(budget) == budget \div 2

\* Messages a thread may count before the fuse trips.
HardLimit(budget) == budget + grace_margin(budget)

extract_tag(subject) ==
    IF subject.tags = <<>> THEN NoTag ELSE Head(subject.tags)

has_service_flag(subject) == subject.service

\* X-Redazione-Hop of a mail without the header, or with one that is no number.
NoHop == -1

\* A slip: a mail without the header starts at 1.
increment_hop_FromOne(raw) == IF raw = NoHop THEN 1 ELSE raw + 1

increment_hop(raw) == IF raw = NoHop THEN 0 ELSE raw + 1

\* A slip: the fuse trips one message early.
evaluate_subject_TripsEarly(subject, tag_message_count, budget) ==
    CASE extract_tag(subject) = NoTag ->
            IF has_service_flag(subject) THEN "accept" ELSE "reject_no_tag"
      [] extract_tag(subject) # NoTag /\ tag_message_count >= HardLimit(budget) - 1 ->
            "freeze"
      [] extract_tag(subject) # NoTag /\ tag_message_count < HardLimit(budget) - 1 ->
            IF tag_message_count >= budget THEN "accept_warn" ELSE "accept"

\* A slip: the fuse trips one message late.
evaluate_subject_TripsLate(subject, tag_message_count, budget) ==
    CASE extract_tag(subject) = NoTag ->
            IF has_service_flag(subject) THEN "accept" ELSE "reject_no_tag"
      [] extract_tag(subject) # NoTag /\ tag_message_count > HardLimit(budget) ->
            "freeze"
      [] extract_tag(subject) # NoTag /\ tag_message_count <= HardLimit(budget) ->
            IF tag_message_count >= budget THEN "accept_warn" ELSE "accept"

\* A slip: the warning comes one message late.
evaluate_subject_WarnsLate(subject, tag_message_count, budget) ==
    CASE extract_tag(subject) = NoTag ->
            IF has_service_flag(subject) THEN "accept" ELSE "reject_no_tag"
      [] extract_tag(subject) # NoTag /\ tag_message_count >= HardLimit(budget) ->
            "freeze"
      [] extract_tag(subject) # NoTag /\ tag_message_count < HardLimit(budget) ->
            IF tag_message_count > budget THEN "accept_warn" ELSE "accept"

evaluate_subject(subject, tag_message_count, budget) ==
    CASE extract_tag(subject) = NoTag ->
            IF has_service_flag(subject) THEN "accept" ELSE "reject_no_tag"
      [] extract_tag(subject) # NoTag /\ tag_message_count >= HardLimit(budget) ->
            "freeze"
      [] extract_tag(subject) # NoTag /\ tag_message_count < HardLimit(budget) ->
            IF tag_message_count >= budget THEN "accept_warn" ELSE "accept"
=============================================================================
