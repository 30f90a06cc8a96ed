------------------------------ MODULE PostfixLog ------------------------------
(***************************************************************************)
(* What metrics/postfix_log.py reads in a line of mail.log.  A line is     *)
(* abstracted to the fixed markers it contains, the format of its leading  *)
(* timestamp, whether it was written on 29 February, and the year it was   *)
(* written in; the rest of its date is the same however it is read.        *)
(***************************************************************************)
EXTENDS Integers

CONSTANTS
    Lines,  \* lines of the log, told apart by their hash (_line_ref)
    Line    \* Line[l]: markers, timestamp format and leap day of l

Marker == {"Oggetto senza tag articolo", "status=bounced",
           "Recipient address rejected", "reject"}

ASSUME LineAssumption ==
    Line \in [Lines -> [markers : SUBSET Marker, stamp : {"iso", "syslog", "other"},
                       leap_day : BOOLEAN]]

BounceKind == {"bounce_matrice", "bounce_tag"}

\* A slip: an ISO timestamp is given the default year too.
parse_timestamp_DefaultYear(l, written, default_year) ==
    CASE Line[l].stamp \in {"iso", "syslog"} -> default_year
      [] Line[l].stamp = "other"  -> 0

\* An ISO timestamp carries its year, a syslog one takes the default; 0 is None.
parse_timestamp(l, written, default_year) ==
    CASE Line[l].stamp = "iso"    -> written
      [] Line[l].stamp = "syslog" -> default_year
      [] Line[l].stamp = "other"  -> 0

\* The missing tag is looked for first; "reject" and the matrix marker alone
\* are no bounce.
Kinds(l) ==
    IF {"Oggetto senza tag articolo", "status=bounced"} \subseteq Line[l].markers
    THEN {"bounce_tag"}
    ELSE IF {"Recipient address rejected", "reject"} \subseteq Line[l].markers
    THEN {"bounce_matrice"} ELSE {}

IsLeap(year) == year % 4 = 0 /\ (year % 100 = 0 => year % 400 = 0)

\* datetime() raises ValueError for a 29 February in a year without one, and
\* nothing on the way up catches it; lines of no kind are left before that.
Raises(l, default_year) ==
    /\ Kinds(l) # {}
    /\ Line[l].stamp = "syslog" /\ Line[l].leap_day /\ ~IsLeap(default_year)

\* The events of a line that does not raise, at most one: kind and year.
parse_postfix_line(l, written, default_year) ==
    LET occurred_at == parse_timestamp(l, written, default_year)
    IN  IF occurred_at = 0 THEN {}
        ELSE {[type |-> kind, year |-> occurred_at] : kind \in Kinds(l)}
=============================================================================
