----------------------------- MODULE MCCollector -----------------------------
(***************************************************************************)
(* Small instances of Collector and Report for TLC.                        *)
(***************************************************************************)
EXTENDS Report

CONSTANTS t1, gianni, verificatore, cronista, capo, x1, x2, x3, x4, x5,
          l1, l2, l3, f1, f2, bozza, finale

Letter(tag, sender, recipients, at) ==
    [tag |-> tag, title |-> IF at = 1 THEN bozza ELSE finale, sender |-> sender,
     recipients |-> recipients, sent_at |-> at, hop |-> at - 1,
     identified |-> TRUE, dated |-> TRUE]

\* Two reviews on one article, a mail of the director on it and one off it, and
\* a mail no record can be made of.
Newsroom ==
    [m \in Mails |->
        CASE m = x1 -> Letter(t1, verificatore, <<cronista>>, 1)
          [] m = x2 -> Letter(t1, verificatore, <<capo>>, 2)
          [] m = x3 -> Letter(NoTag, gianni, <<>>, 1)
          [] m = x4 -> Letter(t1, gianni, <<capo, cronista>>, 2)
          [] m = x5 -> [Letter(t1, capo, <<cronista>>, 2) EXCEPT !.identified = FALSE]]

\* A bounce of the tag and one of the matrix, each with a timestamp of its
\* format, and one of the tag on 29 February.
Log ==
    [l \in Lines |->
        CASE l = l1 -> [markers |-> {"Oggetto senza tag articolo", "status=bounced"},
                        stamp |-> "syslog", leap_day |-> FALSE]
          [] l = l2 -> [markers |-> {"Recipient address rejected", "reject"},
                        stamp |-> "iso", leap_day |-> FALSE]
          [] l = l3 -> [markers |-> {"Oggetto senza tag articolo", "status=bounced"},
                        stamp |-> "syslog", leap_day |-> TRUE]]

\* Only x1 may be delivered twice.
OneCopied == [m \in Mails |-> IF m = x1 THEN 2 ELSE 1]

\* Every day in a year of its own, the first one in a leap year, and every Date
\* in a week of its own.
NewYear  == [d \in Days |-> d + 3]
Weeks    == [at \in 1 .. Now |-> at]
Sizes    == [m \in Mails |-> 1]

\* Both session files belong to capo.
Homes == [f \in Sessions |-> capo]
=============================================================================
