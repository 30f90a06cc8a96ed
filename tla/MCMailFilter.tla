---------------------------- MODULE MCMailFilter -----------------------------
(***************************************************************************)
(* Small instances of MailFilter for TLC.                                  *)
(***************************************************************************)
EXTENDS MailFilter

CONSTANTS cronista, capo, Cronista, \* Cronista: cronista in another spelling
          t1, t2,
          m1, m2, m3, m4, m5, m6, m7, m8

MCLower == [a \in {cronista, capo, Cronista} |-> IF a = Cronista THEN cronista ELSE a]

Letter(tags, service) ==
    [sender |-> cronista, from |-> Cronista, rcpts |-> {capo},
     subject |-> [tags |-> tags, service |-> service]]

\* Every mail on one thread.
OneThread == [m \in Msgs |-> Letter(<<t1>>, FALSE)]

\* Two mails on t1, one of them for two recipients and naming t2 as well, one
\* on t2, and one mail for each way handle_DATA may end before it looks at a thread.
AllKinds ==
    [m \in Msgs |->
        CASE m = m1 -> [Letter(<<t1>>, FALSE) EXCEPT !.sender = NoAddress,
                                                     !.from = NoAddress]
          [] m = m2 -> [Letter(<<t1>>, FALSE) EXCEPT !.from = capo]
          [] m = m3 -> Letter(<<>>, TRUE)
          [] m = m4 -> Letter(<<>>, FALSE)
          [] m = m5 -> [Letter(<<t1>>, FALSE) EXCEPT !.from = NoAddress]
          [] m = m6 -> Letter(<<t1>>, FALSE)
          [] m = m7 -> [Letter(<<t1, t2>>, TRUE) EXCEPT !.rcpts = {capo, cronista}]
          [] m = m8 -> Letter(<<t2>>, FALSE)]

\* Two recipients on every mail.
TwoRecipients == [m \in Msgs |-> [Letter(<<t1>>, FALSE) EXCEPT !.rcpts = {capo, cronista}]]

Interchangeable == Permutations(Msgs)
=============================================================================
