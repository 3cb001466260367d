---------------------------- MODULE MySqlSession ----------------------------
(***************************************************************************)
(* The server side of the one MySQL session the daemon owns, as far as the *)
(* daemon can tell: which rows are durable, which are waiting for the end  *)
(* of the open transaction, and whether a transaction is open.  The server *)
(* and libmysqlclient are outside the repository; these operators are what *)
(* my_sql_writer.cpp and mysql_writer_factory.cpp rely on.                 *)
(*                                                                         *)
(* A session is a record                                                   *)
(*   autocommit  a write outside an explicit transaction is durable at once*)
(*   explicit    BEGIN was the last of BEGIN, COMMIT and ROLLBACK          *)
(*   pending     rows written and not yet committed                        *)
(*   committed   durable rows (they outlive the session)                   *)
(***************************************************************************)
EXTENDS Naturals

Session(Row) == [autocommit : BOOLEAN, explicit : BOOLEAN,
                 pending : SUBSET Row, committed : SUBSET Row]

\* The session connect() leaves behind: auto_commit defaults to false there.
ConnectedSession == [autocommit |-> FALSE, explicit |-> FALSE,
                     pending |-> {}, committed |-> {}]

\* BEGIN commits whatever the session had open, then opens a transaction.
AfterBegin(s) == [s EXCEPT !.explicit = TRUE, !.pending = {},
                           !.committed = s.committed \cup s.pending]

AfterCommit(s) == [s EXCEPT !.explicit = FALSE, !.pending = {},
                            !.committed = s.committed \cup s.pending]

AfterRollback(s) == [s EXCEPT !.explicit = FALSE, !.pending = {}]

AfterWrite(s, row) ==
  IF s.autocommit /\ ~ s.explicit
  THEN [s EXCEPT !.committed = s.committed \cup {row}]
  ELSE [s EXCEPT !.pending = s.pending \cup {row}]

\* What is left when the connection goes: the server rolls the transaction
\* back, and the session MYSQL_OPT_RECONNECT opens next has the server's
\* default autocommit (on), for mysql_autocommit() is called only by connect().
AfterDisconnect(s) == [s EXCEPT !.autocommit = TRUE, !.explicit = FALSE,
                                !.pending = {}]
=============================================================================
