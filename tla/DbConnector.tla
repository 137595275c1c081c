---------------------------- MODULE DbConnector ----------------------------
(***************************************************************************)
(* The objects that a dbconnector (dbconnector.cpp) owns, from its         *)
(* construction at the head of a session to its destruction at the return  *)
(* of handleStudent or handleInstructor: one connection, one statement,    *)
(* and the result of the last query.                                       *)
(*                                                                         *)
(* What the statements do to the tables is in module Sessions; here a      *)
(* query is one that returns rows or one that does not.  (Connector/C++    *)
(* throws an exception with the error code 0 for the latter.)              *)
(***************************************************************************)
EXTENDS Naturals

CONSTANTS
  Unset,      \* a pointer that was never assigned
  Null,       \* nullptr
  MaxQueries  \* bound on the queries of a session

ASSUME ConnectorAssumption ==
  /\ MaxQueries \in Nat
  /\ Unset # Null
  /\ {Unset, Null} \cap ({"con", "stmt", "res"} \X (0 .. MaxQueries)) = {}

VARIABLES
  at,       \* "new", "session" or "over"
  con,      \* the pointers; objects are named by the query that made them,
  stmt,     \* the connection by 0
  res,
  live,     \* the objects that exist
  query,    \* queries so far
  rows,     \* whether the last one returns rows
  code,     \* what exQuery() returned
  undefined \* whether an object was used or deleted that does not exist

vars == <<at, con, stmt, res, live, query, rows, code, undefined>>

Object == {"con", "stmt", "res"} \X (0 .. MaxQueries)

Init ==
  /\ at = "new"
  /\ con = Unset /\ stmt = Unset /\ res = Unset
  /\ live = {}
  /\ query = 0 /\ rows = FALSE /\ code = 0
  /\ undefined = FALSE

(* The constructor catches the exception of connect(), which has then set  *)
(* nothing.                                                                *)
Construct ==
  /\ at = "new"
  /\ at' = "session"
  /\ \/ con' = <<"con", 0>> /\ stmt' = Null /\ live' = {<<"con", 0>>}
     \/ UNCHANGED <<con, stmt, live>>
  /\ UNCHANGED <<res, query, rows, code, undefined>>

MayDelete(p) == p = Null \/ p \in live

(* Anything may happen when a pointer leads nowhere; the session is given  *)
(* up.                                                                     *)
Stray ==
  /\ undefined' = TRUE
  /\ at' = "over"
  /\ UNCHANGED <<con, stmt, res, live>>

OldKept == {}

OldBoth == {stmt, res} \ {Unset}

(* What exQuery() deletes first.  The result before it does not.           *)
Old == {stmt}

AnythingGoes(outcome) == 0

(* What it returns: an exception with the error code 0 is no error.        *)
ReturnOf(outcome) == IF outcome = "error" THEN 1 ELSE 0

exQuery ==
  /\ at = "session" /\ query < MaxQueries
  /\ query' = query + 1
  /\ IF con \notin live \/ \E p \in Old : ~MayDelete(p)
     THEN Stray /\ UNCHANGED <<rows, code>>
     ELSE \E outcome \in {"rows", "none", "error"} :
            /\ stmt' = <<"stmt", query'>>
            /\ res' = IF outcome = "rows" THEN <<"res", query'>> ELSE res
            /\ live' = (live \ Old) \cup ({stmt', res'} \ {res})
            /\ rows' \in (IF outcome = "rows" THEN {TRUE}
                          ELSE IF outcome = "none" THEN {FALSE} ELSE BOOLEAN)
            /\ code' = ReturnOf(outcome)
            /\ UNCHANGED <<at, con, undefined>>

(* The connection is not deleted.                                          *)
DestructKeepsCon ==
  /\ at = "session"
  /\ IF MayDelete(res) /\ MayDelete(stmt)
     THEN /\ at' = "over"
          /\ live' = live \ {res, stmt}
          /\ UNCHANGED <<con, stmt, res, undefined>>
     ELSE Stray
  /\ UNCHANGED <<query, rows, code>>

(* The destructor deletes all three.                                       *)
Destruct ==
  /\ at = "session"
  /\ IF MayDelete(res) /\ MayDelete(stmt) /\ MayDelete(con)
     THEN /\ at' = "over"
          /\ live' = live \ {res, stmt, con}
          /\ UNCHANGED <<con, stmt, res, undefined>>
     ELSE Stray
  /\ UNCHANGED <<query, rows, code>>

Next == Construct \/ exQuery \/ Destruct

Spec == Init /\ [][Next]_vars

-----------------------------------------------------------------------------
(* Properties.                                                             *)

(* The connection is closed with the session.                              *)
TypeOK ==
  /\ at \in {"new", "session", "over"}
  /\ {con, stmt, res} \subseteq Object \cup {Unset, Null}
  /\ live \subseteq Object
  /\ con \in live <=> con # Unset /\ (at = "session" \/ undefined)
  /\ query \in 0 .. MaxQueries
  /\ rows \in BOOLEAN
  /\ code \in {0, 1}
  /\ undefined \in BOOLEAN

(* However the queries of a session end, no statement is left behind.      *)
OneStatement ==
  \A i \in 0 .. MaxQueries :
    <<"stmt", i>> \in live =>
      stmt = <<"stmt", i>> /\ (at = "session" \/ undefined)

(* Where the callers read a result (handle.cpp: exQuery() == 0 and a       *)
(* SELECT), it is there and it is that of their query, not of an earlier   *)
(* one.                                                                    *)
OwnResult ==
  (at = "session" /\ query > 0 /\ code = 0 /\ rows) =>
    res = <<"res", query>> /\ res \in live

(* Nothing is deleted twice: pointers are only followed astray when there  *)
(* was no connection, or at the end of a session that got no result.       *)
StrayOnlyUnset ==
  undefined => con = Unset \/ (res = Unset /\ at = "over")
=============================================================================
